-------------------------- MODULE Base64BatchInto --------------------------
(***************************************************************************)
(* One call that converts into bytearrays on a build with the GIL: of a    *)
(* batch (b64encode_batch_into and b64decode_batch_into,                   *)
(* src/src/bindings/base64/batch.rs) or of one input (the *_into functions *)
(* of encode.rs and decode.rs), among the Python code that runs inside it: *)
(* callbacks and release hooks of exporters, string subclasses, arguments  *)
(* that are converted, finalizers and warning hooks. That code writes and  *)
(* resizes bytearrays, releases views and clears the list of items, while  *)
(* every item is converted into its own destination, one after the other.  *)
(* What the call still holds at its end is dropped before it returns,      *)
(* which may run Python code after the last write.                         *)
(*                                                                         *)
(* Bytearrays are sequences of cells in blocks of memory. The conversion   *)
(* of an input fills one cell per cell of the input, each tagged with the  *)
(* whole input, so that equal conversions mean equal inputs.               *)
(***************************************************************************)
EXTENDS Integers, Sequences, SequencesExt, BufferRanges

CONSTANTS
  Bytes,        (* exact bytes objects                                     *)
  Strings,      (* exact ASCII strings                                     *)
  ByteArrays,   (* exact bytearrays                                        *)
  Views,        (* memoryviews of bytearrays                               *)
  Exporters,    (* other buffer exporters, whose callbacks run Python      *)
  Texts,        (* instances of str subclasses, which override encode      *)
  Others,       (* objects without a buffer                                *)
  Data,         (* the contents of bytes and strings                       *)
  Reentrant,    (* the texts that encode to an exporter, or a view of one, *)
                (* that runs Python code when it is released               *)
  Base,         (* the bytearray that a view, exporter or text exports     *)
  Offset, Size, (* the slice of its bytearray that a view exports          *)
  Strided,      (* the views that are not contiguous                       *)
  OwnerThreshold, (* MEMORYVIEW_OWNER_THRESHOLD                            *)
  Bad,          (* a cell that does not decode                             *)
  Legacy,       (* a cell that decodes with a warning                      *)
  Calls,        (* the arguments: records of decoding, items, outputs; the *)
                (* entry: "batch", or for one item "plain" (standard_*_into *)
                (* and b64encode_into), "urlsafe" or "decode"; custom: other *)
                (* arguments run Python code; translates: alternative      *)
                (* characters are given, and none to ignore                *)
  Initial,      (* where the bytearrays are at first, and what they hold   *)
  Contents,     (* the contents Python code gives to bytearrays            *)
  Blocks,       (* bound: the numbers of the blocks of memory              *)
  BlockSize,    (* bound: cells in a block                                 *)
  MaxEvents     (* bound: how often other code acts during the call        *)

Objects == Bytes \union Strings \union ByteArrays \union Views \union Exporters \union Texts \union Others

IsCall(c) ==
  /\ c.entry \in {"batch", "plain", "urlsafe", "decode"}
  /\ c.decoding \in BOOLEAN /\ c.custom \in BOOLEAN /\ c.translates \in BOOLEAN
  /\ c.items \in Seq(Objects) /\ c.outputs \in Seq(Range(c.outputs))
  /\ c.entry # "batch" => Len(c.items) = 1

ASSUME Base64BatchAssumption ==
  /\ (Bytes \union Strings) \intersect (ByteArrays \union Views \union Exporters \union Texts) = {}
  /\ ByteArrays \intersect (Views \union Exporters \union Texts) = {}
  /\ Views \intersect (Exporters \union Texts) = {}
  /\ \A o \in Bytes \union Strings : Data[o] \in Seq(Range(Data[o]))
  /\ \A c \in Calls : IsCall(c)
  /\ Base \in [Views \union Exporters \union Texts -> ByteArrays]
  /\ Offset \in [Views -> Nat] /\ Size \in [Views -> Nat]
  /\ Strided \subseteq Views /\ Reentrant \subseteq Texts
  /\ {OwnerThreshold, BlockSize, MaxEvents} \subseteq Nat /\ Blocks \subseteq Nat
  /\ \A bytes \in Contents : bytes \in Seq(Range(bytes)) /\ Len(bytes) <= BlockSize
  /\ \A heap \in Initial :
       /\ heap.block \in [ByteArrays -> Blocks] /\ IsInjective(heap.block)
       /\ heap.content \in [ByteArrays -> Contents]
       /\ \A v \in Views : Offset[v] + Size[v] <= Len(heap.content[Base[v]])

VARIABLES
  content,  (* the contents of every bytearray                             *)
  block,    (* the block of memory that holds them                         *)
  released, (* the memoryviews that have been released                     *)
  call,     (* the arguments                                               *)
  pc,       (* where the call is                                           *)
  at,       (* the item, or prepared input, that it is at                  *)
  prepared, (* the inputs acquired before the first write, in item order   *)
  copies,   (* the staged snapshots of prepared inputs                     *)
  done,     (* the conversions written so far                              *)
  decoded,  (* a conversion held back while its warning is shown           *)
  callback, (* Python code runs inside the call                            *)
  kept,     (* the list of a batch still has its items                     *)
  shadow,   (* history: contents without the writes of the call            *)
  seen,     (* history: what each item has contained in `shadow`           *)
  events    (* history: how often other code has acted                     *)

vars == <<content, block, released, call, pc, at, prepared, copies, done, decoded, callback,
          kept, shadow, seen, events>>

memory == <<content, block, released, kept, shadow>>

Single == call.entry # "batch"
items == call.items
outputs == call.outputs
Destinations == Range(outputs)

Encoded(bytes) == [j \in DOMAIN bytes |-> <<bytes, j>>]

(* What an item contains, read from the given contents of bytearrays.      *)
Slice(bytes, offset, size) == SubSeq(bytes, offset + 1, offset + size)
Value(o, bytearrays) ==
  IF o \in Bytes \union Strings THEN Data[o]
  ELSE IF o \in ByteArrays THEN bytearrays[o]
  ELSE IF o \in Views THEN Slice(bytearrays[Base[o]], Offset[o], Size[o])
  ELSE IF o \in Exporters \union Texts THEN bytearrays[Base[o]]
  ELSE <<>>
----------------------------------------------------------------------------
(* BytesLike: data of its own, a bytearray read in place, an export that   *)
(* pins its memory, or a copy read in place of an export still held; or    *)
(* the error that acquiring the item raised.                               *)
OwnedInput(data) == [kind |-> "owned", data |-> data]
ArrayInput(b) == [kind |-> "array", base |-> b]
BufferInput(b, offset, size, mayReenter) ==
  [kind |-> "buffer", base |-> b, offset |-> offset, size |-> size, mayReenter |-> mayReenter]
CopyOfBuffer(data, b) == [kind |-> "copy", data |-> data, base |-> b]
ErrorInput == [kind |-> "error"]

IsBuffer(input) == input.kind = "buffer"

Read(input) ==
  CASE input.kind \in {"owned", "copy"} -> input.data
    [] input.kind = "array"  -> content[input.base]
    [] input.kind = "buffer" -> Slice(content[input.base], input.offset, input.size)

(* A bytearray cannot change its size while a view or buffer exports it.   *)
Exported(b) ==
  \E k \in DOMAIN prepared :
    prepared[k].input.kind \in {"buffer", "copy"} /\ prepared[k].input.base = b
Pinned(b) == Exported(b) \/ \E v \in Views \ released : Base[v] = b

Start(b) == block[b] * BlockSize
ArrayRange(b) == BufferRange(Start(b), Len(content[b]))
InputRange(input) == BufferRange(Start(input.base) + input.offset, input.size)

(* BatchOutputs::ranges, of the destinations that are not empty.           *)
OutputRanges == SortedRanges({ArrayRange(b) : b \in {d \in Destinations : content[d] # <<>>}})

(* BatchOutputs::snapshot_alias.                                           *)
AliasesByIdentity(input) ==                                               (* faulty *)
  input.kind = "array" /\ input.base \in Destinations

AliasesOutput(input) ==
  \/ input.kind = "array" /\ input.base \in Destinations
  \/ IsBuffer(input) /\ input.size > 0 /\ OverlapsSome(OutputRanges, InputRange(input))

(* snapshot_policy: what may happen to an item before its turn to be read. *)
(* A single input is always acquired before the write.                     *)
AliasPolicy == "AliasesOnly"
ReleasePolicy == "ReleaseBeforeWrite"
NoPolicy == "None"

SnapshotPolicyOfViews(o) ==                                               (* faulty *)
  IF Single THEN AliasPolicy
  ELSE IF o \in Bytes \/ (call.decoding /\ o \in Strings) THEN NoPolicy
  ELSE IF o \in ByteArrays THEN IF o \in Destinations THEN AliasPolicy ELSE NoPolicy
  ELSE AliasPolicy

SnapshotPolicy(o) ==
  IF Single THEN AliasPolicy
  ELSE IF o \in Bytes \/ (call.decoding /\ o \in Strings) THEN NoPolicy
  ELSE IF o \in ByteArrays THEN IF o \in Destinations THEN AliasPolicy ELSE NoPolicy
  ELSE IF o \in Views THEN AliasPolicy
  ELSE ReleasePolicy

NeedsPreparation == \E o \in Range(items) : SnapshotPolicy(o) # NoPolicy

(* A single decode normalizes most of its inputs to an object with a       *)
(* translate method first, and that copies views and other exporters.      *)
Normalizes(o) ==
  \/ call.entry = "urlsafe" /\ call.decoding
  \/ call.entry = "decode" /\ (o \in Exporters \union Texts \/ call.custom)

(* Some entry points hold an export of any input but bytes.                *)
HoldsExport == call.entry = "urlsafe" /\ ~call.decoding

(* snapshot_before_output_write: inputs whose release runs Python code, or *)
(* that nothing but the export keeps.                                      *)
ReleasedBeforeWrite(p) == IsBuffer(p.input) /\ (p.input.mayReenter \/ p.policy = ReleasePolicy)
----------------------------------------------------------------------------
Init ==
  /\ \E heap \in Initial : content = heap.content /\ block = heap.block
  /\ call \in Calls
  /\ released = Views \ Range(call.items)
  /\ pc = "start" /\ at = 1
  /\ prepared = <<>> /\ copies = <<>> /\ done = <<>> /\ decoded = <<>>
  /\ callback = FALSE /\ kept = TRUE
  /\ shadow = content
  /\ seen = [k \in DOMAIN call.items |-> {Value(call.items[k], content)}]
  /\ events = 0

Goto(label) == pc' = label

(* The end of a call drops the inputs and errors still prepared, and the   *)
(* items: the caller has those of a single call, the list those of a batch *)
(* unless it was cleared. A single decode drops what a text encoded to.    *)
DropRunsPython ==
  \/ \E p \in Range(prepared) :
       \/ IsBuffer(p.input) /\ p.input.mayReenter
       \/ p.input.kind = "error" /\ p.item # Len(done) + 1
  \/ Single /\ call.decoding /\ items[1] \in Reentrant /\ (at > 1 \/ callback)
  \/ ~Single /\ ~kept /\ Range(items) \intersect (Views \union Exporters \union Texts \union Others) # {}

EndsAt(label) == Goto(label) /\ callback' = DropRunsPython

(* batch_outputs: as many distinct bytearrays as there are items.          *)
OutputsNotDistinct ==                                                     (* faulty *)
  Len(outputs) = Len(items) /\ Destinations \subseteq ByteArrays

OutputsValid ==
  /\ Len(outputs) = Len(items)
  /\ Destinations \subseteq ByteArrays
  /\ IsInjective(outputs)

CheckOutputs ==
  /\ pc = "start"
  /\ Goto(IF ~OutputsValid THEN "raised"
          ELSE IF items = <<>> THEN "returned"
          ELSE IF Single \/ NeedsPreparation THEN "preparing"
          ELSE "allocating")
  /\ UNCHANGED <<memory, call, at, prepared, copies, done, decoded, callback, seen, events>>

(* prepare_batch_inputs acquires, in order, the items that have a policy.  *)
Preparing == pc = "preparing" /\ at <= Len(items)

Prepare(input) ==
  /\ prepared' = Append(prepared, [item |-> at, input |-> input, policy |-> SnapshotPolicy(items[at])])
  /\ at' = at + 1
  /\ callback' = FALSE
  /\ UNCHANGED <<memory, call, pc, copies, done, decoded, seen, events>>

SkipItem ==
  /\ Preparing /\ SnapshotPolicy(items[at]) = NoPolicy
  /\ at' = at + 1
  /\ UNCHANGED <<memory, call, pc, prepared, copies, done, decoded, callback, seen, events>>

PrepareImmutable ==
  /\ Preparing /\ Single /\ items[at] \in Bytes \union Strings
  /\ items[at] \in Strings => call.decoding
  /\ Prepare(OwnedInput(Data[items[at]]))

ExportOf(b) == BufferInput(b, 0, Len(content[b]), FALSE)

PrepareByteArray ==
  /\ Preparing /\ items[at] \in ByteArrays /\ SnapshotPolicy(items[at]) # NoPolicy
  /\ LET b == items[at]
     IN  Prepare(IF HoldsExport THEN ExportOf(b)
                 ELSE IF call.entry = "urlsafe" THEN OwnedInput(content[b])
                 ELSE ArrayInput(b))

(* A long view of a whole bytearray becomes the bytearray, unpinned; a     *)
(* decode copies a view that is not contiguous.                            *)
BecomesOwner(size, b) == size >= OwnerThreshold /\ size = Len(content[b]) /\ ~HoldsExport

PrepareView ==
  /\ Preparing /\ items[at] \in Views \ released
  /\ LET v == items[at]
         b == Base[v]
     IN  /\ v \in Strided => call.decoding
         /\ Prepare(IF v \in Strided \/ Normalizes(v) THEN OwnedInput(Value(v, content))
                    ELSE IF BecomesOwner(Size[v], b) THEN ArrayInput(b)
                    ELSE BufferInput(b, Offset[v], Size[v], FALSE))

(* An exporter is called back; so is the encode of a str subclass, whose   *)
(* result exports a whole bytearray, and that nothing else keeps.          *)
CallsBack(o) == o \in Exporters \/ (call.decoding /\ o \in Texts)

BeginCallback ==
  /\ Preparing /\ ~callback /\ CallsBack(items[at])
  /\ callback' = TRUE
  /\ UNCHANGED <<memory, call, pc, at, prepared, copies, done, decoded, seen, events>>

(* A view has no translate. An exporter is known to run Python code when   *)
(* it is released; a view is not, though it may release an exporter.       *)
PrepareExport ==
  /\ Preparing /\ callback
  /\ ~(items[at] \in Texts /\ call.entry = "urlsafe")
  /\ LET o == items[at]
         b == Base[o]
         size == Len(content[b])
     IN  \/ o \in Exporters /\ Normalizes(o) /\ Prepare(OwnedInput(content[b]))
         \/ o \in Exporters \ Texts /\ ~Normalizes(o) /\ Prepare(BufferInput(b, 0, size, TRUE))
         \/ /\ o \in Texts \ (Exporters \union Reentrant)
            /\ BecomesOwner(size, b) /\ ~Normalizes(o)
            /\ Prepare(ArrayInput(b))
         \/ /\ o \in Texts \ Exporters
            /\ o \in Reentrant \/ ~BecomesOwner(size, b) \/ Normalizes(o)
            /\ \E mayReenter \in {FALSE, (o \in Reentrant)} : Prepare(BufferInput(b, 0, size, mayReenter))

(* The first item that cannot be acquired ends the preparation; a batch    *)
(* raises its error when its turn comes.                                   *)
Unusable(o) ==
  \/ o \in Others \union released
  \/ o \in Strided /\ ~call.decoding
  \/ o \in Strings \union Texts /\ ~call.decoding
  \/ CallsBack(o) /\ callback

PrepareFails ==
  /\ Preparing /\ SnapshotPolicy(items[at]) # NoPolicy /\ Unusable(items[at])
  /\ prepared' = Append(prepared, [item |-> at, input |-> ErrorInput, policy |-> SnapshotPolicy(items[at])])
  /\ at' = Len(items) + 1
  /\ IF Single THEN EndsAt("failing") ELSE Goto(pc) /\ callback' = FALSE
  /\ UNCHANGED <<memory, call, copies, done, decoded, seen, events>>

(* A single call converts its other arguments once it has the input. One   *)
(* that was copied has been released, which runs a hook too.               *)
ConvertArguments ==
  /\ pc = "preparing" /\ Single /\ at > Len(items)
  /\ callback' = (call.custom \/ (items[1] \in Exporters /\ Normalizes(items[1])))
  /\ Goto("arguments")
  /\ UNCHANGED <<memory, call, at, prepared, copies, done, decoded, seen, events>>

(* A decode that normalizes converts the alternative characters first,     *)
(* which a bytearray is then translated with into a copy, or else exported.*)
Translatable == items[1] \notin Texts \/ ~call.translates
ExportNormalized ==
  /\ pc = "arguments" /\ ~callback /\ call.entry = "decode" /\ Normalizes(items[1])
  /\ IF ~Translatable THEN EndsAt("failing") /\ UNCHANGED prepared
     ELSE /\ prepared' = IF items[1] \notin ByteArrays THEN prepared
                         ELSE LET b == items[1]
                              IN  [prepared EXCEPT ![1].input =
                                     IF call.translates THEN OwnedInput(content[b]) ELSE ExportOf(b)]
          /\ callback' = call.custom
          /\ Goto("exported")
  /\ UNCHANGED <<memory, call, at, copies, done, decoded, seen, events>>

ArgumentFails ==
  /\ pc \in {"arguments", "exported"} /\ callback
  /\ EndsAt("failing")
  /\ UNCHANGED <<memory, call, at, prepared, copies, done, decoded, seen, events>>

(* The first stage copies every input to be released, then drops them one  *)
(* by one: a hook can change memory and the contents of later inputs.      *)
Acquired ==
  IF ~Single THEN pc = "preparing"
  ELSE IF call.entry = "decode" /\ Normalizes(items[1]) THEN pc = "exported" ELSE pc = "arguments"

StageReleases ==
  /\ Acquired /\ ~callback /\ at > Len(items)
  /\ copies' = [k \in DOMAIN prepared |->
                  IF ReleasedBeforeWrite(prepared[k]) THEN Read(prepared[k].input) ELSE <<>>]
  /\ at' = 1
  /\ Goto("releasing")
  /\ UNCHANGED <<memory, call, prepared, done, decoded, callback, seen, events>>

ReleaseNext ==
  /\ pc = "releasing" /\ ~callback /\ at <= Len(prepared)
  /\ IF ReleasedBeforeWrite(prepared[at])
     THEN prepared' = [prepared EXCEPT ![at].input = OwnedInput(copies[at])] /\ callback' = TRUE
     ELSE UNCHANGED <<prepared, callback>>
  /\ at' = at + 1
  /\ UNCHANGED <<memory, call, pc, copies, done, decoded, seen, events>>

(* The characters to ignore have been copied and are released last.        *)
DropsIgnored == call.entry = "decode" /\ Normalizes(items[1]) /\ call.custom /\ ~call.translates
DropIgnored ==
  /\ pc = "releasing" /\ ~callback /\ at > Len(prepared) /\ DropsIgnored
  /\ callback' = TRUE
  /\ Goto("dropped")
  /\ UNCHANGED <<memory, call, at, prepared, copies, done, decoded, seen, events>>

(* The second stage looks for aliases of the destinations where they are   *)
(* after every hook has run. A single call keeps the export it copied.     *)
CopyAlias(input) ==
  IF ~AliasesOutput(input) THEN input
  ELSE IF Single /\ IsBuffer(input) THEN CopyOfBuffer(Read(input), input.base)
  ELSE OwnedInput(Read(input))

StageAliases ==
  /\ pc = (IF DropsIgnored THEN "dropped" ELSE "releasing") /\ ~callback /\ at > Len(prepared)
  /\ prepared' = [k \in DOMAIN prepared |-> [prepared[k] EXCEPT !.input = CopyAlias(@)]]
  /\ Goto(IF Single THEN "writing" ELSE "allocating")
  /\ UNCHANGED <<memory, call, at, copies, done, decoded, callback, seen, events>>

(* The list of results is allocated, which may run finalizers.             *)
AllocateResults ==
  /\ pc = "allocating"
  /\ callback' = TRUE
  /\ Goto("writing")
  /\ UNCHANGED <<memory, call, at, prepared, copies, done, decoded, seen, events>>

CallbackReturns ==
  /\ pc \in {"arguments", "exported", "releasing", "dropped", "writing"} /\ callback
  /\ callback' = FALSE
  /\ UNCHANGED <<memory, call, pc, at, prepared, copies, done, decoded, seen, events>>

(* The conversion of the next item: from the input prepared for it, or     *)
(* from one acquired now, which runs no Python code.                       *)
next == Len(done) + 1
destination == outputs[next]
Converting == pc = "writing" /\ ~callback /\ next <= Len(items)

IsPrepared == prepared # <<>> /\ Head(prepared).item = next
NextInput ==
  IF IsPrepared THEN Head(prepared).input
  ELSE IF items[next] \in ByteArrays THEN ArrayInput(items[next])
  ELSE OwnedInput(Data[items[next]])
TakeInput == prepared' = IF IsPrepared THEN Tail(prepared) ELSE prepared

Invalid(bytes) == call.decoding /\ Bad \in Range(bytes)
Warns(bytes) == call.decoding /\ Legacy \in Range(bytes)

FitsUnchecked(bytes) == TRUE                                              (* faulty *)
Fits(bytes) == Len(bytes) <= Len(content[destination])

(* A write past the end shows as a longer destination.                     *)
WritePrefix(cells) ==
  content' = [content EXCEPT ![destination] = cells \o SubSeq(@, Len(cells) + 1, Len(@))]

Convert ==
  /\ Converting /\ NextInput.kind # "error"
  /\ LET bytes == Read(NextInput)
     IN  /\ ~Invalid(bytes) /\ ~Warns(bytes) /\ Fits(bytes)
         /\ WritePrefix(Encoded(bytes))
         /\ done' = Append(done, Encoded(bytes))
  /\ TakeInput
  /\ UNCHANGED <<block, released, kept, shadow, call, pc, at, copies, decoded, callback, seen, events>>

(* A decode that fails may have written a part of what it would write.     *)
WrittenOnErrorAlways(bytes) ==                                            (* faulty *)
  {n \in DOMAIN bytes : n <= Len(content[destination])} \union {0}

WrittenOnError(bytes) ==
  IF call.decoding /\ ~Warns(bytes)
  THEN {n \in DOMAIN bytes : n < Len(bytes) /\ n <= Len(content[destination])} \union {0}
  ELSE {0}

ConvertFails ==
  /\ Converting /\ NextInput.kind # "error"
  /\ LET bytes == Read(NextInput)
     IN  /\ Invalid(bytes) \/ (~Fits(bytes) /\ ~Warns(bytes))
         /\ \E n \in WrittenOnError(bytes) : WritePrefix(SubSeq(Encoded(bytes), 1, n))
  /\ EndsAt("failing")
  /\ UNCHANGED <<block, released, kept, shadow, call, at, prepared, copies, done, decoded, seen, events>>

RaisePrepared ==
  /\ Converting /\ NextInput.kind = "error"
  /\ EndsAt("failing")
  /\ UNCHANGED <<memory, call, at, prepared, copies, done, decoded, seen, events>>

(* A decode with a warning is held back: showing the warning runs Python   *)
(* code, or raises, before the destination is written.                     *)
Warn ==
  /\ Converting /\ NextInput.kind # "error"
  /\ LET bytes == Read(NextInput)
     IN  /\ Warns(bytes) /\ ~Invalid(bytes)
         /\ decoded' = Encoded(bytes)
  /\ callback' = TRUE
  /\ Goto("warning")
  /\ UNCHANGED <<memory, call, at, prepared, copies, done, seen, events>>

WarningShown ==
  /\ pc = "warning"
  /\ IF Fits(decoded)
     THEN /\ WritePrefix(decoded)
          /\ done' = Append(done, decoded)
          /\ TakeInput
          /\ Goto("writing") /\ callback' = FALSE
     ELSE EndsAt("failing") /\ UNCHANGED <<content, done, prepared>>
  /\ UNCHANGED <<block, released, kept, shadow, call, at, copies, decoded, seen, events>>

WarningRaises ==
  /\ pc = "warning"
  /\ EndsAt("failing")
  /\ UNCHANGED <<memory, call, at, prepared, copies, done, decoded, seen, events>>

Return ==
  /\ pc = "writing" /\ ~callback /\ next > Len(items)
  /\ EndsAt("leaving")
  /\ UNCHANGED <<memory, call, at, prepared, copies, done, decoded, seen, events>>

Leave ==
  /\ pc \in {"leaving", "failing"}
  /\ callback' = FALSE
  /\ Goto(IF pc = "leaving" THEN "returned" ELSE "raised")
  /\ UNCHANGED <<memory, call, at, prepared, copies, done, decoded, seen, events>>

CallStep ==
  \/ CheckOutputs \/ SkipItem \/ PrepareImmutable \/ PrepareByteArray \/ PrepareView
  \/ BeginCallback \/ PrepareExport \/ PrepareFails
  \/ ConvertArguments \/ ExportNormalized \/ ArgumentFails
  \/ StageReleases \/ ReleaseNext \/ DropIgnored \/ StageAliases \/ AllocateResults \/ CallbackReturns
  \/ Convert \/ ConvertFails \/ RaisePrepared \/ Warn \/ WarningShown \/ WarningRaises
  \/ Return \/ Leave
----------------------------------------------------------------------------
(* Other Python code (modelled from what it can do to these objects).      *)
Outside ==
  /\ callback
  /\ events < MaxEvents /\ events' = events + 1
  /\ UNCHANGED <<call, pc, at, prepared, copies, done, decoded, callback>>

(* A new size moves the contents to a free block.                          *)
SetContent(b, bytes) ==
  /\ Outside
  /\ Pinned(b) => Len(bytes) = Len(content[b])
  /\ content' = [content EXCEPT ![b] = bytes]
  /\ shadow' = [shadow EXCEPT ![b] = bytes]
  /\ IF Len(bytes) = Len(content[b]) THEN UNCHANGED block
     ELSE \E free \in Blocks \ Range(block) : block' = [block EXCEPT ![b] = free]
  /\ UNCHANGED <<released, kept>>

ReleaseView(v) ==
  /\ Outside
  /\ ~Exported(Base[v])
  /\ released' = released \union {v}
  /\ UNCHANGED <<content, block, kept, shadow>>

ClearList ==
  /\ Outside
  /\ ~Single
  /\ kept' = FALSE
  /\ UNCHANGED <<content, block, released, shadow>>

(* The history of the items not converted yet. A view that has become its  *)
(* bytearray stands for it even after it is released.                      *)
ArrayOf(k) == {p.input.base : p \in {q \in Range(prepared) : q.item = k /\ q.input.kind = "array"}}
Witness ==
  seen' = [k \in DOMAIN items |->
             IF k <= Len(done) THEN seen[k]
             ELSE seen[k] \union {shadow'[b] : b \in ArrayOf(k)}
                          \union {Value(o, shadow') : o \in {items[k]} \ released'}]

OutsideStep ==
  /\ \/ \E b \in ByteArrays, bytes \in Contents : SetContent(b, bytes)
     \/ \E v \in Views \ released : ReleaseView(v)
     \/ ClearList
  /\ Witness

Finished == pc \in {"returned", "raised"}

Next ==
  \/ CallStep
  \/ OutsideStep
  \/ Finished /\ UNCHANGED vars

Spec == Init /\ [][Next]_vars
----------------------------------------------------------------------------
(* Every conversion is of what its item contained at one instant, apart    *)
(* from what the call itself wrote: converting one item never changes the  *)
(* input of a later one. ("It copies all inputs that overlap a destination *)
(* before it writes to the first destination", b64encode_batch_into.)      *)
ConversionsOfInputs ==
  \A k \in DOMAIN done : \E bytes \in seen[k] : done[k] = Encoded(bytes)

(* From the first write on, the memory of an input that is still exported  *)
(* is no memory of a destination, wherever callbacks moved it meanwhile.   *)
NoLiveAlias ==
  pc \in {"writing", "warning"} =>
    \A k \in DOMAIN prepared, b \in Destinations :
      /\ prepared[k].input # ArrayInput(b)
      /\ IsBuffer(prepared[k].input) /\ prepared[k].input.size > 0 /\ content[b] # <<>> =>
           ~RangesOverlap(InputRange(prepared[k].input), ArrayRange(b))

(* The items whose export the call still holds.                            *)
Held == {items[p.item] : p \in {q \in Range(prepared) : q.input.kind \in {"buffer", "copy"}}}

(* The releases the code knows to run Python code are over once a          *)
(* destination may be written: of every exporter, and in a batch of every  *)
(* text ("Reentrant release hooks must run before a reusable destination   *)
(* is written", snapshot_after_callbacks in buffer.rs; "Release hooks may  *)
(* resize the reusable destination, so they must run before the decoder    *)
(* performs its final capacity check and write", b64decode_with). A single *)
(* decode of a text that encodes to a view of an exporter is no such case: *)
(* acquire_buffer takes the release of a view to run nothing, the view is  *)
(* held across the write, and the comment quoted is wrong there.           *)
KnownHooksRunBeforeWrites ==
  pc \in {"writing", "warning"} =>
    Held \intersect (Exporters \union (IF Single THEN {} ELSE Texts)) = {}

(* A call that encodes leaves every conversion in its own destination and  *)
(* the rest of each destination as it was, until the drop of the items     *)
(* runs Python code; and it returns with that when the list kept them.     *)
OutputsAsReturned ==
  /\ ~call.decoding /\ next > Len(items)
  /\ \/ pc = "writing"
     \/ pc = "leaving" /\ ~callback
     \/ pc = "returned" /\ kept
  => \A k \in DOMAIN items :
       LET was == shadow[outputs[k]]
       IN  content[outputs[k]] = done[k] \o SubSeq(was, Len(done[k]) + 1, Len(was))

(* The call stops at the first error: what it wrote is in destinations it  *)
(* reached, and only a decode leaves the failing destination half written. *)
UnreachedUntouched ==
  \A b \in ByteArrays :
    content[b] # shadow[b] =>
      \E k \in DOMAIN outputs :
        /\ outputs[k] = b
        /\ k <= Len(done) \/ (k = next /\ call.decoding /\ pc \in {"failing", "raised"})

(* A step of the call never resizes a bytearray.                           *)
KeepsSizes ==
  [][events' = events => \A b \in ByteArrays : Len(content'[b]) = Len(content[b])]_vars
=============================================================================
