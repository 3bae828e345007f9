# A verification of hashcodecs-rs in TLA+

hashcodecs-rs implements Base64, MurmurHash3 and XXH3 in Rust and exports them
to CPython (PyO3 classes and raw `METH_FASTCALL` functions). The kernels are
deterministic functions that reference tests cover well. What tests hardly
reach is everything around them: Python code that runs *inside* a call
(buffer callbacks, release hooks, finalizers, warning filters), threads that
run while a call is detached from the interpreter, memory that is shared
between inputs and outputs, and position arithmetic at block, line and length
boundaries. That is what this project models.

Paths below are relative to `src/src/` unless they begin with `docs/` or
`tests/`, which are directories of the repository's root.

## 1. Inventory

| Component | State it keeps | Operations | What is hard | What makes it correct |
|---|---|---|---|---|
| Incremental MurmurHash3 classes (`bindings/murmur3/incremental.rs`, `murmur3/block_buffer.rs`, the three hashers) | hash words, tail array and fill level, wrapping length; PyO3's borrow flag | `new`, `update`, `digest`, `hexdigest`, `copy` | `update` keeps `&mut self` while callbacks run and while it is detached; tail boundaries; 32-bit length | a digest is the one-shot hash of all bytes fed, whatever the chunking; an update happens at once or not at all |
| MurmurHash3 kernels, one-shot functions (`murmur3/dispatch.rs`, `bindings/murmur3/callbacks.rs`) | none | `mix_body`, `finish_tail`, one call per digest | splitting body and tail | equality with the reference algorithm |
| Packed XXH3 batches (`bindings/xxhash/batch.rs`) | the list, captured items, parsed inputs, native results, the output | `xxh3_64_batch_into`, `xxh3_128_batch_into`; the list-returning batches | capacity and addresses go stale; output may be an input; threads change the list; hooks run between hashing and writing | every digest is of an input as it was before the output changed; nothing is written past the capacity or on failure |
| XXH3 core (`xxhash/batch.rs`, `prepared.rs`, `short_inputs.rs`, `long_inputs/`) | accumulators of up to four inputs | single and batch hashes, stripe schedules | runs of inputs that share a kernel; boundaries of stripes and blocks; formulas that read their input from both ends | each digest is that of its own input, of all of it |
| Buffer layer (`bindings/buffer.rs`, `objects.rs`) | Python buffers, critical sections, borrowed bytearrays | acquire, stabilize, detect overlap, release | when memory is pinned, when releasing runs Python code | an input is read where and while it is valid |
| Base64 into bytearrays (`bindings/base64/batch.rs`, the `*_into` functions of `encode.rs` and `decode.rs`) | prepared inputs, snapshots, destination ranges | `b64encode_batch_into`, `b64decode_batch_into`, `b64encode_into`, `b64decode_into` and their standard and URL-safe forms | destinations alias inputs; hooks and argument conversions run between taking an address and using it | a conversion is of its input as it was, never of what the call wrote itself |
| Base64 Python encoder (`bindings/base64/encode.rs`) | output object, line state | `b64encode`, `b64encode_into`, wrapping | reserved length, in-place expansion, two ways to do the same | same text either way, nothing outside the output |
| Base64 Python decoder (`bindings/base64/decode.rs`, `policy.rs`, `strict.rs`, `lenient.rs`) | output object, attempts | `b64decode` and variants | several attempts over one output; warnings run Python code | same result whichever attempt succeeds |
| Configured decoding (`bindings/base64/configured.rs`, `staging.rs`, `scan.rs`) | quad state, staging buffer | count pass, write pass | the two passes must agree; the staging buffer fills in the middle of a group | the bytes of the selected symbols, never more than were counted |
| Base64 core encoder and decoder (`base64/`) | streaming stores that are not yet visible | block kernels, streaming stores and their fence | kernels read and write more than they consume; a store may still be on its way when the call returns | equality with the scalar loops, footprints inside the slices, nothing pending at the end |
| CPU detection (`backend.rs`, `base64/backend.rs`) | a capability cache | detect, prefer | a kernel leaves its tail to kernels that need other features | a selected backend is supported, and so are those it calls |
| Argument parsing, method tables (`bindings/arguments.rs`, `schema.rs`, `runtime.rs`, `compatibility.rs`) | none of its own | conversion of arguments | - | - |

How they interact: a Python call parses its arguments into `BytesLike` values
(buffer layer), asks the runtime whether to detach, runs a core function on
the slices and writes the result into a new object or a caller's bytearray.
The buffer layer is where Python code can run in the middle; the batches are
where several buffers live at once. Core functions dispatch on a CPU
capability that is detected once.

`PROJECT.json` lists the components with their status and the hazards with the
line at which each one bites.

## 2. Modules

Each component has a module with its state and actions, an `MC` module that
gives its constants finite values, one or more configurations, and, where
something is proved, a module of proofs that nothing else extends. A definition
whose comment says *faulty* is a plausible mistake in the code, kept beside the
definition it stands for; nothing uses it. Replacing the right one by it makes
a property fail, which is how each property is shown to look at the code.

| Module | Models | State and actions |
|---|---|---|
| `BlockBuffer` | `murmur3/block_buffer.rs`, the fields of the three hashers | A hasher is the bytes mixed so far, the tail array with its fill level and the wrapping length. `AddLength`, `FillTail`, `MixRest` are the three steps of `update` in the order of the code; `OneShot` is the split of the one-shot functions. |
| `Murmur3Stream` | what the classes promise | A hasher is a message; an update appends at one instant, a digest is the one-shot hash. |
| `Murmur3Class` | `bindings/murmur3/incremental.rs` | Frames (threads, or callbacks inside a call) over shared hashers and a shared bytearray. PyO3's borrow flag is `writer` and `readers`. `BeginInput` .. `FinishInput` are the points of an update at which other frames can act; `RefuseUpdate` and `RefuseRead` are the borrow errors. |
| `PackedBatch` | `batch_hashes`, `packed_batch_into` in `bindings/xxhash/batch.rs`, the acquisition of inputs in `bindings/buffer.rs` and `objects.rs` | One call as a process, into a new list of digests or into a bytearray: capacity check, the copy of the list, parsing with callbacks, the direct, staged and detached paths, dropping the inputs with release hooks, publishing (`Publish`), and last dropping the vector of items (`DropItems`), which runs finalizers if the list no longer holds them. Everything else Python code can do is an action of its own that the interpreter lock or the critical sections permit or not. |
| `BufferRanges` | `ranges_overlap` and the search of `snapshot_alias` in `bindings/base64/batch.rs` | Operators on address ranges. |
| `Base64BatchInto` | `b64encode_batch_into`, `b64decode_batch_into` in `bindings/base64/batch.rs` and the functions that convert one input into a bytearray, with the parts of `buffer.rs`, `encode.rs` and `decode.rs` they call | Bytearrays are cells in blocks of memory, so that a resize moves them. Preparing, snapshotting, releasing, allocating, writing and warning are phases of the call, and so is the drop of what it holds at its end (`leaving`, `failing`); callbacks, hooks and finalizers act where the code runs Python. `kept` says whether the list of items still holds them; a text in `Reentrant` encodes to an exporter with a release hook, or to a view of one. `call.entry` tells batches from the three kinds of single calls, which acquire their input, then convert their arguments (`ConvertArguments`, Python code again), and which normalize, translate or copy the input in ways of their own. |
| `WrappedEncoding` | `wrap_encoded_ptr` in `bindings/base64/encode.rs`, `WrappedOutput` in `base64/encode/api.rs` | The output is a sequence of symbol positions; `MoveLine` is a turn of the in-place expansion, the other actions are the kernel, scalar and tail writers of the direct path. |
| `StagingWriter` | `bindings/base64/staging.rs` | The sink of a configured decode: the rest of the run being pushed, the staging buffer, the output and how far it was stored to. `DecodeDirect`, `Stage`, `FlushRest` are its operations. |
| `ConfiguredDecode` | `bindings/base64/configured.rs` over that sink, the capacity of `lenient.rs` | One decode: the tables of a policy, the route it takes, its scan by runs and single bytes, the checks of its end, and the second pass into a caller's buffer. |
| `Xxh3Short` | `xxhash/short_inputs.rs`, the readers of `primitives.rs` | Operators: which words of an input of up to 240 bytes each formula reads and which windows of the secret it mixes them with, both widths. |
| `Xxh3Batch` | `xxhash/batch.rs`, `prepared.rs`, `one_shot.rs`, `long_inputs/` | One call of any entry point on one kind of machine. `BeginGroup` is the choice of a kernel and the run of neighbours it takes; the accumulators between two scrambles are the bag of stripes added, one bag per chain, and each loop turn of the kernels is an action. Kernels with one chain (scalar, SSSE3, AVX-512, NEON) share the same actions: they differ only in how they compute one stripe. |
| `Base64Backend` | `base64/backend.rs` | The choice of a kernel from the CPU's features, shared by the two modules below. |
| `Base64Encode` | `base64/encode/`, the encode half of `base64/runtime_dispatch.rs`, the cache detection of `encode/cache.rs` | One call of any entry point on one kind of machine. `Encode` is a turn of a plain loop; `OpenGroups`, `StoreGroup`, `StreamGroup` and `Drain` are AVX2's helper for large outputs, whose streaming stores stay `pending` and reach memory in any order (`Drain`) until the fence; then AVX-512's masked tail and the scalar loop. A cell of the output holds the number of a symbol. |
| `Base64Decode` | `base64/decode/`, the decode half of `base64/runtime_dispatch.rs` | One call of any entry point on one kind of machine. `Loops` are the loops of the kernel chosen; `Group` is a turn of one (load all of it, check it, store it), `BadGroup` a turn that fails; `OpenChunk`, `ChunkGroup`, `BadChunk` are NEON's loop, which stores first; then AVX-512's masked vector, the scalar loops and the padded quad or tail. An alphabet is the standard or the URL-safe one, or both at once (`mixed`). A cell of the output holds the number of a decoded byte, or that it is untouched or junk. |
| `BinasciiRules` | CPython's `binascii.a2b_base64`, which `bindings/base64/` follows and falls back to | External: operators on a text as a whole. Which symbols a lenient decode keeps, when it and a strict one fail, which bytes symbols decode to. The two modules below are compared with them. |
| `LenientDecode` | `bindings/base64/lenient.rs` | One lenient decode into a destination or an allocation: the count that measures first, then the scan. `Turn` is a turn of its loop; `DecodePrefix`, `DecodeRun` and `DecodeQuad` are its ways to decode whole quads, `TakePad`, `Discard` and `TakeSymbol` a single byte. |
| `DecodeAttempts` | `PreparedDecoder` in `bindings/base64/decode.rs`, the routes of `policy.rs`, `strict.rs` | One decode as a sequence of attempts over one output: `Tries` are those of the route, `TrySucceeds`, `TryFails` (which may have written) and `TryTooSmall` what comes of one; then the configured or lenient decoder, `Fallback` to `binascii`, the warning (`Finish`) and the copy of a value that was decoded elsewhere because of it. A native decoder is its result here, as the other modules show it. |
| `*Proofs` | - | Lemmas and proofs only. |

`Murmur3Class` extends `BlockBuffer` and is shown to implement
`Murmur3Stream`; `Base64BatchInto` extends `BufferRanges`; `ConfiguredDecode`
extends `StagingWriter`; `LenientDecode` and `DecodeAttempts` extend
`BinasciiRules`; `Xxh3Batch` extends `Xxh3Short`; `Base64Encode` and
`Base64Decode` extend `Base64Backend`.

What is abstracted, everywhere: hash arithmetic (a hash is the sequence of
bytes mixed, a digest the sequence it is of, so that equal digests mean equal
inputs), symbol arithmetic (a decoded byte is the pair of symbols it has bits
of), the wording of exceptions, reference counts other than the one that keeps
an input alive.

Two observations on the code that the models had to decide:

- A memoryview of a whole bytearray that is at least
  `MEMORYVIEW_OWNER_THRESHOLD` long is replaced by the bytearray itself
  (`bindings/buffer.rs`). From then on nothing pins its memory, so that a later
  callback of the same batch may resize it. Both batch models have such views;
  the code reads the bytearray again afterwards, and the properties hold.
- A whole alphabet (`policy.alphabet`) comes only from `alphabet + altchars`
  with ignored characters, and only when an overridden concatenation returns
  something else than the standard letters and digits
  (`construct_decode_alphabet`, `parse_decode_alphabet`). The policies of
  `MCConfiguredDecode` with a whole alphabet all have ignored characters
  specified.

## 3. Runs

| Run | Instance | Shows |
|---|---|---|
| `murmur3_class` | two hashers, two frames, blocks of 3, lengths modulo 4, inputs of 1, 2 and 5 bytes, detaching from 2 | `DigestMatchesOneShot`; `IInv` (who may touch a hasher, where every byte is); `RefinesStream`: the concurrent class implements the sequential one |
| `packed_batch` | lists of up to two items out of every kind of input, into a list of digests or into an output that inputs alias, with and without the GIL, two foreign events | `DigestsOfInputs`, `OutputAsReturned`, `FailureLeavesOutput`, that no step writes past the output (`NeverOverruns`), and that no other thread sees a part of the digests (`NoPartialOutput`) |
| `base64_batch_into` | batches of two items and single inputs through every entry point, three bytearrays of two cells, views, exporters, texts (a `str` subclass that exports a bytearray, another that exports it through an object with a release hook), conversions of arguments that run Python code or not, a list that is cleared, two foreign events | `ConversionsOfInputs`, `NoLiveAlias`, `KnownHooksRunBeforeWrites`, `OutputsAsReturned`, `UnreachedUntouched`, `KeepsSizes` |
| `wrapped_encoding` | inputs of 0 .. 40 bytes, line widths 0 .. 21, padded and not | `WrapsText`, `WritesFit`, `SourceIntact`, `IInv`, `Terminates` |
| `configured_policies` | all combinations of 8 alphabets, 5 sets of ignored characters, padding, strictness and canonical policy on short texts; some on texts longer than the staging buffer of 4 | `ResultIsReference` (error exactly when the text is invalid, else the bytes of its symbols; a lenient decode may discard any byte, which is not what the documentation says, see below), `PassesAgree`, `WithinCapacity`, `IInv`, `Terminates` |
| `xxh3_batch` | machines with and without each SIMD extension; single inputs of 20 lengths around the boundaries of stripes and blocks, seeded or not; batches of up to five inputs out of short ones and two pairs with equally many stripes | `DigestsAreReference` (whatever kernel, chain and grouping, the digests of the specification in the order of the inputs), `KernelsStaySafe` (supported CPU, loads inside the input and the secret, prefetches inside), `ShortInputsCovered` (for every length up to 240, the formula reads every byte and nothing else), `IInv` |
| `base64_decode` | eight entry points, inputs of 0 .. 279 symbols around the groups of 16 to 128 symbols, bad symbols at the group boundaries, nine sets of CPU features; NEON checks its errors every 128 symbols | `ResultIsReference` (the same verdict and bytes whichever kernel runs), `FootprintsFit` (loads, stores, masks and CPU features, in calls that fail too), `ValidatedPrefixOnly` (what a failed attempt may leave to a fallback), `IInv` |
| `base64_encode` | five entry points, inputs of 0 .. 412 bytes around the boundaries of every loop, twelve machines that select every kernel or just miss one, with and without a cache small enough to stream, outputs at three alignments | `TextIsReference` (the text and nothing else is in memory at the end, no store is pending; too small a room is left alone), `FootprintsFit` (loads, stores, alignment of streaming stores and CPU features), `IInv` |
| `lenient_decode` | every text of up to five bytes out of symbols, padding and noise, and runs of up to 18 symbols around blocks of 8 with padding and noise in every gap; fast, custom and aliased alphabets; five rooms and an allocation; Python versions that stop at padding and that continue | `ResultIsReference` (the verdict, bytes and "too small" of CPython's non-strict rules), `UndersizedUntouched`, `IInv` |
| `decode_attempts` | 41 texts, all policies, four kinds of alternative characters, four generations of Python, new bytes or a bytearray of four sizes, warnings raised or not | `OutcomeIsReference` (value, error and warning do not depend on which attempt succeeded), `OutputAsPromised` (only the value is written, nothing at all when a room is too small or a warning is raised) |
| `decode_attempts_unpadded` | lenient decodes with `padded=False` on versions of Python whose `binascii` has no such argument | a violation of `SuffixUntouched`, see below |
| `configured_neon` | strict unpadded decodes through a kernel that stores whole groups before it checks them | a violation of `WithinCapacity`, see below |

**Bounds.** They are named constants, each chosen so that the cases at its
boundary occur. A block of 3 bytes lets an update leave the tail empty, partly
filled and exactly filled and carry a block besides, and a modulus of 4 lets
the length wrap. Two items of a batch are enough for "an earlier item against
a later one", which every hazard of the batches is about; two foreign events
let a callback undo or build on what another did. Texts of 56 symbols in lines
up to 20 put the 16-symbol blocks of the kernels on every position of a line.
A staging buffer of 4 symbols fills in the middle of a run, at its end, and
several times within one. For XXH3 the numbers are those of the code; 241 and
256 bytes have equally many stripes, and so have 2049 and 2112, so that batches
contain groups of one to four and inputs that just do not join, and 2049 bytes
are the first length at which the batch kernel prefetches. For the core
decoder they are those of the code too, apart from NEON's 4096 symbols between
two looks at its errors, which are 128 here so that an input has several
chunks and a rest. The lenient scanner has blocks of 8 symbols instead of 16 and
thresholds of 4 and 6 bytes, so that short texts lie on both sides of each; the
attempts inspect two bytes at each end of texts from 8 bytes on, where the code
inspects 64. Bounds that are not in the code (`MaxMessage`,
`MaxEvents`, `MaxInput`, `Slack`, `Blocks`, `BlockSize`) say so where they are
declared.

**Deadlock** is checked in every run. A finished call stutters explicitly, so
that a call that got stuck would be reported.

**Fairness.** Two specifications have a liveness property, `WrappedEncoding`
and `ConfiguredDecode`. Both model one function of one thread, which keeps
executing: weak fairness of its next step is what a running program gives. The
modules of the batches and the classes state no fairness: whether foreign
Python code ever returns is not the library's to promise.

**Disagreements found.** There are four. `configured_neon`: a comment at
`bindings/base64/lenient.rs:207` says of the reserved capacity that it "bounds
even partial writes on malformed input". It leaves out up to two trailing
padding bytes. A strict unpadded decode hands these bytes to the decoding
kernel with the run they end, and the decode fails. The kernels for x86 check a
group before they store it, so that nothing is stored for the padding
(`configured_policies`, where `StoresBeforeCheck` is `FALSE`). The NEON kernel
(`base64/decode/aarch64.rs:35-48`) stores every group and looks at the errors
afterwards: of such an input it stores up to two bytes more than were reserved
before the error is returned. The model shows this for a group of 4 symbols and
a staging buffer of 8; it says nothing about what an allocator places there,
and was not reproduced on hardware.

`decode_attempts_unpadded`: `docs/base64.md:61` promises of the `_into`
functions that "Bytes after the returned length are left unchanged". On Python
versions before 3.15 `binascii` does not know `padded`, so that the fallback of
a lenient decode (`bindings/base64/decode.rs:319`) decodes as if padding were
expected, and on those that also stop at padding (before 3.13.13) it can
succeed where the native decoder failed: of `AA==AAA` with `padded=False` the
native decoder writes three bytes, then fails on the fifth symbol; the
fallback stops at `==` and returns one byte. The other two bytes have changed.
`decode_attempts` leaves exactly these calls out (`Ignored`) where the text
contains a padding character; in every other instance the promise holds.

A lenient decode with characters to ignore: `docs/base64.md:37` says that with
`validate=False` and `ignorechars` "hashcodecs then limits discarded bytes to
`ignorechars`", and the stubs (`hashcodecs/_hashcodecs.pyi:164`, `:282`) call
these "Bytes permitted outside the alphabet in lenient mode". The lenient scan
(`bindings/base64/configured.rs:782`) discards every byte without a value,
ignored or not, as CPython's non-strict decoder does: a text with `-` and
`ignorechars=b"!"` is decoded. The reference of `ConfiguredDecode`
(`LenientlyValid`, in `ResultIsReference` of `configured_policies`) and that of
`DecodeAttempts` (`ConfiguredFails`, in `OutcomeIsReference`) take the side of
the code: these properties say that routes, passes and attempts agree on an
outcome, not that the outcome is what the documentation promises.

The release of what a text encodes to: a comment at `bindings/buffer.rs:337`
says that "Reentrant release hooks must run before a reusable destination is
written." `acquire_buffer` (`bindings/buffer.rs:938`) takes the release of a
memoryview to run no code, because the caller has the view. When a decode
encodes a `str` subclass itself and `encode` returns a memoryview of a Python
exporter, nobody else need have that view. The batch functions copy and release
such inputs first (`snapshot_before_output_write` with
`release_borrowed_views`); `standard_b64decode_into` and `b64decode_into` do
not (`base64/decode.rs:872`, `:802` under `bindings/`), so that the view is
dropped, and the hook runs, after the destination was written. The model has
this behaviour (`Reentrant`, and `PrepareExport`, which lets such an export
count as harmless): with it `KnownHooksRunBeforeWrites` holds, the part of the
comment that is true (every exporter, and texts in a batch), and so do
`NoLiveAlias`, `KeepsSizes` and `ConversionsOfInputs`. That no view of a
`Reentrant` text is held across the write does not hold.

**At the end of a batch** the vector of items is dropped after the last write
(`bindings/xxhash/batch.rs:562`, `bindings/base64/batch.rs:364` and `:472`).
If a callback or another thread has cleared the list, these are the last
references, and finalizers may change an output before the caller sees it.
`OutputAsReturned` and `OutputsAsReturned` therefore promise the contents of an
output up to that drop, and at the return of a call only when the list still
held the items; `NeverOverruns`, `KeepsSizes` and the properties about
conversions do not depend on it.

## 4. Proofs

All theorems are checked by TLAPS, for every value of the constants that
satisfies the named assumptions. An assumption only says what the code's types
and constants say: a block has at least one byte, a threshold is a number, the
capacity of the staging buffer is a positive multiple of four, the values of an
alphabet are values of the standard alphabet, a bytes object is not a
bytearray, what an object contains is a sequence, a call for one input has one, alternative characters are none or a pair, a strict attempt with alternative characters ignores nothing and has no alphabet of its own (`PreparedPolicy::strict_custom`), padding is counted only in inputs of whole quads (`decode_layout`).

| Theorem | From | Argument |
|---|---|---|
| `Murmur3ClassProofs!UpdateHolds`, `HoldsDigest` | `BlockBufferAssumption` | `Holds(s, m)`: the words hold the whole blocks of `m`, the tail the rest, the length is that of `m` modulo its width. One update preserves it, whether it stops in the tail or carries whole blocks, and the digest of such a state is the one-shot hash. |
| `Murmur3ClassProofs!InvariantHolds`, `TypeCorrect`, `DigestsAreOneShot` | `Murmur3ClassAssumption` and the above | "A hasher without a writer holds its message" is not inductive, because an update is several steps. `IInv` adds who owns a hasher while a call is in progress (`Ownership`) and how far its length and bytes run ahead of its message at each point of the update (`FrameAccounted`). One step of the proof per action. |
| `Murmur3ClassProofs!ClassImplementsStream` | the same | Each step of the class is one operation of `Murmur3Stream` or none: an update happens when it appends to the message (`HashRest`), a constructor's when it publishes its hasher (`FinishInput`), a digest or a copy when it returns. The strengthening `Publication` says that what is being hashed is a possible input, that a hasher under construction holds exactly its input, and that only published hashers are read. |
| `PackedBatchProofs!InvariantHolds`, `DigestsAreOfInputs`, `OutputIsAsReturned`, `FailureKeepsOutput`, `OutputNeverPartial`, `CallNeverOverruns` | `PackedBatchAssumption`: the kinds of objects are disjoint, contents are sequences | `IInv` states per parsed input why it still reads what it did (`InputsInv`: the call owns it, or a copy of it, or an export pins it), who may run in each phase (`QuietInv`), that the list is as it was copied while a reference to it is held, that digests computed are those of the inputs (`DigestsInv`), and what the output holds (`OutputInv`), until the drop of items that have left the list runs other code. Foreign steps are the hard half: each is shown to leave alone what the phase of the call relies on. |
| `Base64BatchIntoProofs!SearchFindsOverlap` | disjoint, sorted ranges | The one range that `snapshot_alias` compares decides for all of them: the ranges that start before an address are a prefix of the sorted ones (a minimum by well-foundedness), and any range that overlaps makes the last of the prefix overlap. |
| `Base64BatchIntoProofs!InvariantHolds`, `AliasesCopied`, `ConversionsHold`, `HooksHold`, `OutputsHold`, `UnreachedHold`, `SizesKept` | `Base64BatchAssumption`: the kinds of objects are disjoint, contents are sequences, a call for one input has one | `IInv` says of each prepared input why it reads what its item contained since it was acquired: it is owned, it is the memory of an array in place whose later contents are in `seen`, or an export pins it (`PreparedInv`, `SeenInv`); that inputs are prepared in the order of the items and which are left to prepare (`OrderInv`); which copies are staged and which releases are over at each point (`ReleasedInv`, with the views that a single decode of a text may still hold); and what is written, until the end of a call runs other code (`WrittenInv`, `ProgressInv`). `AliasInv`, that nothing read in place lies in a destination once the second stage of copies is over, uses `SearchFindsOverlap`, that finitely many ranges can be sorted, and that blocks of memory lie apart. The Python code that runs between two steps may move or resize any bytearray that is not exported (`Disturbed`); each part is shown to survive that for the exports held at that point. |
| `WrappedEncodingProofs!InvariantHolds`, `TextIsWrapped`, `WritesStayInside`, `SourceStaysIntact` | `WrappedEncodingAssumption` | `IInv` says of the expansion in place that the symbols not moved are where they were and the moved ones where they belong, and of the line writer that column, source and destination agree. The lemmas about quotients by a width that is not a number come first. |
| `ConfiguredDecodeProofs!InvariantHolds`, `OutputOfPushed` | `StagingWriterAssumption`, `ConfiguredDecodeAssumption` | `Accounted`: each pushed symbol is decoded, staged or in the rest of its run, and the output is the decoding of the first. Only whole quads may be decoded before the end (`DecodedCount % 4 = 0`), because the decoding of a concatenation is the concatenation of decodings only then (`DecodedConcat`). At the end nothing is left, so the output is the decoding of everything pushed. |
| `ConfiguredDecodeProofs!PassesAgreeAlways` | the same | Two passes over one input are compared without running them side by side: `ScanInv` says that what a pass has counted, its place in the quad and its padding are functions of how far it has scanned (`Count`, `Pads`), and that a scan which ends without error has gone to a place (`IsEnd`) of which there is only one (`EndIsUnique`). So the length the first pass measured (`CapacityInv`) is the one the second writes. A strict attempt measures by the layout of the text instead; that this is the same number follows from `StrictIntoInv`: of a text it accepts, the symbols and the padding characters behind them are all there is. `PassInv` says that only a pass with checks can fail. |
| `ConfiguredDecodeProofs!StaysWithinCapacity` | the same, and `~StoresBeforeCheck` | The length reserved for one pass is that of the text without its trailing padding, but padding characters can be handed to the kernel with the run before them. `OriginInv`: a pushed symbol that decodes comes from a place at least as far into the input as its number, and not from padding, so that a kernel that stops at the first symbol it cannot decode has stored no more than was reserved (`ReachInv`). The hypothesis is needed: with a kernel that stores first, the run `configured_neon` violates the property. |
| `Base64EncodeProofs!InvariantHolds`, `FootprintsHold`, `TextHolds` | `Base64EncodeAssumption` | A cell before `destination` is written, unless a streaming store to it is pending; pending stores lie before `destination` and do not overlap, so that draining one disturbs neither another nor what a loop stores next (`StoresInv`, `TextInv`). `LoopInv` counts groups: what a loop that is entered still has to do fits in what is left of the input, from which the footprints follow. At the fence nothing is pending, so all of the text is in memory. The kernel that runs is one the CPU supports because the last entry of the preference needs nothing (`SelectedIsSupported`). |
| `Base64DecodeProofs!InvariantHolds`, `ResultHolds`, `FootprintsHold`, `ValidatedHolds` | `Base64DecodeAssumption` | The cells before `destination` are the decoding of the symbols before `source`, and none behind it is written but the padding of a padded store. That a group of overlapping stores leaves this is `GroupCells`: of the stores that cover a cell the last one counts, and it is the one the cell belongs to (`LastCovering`). `KernelInv` adds that offsets are multiples of the blocks and where loops may stop, `PrefixInv` that the loops of `decode_prefix` leave at most one block before the first bad symbol or the end, from which its result follows. Footprints and the promise to fallbacks hold while the call runs by that invariant, and the steps that end it are looked at one by one. |
| `Xxh3BatchProofs!InvariantHolds`, `DigestsHold`, `KernelsHold`, `ShortInputsHold` | `Xxh3BatchAssumption` | Kernels spread the stripes of an input over one to four chains and add them in orders of their own, so the invariant speaks of their sum: the chains of every member of a group hold together, counted as bags, the stripes that lie before the place of the loops (`Accumulated`). A step adds one stripe or a group of four to both sides (`StripeStep`, `GroupStep`, `RestStep`). Members of a group have equally many stripes (`GroupInv`, from how the code joins neighbours, `RunJoins`), hence the same schedule (`SameSchedule`), though not the same length: only the last stripe, which is read from the end, differs. At the end of the loops the sum is that of the specification; that every load is inside follows from the sum as well, because each loaded stripe is counted in it (`InSum`). The formulas of short inputs are compared with the specification's by length: their pairs of words meet in the middle (`PairsMeet`) and their rounds overlap. |

Only model-checked: `LenientDecode`; `DecodeAttempts`; `ResultIsReference` of
the configured decode (that the symbols its scan pushes are those of the
reference decoding, which selects them by a library operator over all of the
text, and that it fails exactly when the text is invalid).
Liveness (`Terminates`) is out of the prover's reach, and so is induction
over data. For that reason no module that is proved about declares a recursive
operator.

## 5. Not modelled, and the plan

Not modelled, for good:

- the arithmetic of hashes and of SIMD lanes, the Murmur block kernels
  (`murmur3/*/`) and the byte-scanning kernels (`bindings/base64/scan*.rs`,
  operators on sequences here): straight-line functions that the reference tests
  compare with other implementations;
- the conversion of the values of Python arguments, the method tables and the
  generated tables (the *order* of conversions, where it matters, is modelled in
  `Base64BatchInto`);
- functions that return new objects, beyond their outcome in `DecodeAttempts`
  and `PackedBatch`: they write to no memory Python code can reach;
- failures to allocate, build scripts, benchmarks.

Planned, in this order:

1. **Proofs**: that the scan of a configured decode pushes the symbols of the
   reference, and fails when it does (`ResultIsReference`); `IInv` of
   `LenientDecode`, whose reference decoding selects symbols by a recursive
   library operator the provers know nothing of; the outcome of
   `DecodeAttempts`.
2. **Free-threaded builds** of `Base64BatchInto`, and the copies of inputs a
   detached decode makes there.
