---------------------------- MODULE Murmur3Class ---------------------------
(***************************************************************************)
(* The incremental MurmurHash3 classes of the Python module                *)
(* (src/src/bindings/murmur3/incremental.rs) under concurrent callers.     *)
(*                                                                         *)
(* A frame is a call in progress: of one thread, or of a callback that     *)
(* runs inside the call of another frame. PyO3 lends `&mut self` to one    *)
(* frame or `&self` to several, and refuses any other call. `update` keeps *)
(* its exclusive borrow while an exporter's callbacks run and while it is  *)
(* detached from the interpreter, so other frames act in between.          *)
(*                                                                         *)
(* On a build with the GIL an attached frame excludes every other one      *)
(* until it detaches or calls Python. On a free-threaded build frames only *)
(* exclude each other through borrows and the critical section of the      *)
(* bytearray they read.                                                    *)
(***************************************************************************)
EXTENDS BlockBuffer

CONSTANTS
  Hashers,      (* hasher objects                                          *)
  Frames,       (* calls in progress                                       *)
  NoFrame,
  FreeThreaded, (* Py_GIL_DISABLED                                         *)
  Detach,       (* MURMUR3_DETACH_THRESHOLD                                *)
  Payloads,     (* the contents of an immutable or exported input          *)
  Contents,     (* the contents the shared bytearray may have              *)
  MaxMessage    (* bound: the longest message of a hasher                  *)

ASSUME Murmur3ClassAssumption ==
  /\ NoFrame \notin Frames
  /\ FreeThreaded \in BOOLEAN
  /\ Detach \in Nat
  /\ Payloads \subseteq Seq(Byte)
  /\ Contents \subseteq Seq(Byte)
  /\ MaxMessage \in Nat

VARIABLES
  state,   (* the Rust state of each hasher                                *)
  live,    (* the hashers whose constructor has returned                   *)
  writer,  (* the frame that holds &mut self (or still constructs it)      *)
  readers, (* the frames that hold &self                                   *)
  cell,    (* the contents of a bytearray that all frames share            *)
  pc,      (* where each frame is                                          *)
  call,    (* the arguments of its call                                    *)
  message, (* history: the input each hasher has been given                *)
  result   (* history: what the last call of each frame returned or raised *)

vars == <<state, live, writer, readers, cell, pc, call, message, result>>

Stream == INSTANCE Murmur3Stream WITH
  Inputs <- Payloads \union Contents,
  message <- [h \in Hashers |-> IF h \in live THEN message[h] ELSE <<>>]

(* bytes_like distinguishes exact bytes (immutable, borrowed), an exact    *)
(* bytearray (read in place) and any other exporter (its callback runs).   *)
InputKinds == {"bytes", "bytearray", "exporter"}
NoCall == [hasher |-> NoFrame]

Data(t) == IF call[t].kind = "bytearray" THEN cell ELSE call[t].data

(* with_input: only immutable inputs are hashed detached.                  *)
DetachesAny(t) == Len(Data(t)) >= Detach                                  (* faulty *)
Detaches(t) == call[t].kind = "bytes" /\ Len(Data(t)) >= Detach

Hashing(t) == pc[t] \in {"fill", "rest"}

(* The frames that hold the GIL between two steps, and those inside the    *)
(* critical section of the shared bytearray (only a free-threaded build    *)
(* has one, and a thread that detaches inside it is suspended from it).    *)
Attached(t) ==
  \/ pc[t] \in {"converted", "digesting", "copying"}
  \/ Hashing(t) /\ ~Detaches(t)
  \/ pc[t] = "hashed" /\ ~Detaches(t) /\ call[t].kind # "exporter"
InSection(t) == Hashing(t) /\ call[t].kind = "bytearray" /\ ~Detaches(t)

CanAttach(t) == FreeThreaded \/ \A u \in Frames \ {t} : ~Attached(u)
CanEnterSection(t) == FreeThreaded => \A u \in Frames \ {t} : ~InSection(u)

(* PyO3's borrow flag: try_borrow_mut and try_borrow.                      *)
Unborrowed(h) == writer[h] = NoFrame /\ readers[h] = {}
CanBorrowAlways(h) == h \in Hashers                                      (* faulty *)
CanBorrow(h) == writer[h] = NoFrame
----------------------------------------------------------------------------
Init ==
  /\ state = [h \in Hashers |-> New]
  /\ live = {}
  /\ writer = [h \in Hashers |-> NoFrame]
  /\ readers = [h \in Hashers |-> {}]
  /\ cell \in Contents
  /\ pc = [t \in Frames |-> "idle"]
  /\ call = [t \in Frames |-> NoCall]
  /\ message = [h \in Hashers |-> <<>>]
  /\ result = [t \in Frames |-> [kind |-> "none"]]

Idle(t) == pc[t] = "idle" /\ CanAttach(t)

Goto(t, label) == pc' = [pc EXCEPT ![t] = label]

(* A call begins: the frame has returned nothing yet.                      *)
Begin(t, arguments, label) ==
  /\ call' = [call EXCEPT ![t] = arguments]
  /\ result' = [result EXCEPT ![t] = [kind |-> "none"]]
  /\ Goto(t, label)

Return(t, what) ==
  /\ Goto(t, "idle")
  /\ call' = [call EXCEPT ![t] = NoCall]
  /\ result' = what

(* try_new without data publishes an empty hasher at once.                 *)
CreateEmpty(t, h) ==
  /\ Idle(t) /\ h \notin live /\ writer[h] = NoFrame
  /\ live' = live \union {h}
  /\ state' = [state EXCEPT ![h] = New]
  /\ UNCHANGED <<writer, readers, cell, pc, call, message, result>>

(* try_new with data and update run the same code on a state that only     *)
(* this frame can reach: a private one, or one borrowed as &mut self.      *)
BeginInput(t, h, kind, data) ==
  /\ Idle(t)
  /\ Unborrowed(h)
  /\ Len(message[h]) < MaxMessage
  /\ writer' = [writer EXCEPT ![h] = t]
  /\ Begin(t, [hasher |-> h, kind |-> kind, data |-> data],
              IF kind = "exporter" THEN "exporting" ELSE "converted")
  /\ UNCHANGED <<state, live, readers, cell, message>>

(* A borrow that is not available raises instead of waiting.               *)
RefuseUpdate(t, h) ==
  /\ Idle(t) /\ h \in live
  /\ ~Unborrowed(h)
  /\ result' = [result EXCEPT ![t] = [kind |-> "Already borrowed"]]
  /\ UNCHANGED <<state, live, writer, readers, cell, pc, call, message>>

RefuseRead(t, h) ==
  /\ Idle(t) /\ h \in live
  /\ ~CanBorrow(h)
  /\ result' = [result EXCEPT ![t] = [kind |-> "Already borrowed"]]
  /\ UNCHANGED <<state, live, writer, readers, cell, pc, call, message>>

(* The exporter's callback ends, and bytes_like returns its data or raises.*)
ExportReturns(t) ==
  /\ pc[t] = "exporting" /\ CanAttach(t)
  /\ Goto(t, "converted")
  /\ UNCHANGED <<state, live, writer, readers, cell, call, message, result>>

ExportRaises(t) ==
  /\ pc[t] = "exporting" /\ CanAttach(t)
  /\ Return(t, [result EXCEPT ![t] = [kind |-> "TypeError"]])
  /\ writer' = [writer EXCEPT ![call[t].hasher] = NoFrame]
  /\ UNCHANGED <<state, live, readers, cell, message>>

(* with_input enters the operation: detached, or inside the bytearray's    *)
(* critical section. `update` adds the length first.                       *)
HashLength(t) ==
  LET h == call[t].hasher
  IN  /\ pc[t] = "converted" /\ CanAttach(t)
      /\ call[t].kind = "bytearray" => CanEnterSection(t)
      /\ state' = [state EXCEPT ![h] = AddLength(@, Data(t))]
      /\ Goto(t, "fill")
      /\ UNCHANGED <<live, writer, readers, cell, call, message, result>>

(* The first half of consume fills the tail and mixes it when complete.    *)
HashTail(t) ==
  LET h == call[t].hasher
  IN  /\ pc[t] = "fill"
      /\ state' = [state EXCEPT ![h] = FillTail(@, Data(t))]
      /\ call' = [call EXCEPT ![t] = [hasher |-> h, kind |-> @.kind, data |-> @.data,
                                      copied |-> Copied(state[h], Data(t))]]
      /\ Goto(t, "rest")
      /\ UNCHANGED <<live, writer, readers, cell, message, result>>

(* The second half mixes the whole blocks left over and keeps the rest.    *)
HashRest(t) ==
  LET h == call[t].hasher
  IN  /\ pc[t] = "rest"
      /\ state' = [state EXCEPT ![h] = MixRest(@, Drop(Data(t), call[t].copied))]
      /\ message' = [message EXCEPT ![h] = @ \o Data(t)]
      /\ Goto(t, "hashed")
      /\ UNCHANGED <<live, writer, readers, cell, call, result>>

(* Reattached, the frame drops its input (an exporter's release hook has   *)
(* run by now), publishes a new hasher and gives its borrow back.          *)
FinishInput(t) ==
  LET h == call[t].hasher
  IN  /\ pc[t] = "hashed" /\ CanAttach(t)
      /\ live' = live \union {h}
      /\ writer' = [writer EXCEPT ![h] = NoFrame]
      /\ Return(t, result)
      /\ UNCHANGED <<state, readers, cell, message>>

(* digest and hexdigest read through &self, and copy clones through &self  *)
(* into an object no other frame can reach until it returns.               *)
BeginDigest(t, h) ==
  /\ Idle(t) /\ h \in live
  /\ CanBorrow(h)
  /\ readers' = [readers EXCEPT ![h] = @ \union {t}]
  /\ Begin(t, [hasher |-> h], "digesting")
  /\ UNCHANGED <<state, live, writer, cell, message>>

BeginCopy(t, h, new) ==
  /\ Idle(t) /\ h \in live
  /\ CanBorrow(h)
  /\ new \notin live /\ Unborrowed(new)
  /\ readers' = [readers EXCEPT ![h] = @ \union {t}]
  /\ writer' = [writer EXCEPT ![new] = t]
  /\ Begin(t, [hasher |-> h, new |-> new], "copying")
  /\ UNCHANGED <<state, live, cell, message>>

FinishDigest(t) ==
  LET h == call[t].hasher
  IN  /\ pc[t] = "digesting"
      /\ readers' = [readers EXCEPT ![h] = @ \ {t}]
      /\ Return(t, [result EXCEPT ![t] = [kind |-> "digest", digest |-> DigestOf(state[h])]])
      /\ UNCHANGED <<state, live, writer, cell, message>>

FinishCopy(t) ==
  LET h == call[t].hasher
      new == call[t].new
  IN  /\ pc[t] = "copying"
      /\ state' = [state EXCEPT ![new] = state[h]]
      /\ message' = [message EXCEPT ![new] = message[h]]
      /\ live' = live \union {new}
      /\ readers' = [readers EXCEPT ![h] = @ \ {t}]
      /\ writer' = [writer EXCEPT ![new] = NoFrame]
      /\ Return(t, result)
      /\ UNCHANGED cell

(* Other Python code assigns to the shared bytearray. It needs the GIL, or *)
(* the critical section of the bytearray.                                  *)
MutateCell(content) ==
  /\ IF FreeThreaded THEN \A t \in Frames : ~InSection(t)
                     ELSE \A t \in Frames : ~Attached(t)
  /\ cell' = content
  /\ UNCHANGED <<state, live, writer, readers, pc, call, message, result>>

Next ==
  \/ \E t \in Frames, h \in Hashers :
       \/ CreateEmpty(t, h)
       \/ \E kind \in {"bytes", "exporter"}, data \in Payloads : BeginInput(t, h, kind, data)
       \/ BeginInput(t, h, "bytearray", <<>>)
       \/ RefuseUpdate(t, h)
       \/ RefuseRead(t, h)
       \/ BeginDigest(t, h)
       \/ \E new \in Hashers : BeginCopy(t, h, new)
  \/ \E t \in Frames :
       \/ ExportReturns(t)
       \/ ExportRaises(t)
       \/ HashLength(t)
       \/ HashTail(t)
       \/ HashRest(t)
       \/ FinishInput(t)
       \/ FinishDigest(t)
       \/ FinishCopy(t)
  \/ \E content \in Contents : MutateCell(content)

Spec == Init /\ [][Next]_vars
----------------------------------------------------------------------------
(* Type invariant.                                                         *)
TypeOK ==
  /\ state \in [Hashers -> HasherState]
  /\ live \subseteq Hashers
  /\ writer \in [Hashers -> Frames \union {NoFrame}]
  /\ readers \in [Hashers -> SUBSET Frames]
  /\ cell \in Contents
  /\ pc \in [Frames -> {"idle", "exporting", "converted", "fill", "rest", "hashed",
                        "digesting", "copying"}]
  /\ DOMAIN call = Frames /\ DOMAIN result = Frames
  /\ message \in [Hashers -> Seq(Byte)]

(* Whatever sequence of updates, copies, refusals and failed conversions   *)
(* led here, a hasher that no frame has borrowed exclusively digests to    *)
(* the one-shot hash of everything it was given: no byte lost at a block   *)
(* boundary, none left over in the tail array, none read half-mutated from *)
(* a shared bytearray, and the length wrapped the way one call wraps it.   *)
DigestMatchesOneShot ==
  \A h \in live : writer[h] = NoFrame => DigestOf(state[h]) = OneShot(message[h])

(* What each frame is entitled to while its call is in progress. A frame   *)
(* that feeds a hasher, or clones into one, is its only writer; a frame    *)
(* that reads a hasher is one of its readers, and no hasher has both.      *)
Feeding(t) == pc[t] \in {"exporting", "converted", "fill", "rest", "hashed"}

CallsTyped ==
  \A t \in Frames :
    /\ pc[t] # "idle" => call[t].hasher \in Hashers
    /\ Feeding(t) => call[t].kind \in InputKinds /\ call[t].data \in Seq(Byte)
    /\ pc[t] = "rest" => call[t].copied \in 0..Len(Data(t))
    /\ pc[t] = "copying" => call[t].new \in Hashers

Ownership ==
  /\ \A t \in Frames :
       /\ Feeding(t) => writer[call[t].hasher] = t
       /\ pc[t] \in {"digesting", "copying"} => t \in readers[call[t].hasher]
       /\ pc[t] = "copying" => writer[call[t].new] = t
  /\ \A h \in Hashers : writer[h] # NoFrame => readers[h] = {}

(* Where every byte of a hasher is between any two steps. Without a writer *)
(* the hasher holds its message. During an update its length runs ahead of *)
(* its bytes, then its bytes run ahead of its message by what the tail     *)
(* took. A constructor that may still raise has left nothing behind.       *)
LengthIsAhead(t) ==
  LET h == call[t].hasher
  IN  state[h].length = (Len(message[h]) + Len(Data(t))) % LengthModulus

HasherAccounted(h) ==
  writer[h] = NoFrame => /\ Holds(state[h], message[h])
                         /\ h \notin live => message[h] = <<>>

FrameAccounted(t) ==
  LET h == call[t].hasher
  IN  /\ pc[t] \in {"exporting", "converted", "hashed"} => Holds(state[h], message[h])
      /\ pc[t] = "exporting" /\ h \notin live => message[h] = <<>>
      /\ pc[t] = "fill" => HoldsBytes(state[h], message[h]) /\ LengthIsAhead(t)
      /\ pc[t] = "rest" =>
           /\ HoldsBytes(state[h], message[h] \o Take(Data(t), call[t].copied))
           /\ state[h].len # 0 => call[t].copied = Len(Data(t))
           /\ LengthIsAhead(t)

Accounted ==
  /\ \A h \in Hashers : HasherAccounted(h)
  /\ \A t \in Frames : FrameAccounted(t)

(* The inductive invariant: who may touch a hasher and what it then holds. *)
(* It rules out what one update leaves for the next one to trip over: an   *)
(* unflushed full tail, a byte taken twice, a length counted for bytes     *)
(* that changed in between, a second writer in the middle of a consume.    *)
IInv == TypeOK /\ CallsTyped /\ Ownership /\ Accounted

(* The concurrent class implements the sequential one: every digest a call *)
(* returned is the one-shot hash of the message at one instant of the call,*)
(* and an update appears to happen at once or, when it raises, not at all. *)
RefinesStream == Stream!Spec
=============================================================================
