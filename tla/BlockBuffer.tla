---------------------------- MODULE BlockBuffer ----------------------------
(***************************************************************************)
(* The data path of the incremental MurmurHash3 hashers: FullBlocks and    *)
(* BlockBuffer (src/src/murmur3/block_buffer.rs) and the three fields of a *)
(* hasher, `hash`, `tail` and `length`.                                    *)
(*                                                                         *)
(* mix_body folds whole blocks into the hash words from left to right, so  *)
(* the words are a function of the seed and of the bytes mixed so far.     *)
(* `hash` is that sequence of bytes. The digest is then a function of the  *)
(* triple DigestOf returns, and two hashers agree when their triples do.   *)
(*                                                                         *)
(* In all modules a definition marked faulty is a plausible mistake in the *)
(* code, kept to show that the properties would notice it. Nothing uses it.*)
(***************************************************************************)
EXTENDS Integers, Sequences

CONSTANTS
  Byte,         (* the values of one input byte                            *)
  Zero,         (* the byte a fresh tail is filled with                    *)
  BLOCK_SIZE,   (* 4 for x86_32, 16 for both 128-bit hashers               *)
  LengthModulus (* 2^32 for the x86 hashers, 2^64 for x64_128              *)

ASSUME BlockBufferAssumption ==
  /\ Zero \in Byte
  /\ BLOCK_SIZE \in Nat \ {0}
  /\ LengthModulus \in Nat \ {0}

Take(s, n) == SubSeq(s, 1, n)
Drop(s, n) == SubSeq(s, n + 1, Len(s))

(* A hasher: the bytes mixed so far, the tail array with its fill level,   *)
(* and the wrapping length. Bytes of the tail above `len` are leftovers.   *)
HasherState ==
  [hash : Seq(Byte), bytes : [1..BLOCK_SIZE -> Byte], len : 0..BLOCK_SIZE,
   length : 0..(LengthModulus - 1)]

New == [hash |-> <<>>, bytes |-> [i \in 1..BLOCK_SIZE |-> Zero], len |-> 0, length |-> 0]

(* FullBlocks::split: the largest whole number of blocks in n bytes.       *)
BodyLen(n) == (n \div BLOCK_SIZE) * BLOCK_SIZE

(* copy_from_slice of `input` into the tail array from position `at`.      *)
Overwrite(bytes, at, input) ==
  [i \in 1..BLOCK_SIZE |-> IF i \in (at + 1)..(at + Len(input)) THEN input[i - at] ELSE bytes[i]]

Remaining(s) == [i \in 1..s.len |-> s.bytes[i]]

(* The three steps of `update`, in the order of the code. AddLength is the *)
(* wrapping addition of the input length.                                  *)
AddLength(s, input) == [s EXCEPT !.length = (@ + Len(input)) % LengthModulus]

(* How much of the input the first half of consume moves into the tail.    *)
Copied(s, input) ==
  IF s.len = 0 THEN 0
  ELSE IF BLOCK_SIZE - s.len <= Len(input) THEN BLOCK_SIZE - s.len ELSE Len(input)

FillTailUnflushed(s, input) ==                                            (* faulty *)
  LET copied == Copied(s, input)
  IN  IF s.len = 0 THEN s
      ELSE [s EXCEPT !.bytes = Overwrite(s.bytes, s.len, Take(input, copied)),
                     !.len = s.len + copied]

FillTail(s, input) ==
  LET copied == Copied(s, input)
      filled == [s EXCEPT !.bytes = Overwrite(s.bytes, s.len, Take(input, copied)),
                          !.len = s.len + copied]
  IN  IF s.len = 0 THEN s
      ELSE IF filled.len = BLOCK_SIZE
           THEN [filled EXCEPT !.hash = s.hash \o filled.bytes, !.len = 0]
           ELSE filled

(* The second half: `rest` is the input the first half left over. A tail   *)
(* that is still partly filled took the early return.                      *)
MixRest(s, rest) ==
  LET body == BodyLen(Len(rest))
      kept == Drop(rest, body)
  IN  IF s.len # 0 THEN s
      ELSE [s EXCEPT !.hash = s.hash \o Take(rest, body),
                     !.bytes = Overwrite(s.bytes, 0, kept), !.len = Len(kept)]

Consume(s, input) == MixRest(FillTail(s, input), Drop(input, Copied(s, input)))

Update(s, input) == Consume(AddLength(s, input), input)

(* `digest`: finish_tail of the tail, the words and the length.            *)
DigestOf(s) == [hash |-> s.hash, tail |-> Remaining(s), length |-> s.length]

(* The one-shot functions: split the input, mix its body, finish its tail. *)
OneShot(input) ==
  [hash |-> Take(input, BodyLen(Len(input))), tail |-> Drop(input, BodyLen(Len(input))),
   length |-> Len(input) % LengthModulus]
----------------------------------------------------------------------------
(* `s` holds the bytes of the message m: whole blocks in the hash words    *)
(* and the incomplete last block in the tail.                              *)
HoldsBytes(s, m) ==
  /\ s \in HasherState
  /\ s.len < BLOCK_SIZE
  /\ Len(s.hash) = BodyLen(Len(m))
  /\ m = s.hash \o Remaining(s)

(* `s` holds exactly m: its bytes, and its length as the code counts it.   *)
(* This is what every call of update has to preserve.                      *)
Holds(s, m) == HoldsBytes(s, m) /\ s.length = Len(m) % LengthModulus
=============================================================================
