------------------------------ MODULE Xxh3Short ------------------------------
(***************************************************************************)
(* The formulas of XXH3 for inputs of at most 240 bytes                    *)
(* (src/src/xxhash/short_inputs.rs, dispatched in one_shot.rs): which      *)
(* bytes each reads and the windows of the secret it mixes them with. The  *)
(* arithmetic that follows depends on these and on the length only.        *)
(*                                                                         *)
(* A sum of products is the set of its terms; the 128-bit accumulator is   *)
(* the sequence of what is mixed into it, for there the order counts.      *)
(***************************************************************************)
EXTENDS Integers, Sequences

Ext == INSTANCE SequencesExt

Word(at, bytes) == [at |-> at, bytes |-> bytes]
Mix16(at, secret) == [at |-> at, secret |-> secret]
Mix32(at, second, secret) == [at |-> at, second |-> second, secret |-> secret, negated |-> FALSE]
Negated(mix) == [mix EXCEPT !.negated = TRUE]

(* Up to 16 bytes are a few words, which overlap when there are fewer.     *)
Len0To16Words(width, n) ==
  IF n = 0 THEN <<>>
  ELSE IF n <= 3 THEN <<Word(0, 1), Word(n \div 2, 1), Word(n - 1, 1)>>
  ELSE IF n > 8 THEN <<Word(0, 8), Word(n - 8, 8)>>
  ELSE IF width = 64 THEN <<Word(n - 4, 4), Word(0, 4)>> ELSE <<Word(0, 4), Word(n - 4, 4)>>

(* Two windows of the secret for every word of the result.                 *)
Len0To16Secrets(width, n) ==
  IF n = 0 THEN IF width = 64 THEN {56, 64} ELSE {64, 72, 80, 88}
  ELSE IF n <= 3 THEN IF width = 64 THEN {0, 4} ELSE {0, 4, 8, 12}
  ELSE IF n <= 8 THEN IF width = 64 THEN {8, 16} ELSE {16, 24}
  ELSE IF width = 64 THEN {24, 32, 40, 48} ELSE {32, 40, 48, 56}

Len0To16(width, n) ==
  [words |-> Len0To16Words(width, n), secrets |-> Len0To16Secrets(width, n)]

(* Up to 128 bytes are mixed in pairs, from the ends inwards.              *)
Xxh3_64Len17To128(n) ==
  [sum |-> {Mix16(0, 0), Mix16(n - 16, 16)}
             \cup (IF n > 32 THEN {Mix16(16, 32), Mix16(n - 32, 48)} ELSE {})
             \cup (IF n > 64 THEN {Mix16(32, 64), Mix16(n - 48, 80)} ELSE {})
             \cup (IF n > 96 THEN {Mix16(48, 96), Mix16(n - 64, 112)} ELSE {}),
   tail |-> {}]

Xxh3_128Len17To128(n) ==
  [accumulated |-> (IF n > 96 THEN <<Mix32(48, n - 64, 96)>> ELSE <<>>)
                     \o (IF n > 64 THEN <<Mix32(32, n - 48, 64)>> ELSE <<>>)
                     \o (IF n > 32 THEN <<Mix32(16, n - 32, 32)>> ELSE <<>>)
                     \o <<Mix32(0, n - 16, 0)>>,
   tail |-> <<>>]

(* Three lengths have formulas of their own.                               *)
Xxh3_128Len32 == [accumulated |-> <<Mix32(0, 16, 0)>>, tail |-> <<>>]
Xxh3_128Len64 == [accumulated |-> <<Mix32(16, 32, 32), Mix32(0, 48, 0)>>, tail |-> <<>>]
Xxh3_128Len128 ==
  [accumulated |-> <<Mix32(48, 64, 96), Mix32(32, 80, 64), Mix32(16, 96, 32), Mix32(0, 112, 0)>>,
   tail |-> <<>>]

(* Up to 240 bytes are mixed from the start, scrambled after 128 bytes; the *)
(* last bytes are mixed once more, or for the first time.                  *)
Chunks64OfWhole(n) == 8 .. (n - 16) \div 16 - 1                           (* faulty *)
Chunks64(n) == 8 .. n \div 16 - 1
Xxh3_64Len129To240(n) ==
  [sum |-> {Mix16(16 * i, 16 * i) : i \in 0 .. 7},
   tail |-> {Mix16(16 * i, 3 + 16 * (i - 8)) : i \in Chunks64(n)} \cup {Mix16(n - 16, 119)}]

Xxh3_128Len129To240(n) ==
  [accumulated |-> [i \in 1 .. 4 |-> Mix32(32 * (i - 1), 32 * (i - 1) + 16, 32 * (i - 1))],
   tail |-> [i \in 1 .. n \div 32 - 4 |->
               Mix32(32 * (i + 3), 32 * (i + 3) + 16, 3 + 32 * (i - 1))]
            \o <<Negated(Mix32(n - 16, n - 32, 103))>>]

(* The dispatch by length.                                                 *)
Short64(n) ==
  IF n <= 16 THEN Len0To16(64, n)
  ELSE IF n <= 128 THEN Xxh3_64Len17To128(n)
  ELSE Xxh3_64Len129To240(n)

Short128(n) ==
  IF n <= 16 THEN Len0To16(128, n)
  ELSE IF n = 32 THEN Xxh3_128Len32
  ELSE IF n = 64 THEN Xxh3_128Len64
  ELSE IF n = 128 THEN Xxh3_128Len128
  ELSE IF n <= 128 THEN Xxh3_128Len17To128(n)
  ELSE Xxh3_128Len129To240(n)

Short(width, n) == IF width = 64 THEN Short64(n) ELSE Short128(n)
----------------------------------------------------------------------------
(* The formulas of the specification, as it states them: loops over rounds *)
(* from the ends inwards, and over chunks from the start.                  *)
Rounds(n) == (n - 1) \div 32 + 1
Reference64(n) ==
  IF n <= 128
  THEN [sum |-> UNION {{Mix16(16 * i, 32 * i), Mix16(n - 16 * (i + 1), 32 * i + 16)} :
                         i \in 0 .. Rounds(n) - 1},
        tail |-> {}]
  ELSE [sum |-> {Mix16(16 * i, 16 * i) : i \in 0 .. 7},
        tail |-> {Mix16(16 * i, 16 * (i - 8) + 3) : i \in {j \in 8 .. 15 : 16 * (j + 1) <= n}}
                   \cup {Mix16(n - 16, 136 - 17)}]

Reference128(n) ==
  IF n <= 128
  THEN [accumulated |-> Ext!Reverse([i \in 1 .. Rounds(n) |-> Mix32(16 * (i - 1), n - 16 * i, 32 * (i - 1))]),
        tail |-> <<>>]
  ELSE LET chunks == [i \in 1 .. n \div 32 |->
                        Mix32(32 * (i - 1), 32 * (i - 1) + 16,
                              IF i <= 4 THEN 32 * (i - 1) ELSE 32 * (i - 5) + 3)]
       IN  [accumulated |-> SubSeq(chunks, 1, 4),
            tail |-> SubSeq(chunks, 5, Len(chunks))
                       \o <<Negated(Mix32(n - 16, n - 32, 136 - 17 - 16))>>]

ShortReference(width, n) ==
  IF n <= 16 THEN Len0To16(width, n) ELSE IF width = 64 THEN Reference64(n) ELSE Reference128(n)

(* The bytes a formula reads, and the windows of the secret.               *)
Bytes(at, count) == at .. at + count - 1
BytesRead(formula) ==
  IF "words" \in DOMAIN formula
  THEN UNION {Bytes(w.at, w.bytes) : w \in Ext!Range(formula.words)}
  ELSE IF "sum" \in DOMAIN formula
  THEN UNION {Bytes(m.at, 16) : m \in formula.sum \cup formula.tail}
  ELSE UNION {Bytes(m.at, 16) \cup Bytes(m.second, 16) :
                m \in Ext!Range(formula.accumulated) \cup Ext!Range(formula.tail)}

SecretRead(formula) ==
  IF "words" \in DOMAIN formula
  THEN UNION {Bytes(at, IF at < 16 /\ Len(formula.words) = 3 THEN 4 ELSE 8) : at \in formula.secrets}
  ELSE IF "sum" \in DOMAIN formula
  THEN UNION {Bytes(m.secret, 16) : m \in formula.sum \cup formula.tail}
  ELSE UNION {Bytes(m.secret, 32) : m \in Ext!Range(formula.accumulated) \cup Ext!Range(formula.tail)}
=============================================================================
