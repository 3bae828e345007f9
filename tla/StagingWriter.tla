---------------------------- MODULE StagingWriter ---------------------------
(***************************************************************************)
(* The sink of a configured Base64 decode: StagingWriter, StagingValidator *)
(* and StagingBuffer (src/src/bindings/base64/staging.rs). Runs of symbols *)
(* of any length are pushed; whole quads go straight to the output while   *)
(* nothing is staged, and everything else passes through a small buffer    *)
(* that is translated to the standard alphabet and decoded when it is full.*)
(*                                                                         *)
(* A decoded byte has bits of two neighbouring symbols: it is that pair.   *)
(***************************************************************************)
EXTENDS Integers, Sequences

CONSTANTS
  Byte,              (* the bytes of an input                              *)
  Standard,          (* those of the standard alphabet                     *)
  Capacity,          (* CONFIGURED_STAGING_CAPACITY                        *)
  StoresBeforeCheck, (* the kernel stores groups before it checks them     *)
  KernelGroup        (* the symbols of such a group                        *)

ASSUME StagingWriterAssumption ==
  /\ Standard \subseteq Byte
  /\ Capacity \in Nat \ {0} /\ Capacity % 4 = 0
  /\ StoresBeforeCheck \in BOOLEAN
  /\ KernelGroup \in Nat \ {0} /\ KernelGroup % 4 = 0

VARIABLES
  writes,      (* the sink writes; otherwise it only validates             *)
  checked,     (* the CHECKED parameter of the pass                        *)
  translation, (* what becomes of each byte before it is decoded           *)
  pending,     (* the rest of the run that is being pushed                 *)
  staging,     (* the initialized part of the staging buffer               *)
  output,      (* the bytes written                                        *)
  reach,       (* history: the most bytes of the output ever stored to     *)
  pushed,      (* history: all symbols pushed in this pass                 *)
  error        (* the decode has failed                                    *)

sink == <<writes, checked, translation, pending, staging, output, reach, pushed, error>>

Untranslated == [b \in Byte |-> b]
Translate(symbols) == [k \in DOMAIN symbols |-> translation[symbols[k]]]

Take(s, n) == SubSeq(s, 1, n)
Drop(s, n) == SubSeq(s, n + 1, Len(s))
AtMost(m, n) == IF m <= n THEN m ELSE n
AtLeast(m, n) == IF m >= n THEN m ELSE n

(* decoded_symbol_len, and the symbols that make up a byte.                *)
DecodedSymbolLen(n) == (n \div 4) * 3 + (IF n % 4 = 2 THEN 1 ELSE IF n % 4 = 3 THEN 2 ELSE 0)
SymbolOf(k) == ((k - 1) \div 3) * 4 + ((k - 1) % 3) + 1
Decoded(symbols) ==
  [k \in 1 .. DecodedSymbolLen(Len(symbols)) |-> <<symbols[SymbolOf(k)], symbols[SymbolOf(k) + 1]>>]

AllStandard(symbols) == \A k \in DOMAIN symbols : symbols[k] \in Standard

(* How far a decode that fails may have stored: whole quads before the     *)
(* first that fails, or all the groups of a kernel that stores first.      *)
ValidQuads(symbols) ==
  CHOOSE q \in 0 .. Len(symbols) \div 4 :
    /\ AllStandard(Take(symbols, q * 4))
    /\ q * 4 + 4 <= Len(symbols) => ~AllStandard(Take(symbols, q * 4 + 4))

StoredOnError(symbols) ==
  IF Len(symbols) % 4 = 1 THEN 0
  ELSE AtLeast(ValidQuads(symbols) * 3,
               IF StoresBeforeCheck THEN ((Len(symbols) - (Len(symbols) % KernelGroup)) \div 4) * 3 ELSE 0)
----------------------------------------------------------------------------
SinkInit ==
  /\ writes = FALSE /\ checked = TRUE /\ translation = Untranslated
  /\ pending = <<>> /\ staging = <<>> /\ output = <<>> /\ reach = 0 /\ pushed = <<>>
  /\ error = FALSE

(* A new sink for the next pass.                                           *)
NewSink(writing, checking, mapping) ==
  /\ writes' = writing /\ checked' = checking /\ translation' = mapping
  /\ pending' = <<>> /\ staging' = <<>> /\ output' = <<>> /\ pushed' = <<>>
  /\ UNCHANGED <<reach, error>>

(* decode_staging, and the flush of a validator.                           *)
Decode(symbols) ==
  IF checked /\ (Len(symbols) % 4 = 1 \/ ~AllStandard(symbols))
  THEN /\ error' = TRUE
       /\ reach' = IF writes THEN AtLeast(reach, Len(output) + StoredOnError(symbols)) ELSE reach
       /\ UNCHANGED output
  ELSE /\ output' = IF writes THEN output \o Decoded(symbols) ELSE output
       /\ reach' = AtLeast(reach, Len(output'))
       /\ UNCHANGED error

(* push_symbols and push_value of a writer; push of a validator, which     *)
(* exists only for a translated run that is to be validated.               *)
Push(run, validate) ==
  IF writes \/ (validate /\ translation # Untranslated)
  THEN /\ pending' = run
       /\ pushed' = pushed \o run
       /\ UNCHANGED <<writes, checked, translation, staging, output, reach, error>>
  ELSE /\ error' = (validate /\ ~AllStandard(run))
       /\ UNCHANGED <<writes, checked, translation, pending, staging, output, reach, pushed>>

Direct == translation = Untranslated /\ staging = <<>> /\ Len(pending) >= 4

DecodeDirectUnguarded ==                                                  (* faulty *)
  /\ ~error /\ Len(pending) >= 4
  /\ LET direct == (Len(pending) \div 4) * 4
     IN  /\ Decode(Take(pending, direct))
         /\ pending' = Drop(pending, direct)
  /\ UNCHANGED <<writes, checked, translation, staging, pushed>>

DecodeDirect ==
  /\ ~error /\ pending # <<>> /\ Direct
  /\ LET direct == (Len(pending) \div 4) * 4
     IN  /\ Decode(Take(pending, direct))
         /\ pending' = Drop(pending, direct)
  /\ UNCHANGED <<writes, checked, translation, staging, pushed>>

(* extend_from_slice copies what fits; a full buffer is flushed.           *)
Stage ==
  /\ ~error /\ pending # <<>> /\ ~Direct
  /\ LET copied == AtMost(Len(pending), Capacity - Len(staging))
         staged == staging \o Take(pending, copied)
     IN  /\ pending' = Drop(pending, copied)
         /\ IF Len(staged) = Capacity
            THEN Decode(Translate(staged)) /\ staging' = <<>>
            ELSE staging' = staged /\ UNCHANGED <<output, reach, error>>
  /\ UNCHANGED <<writes, checked, translation, pushed>>

(* finish flushes what is staged.                                          *)
FlushRest ==
  /\ IF staging = <<>> THEN UNCHANGED <<output, reach, error>> ELSE Decode(Translate(staging))
  /\ staging' = <<>>
  /\ UNCHANGED <<writes, checked, translation, pending, pushed>>
----------------------------------------------------------------------------
(* Where every pushed symbol is: decoded, staged, or still to be taken     *)
(* from its run; and what is written are the decoded ones, in order.       *)
DecodedCount == Len(pushed) - Len(staging) - Len(pending)

Accounted ==
  /\ DecodedCount \in Nat /\ Len(staging) < Capacity
  /\ \A k \in DOMAIN staging : staging[k] = pushed[DecodedCount + k]
  /\ \A k \in DOMAIN pending : pending[k] = pushed[DecodedCount + Len(staging) + k]
  /\ writes /\ ~error => output = Decoded(Translate(Take(pushed, DecodedCount)))
=============================================================================
