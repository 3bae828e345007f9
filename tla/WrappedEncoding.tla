--------------------------- MODULE WrappedEncoding -------------------------
(***************************************************************************)
(* One encode of Base64 text in lines, by the two ways the Python encoder  *)
(* has: short inputs are encoded whole and the text is then expanded in    *)
(* place from its end (wrap_encoded_ptr, src/src/bindings/base64/encode.rs)*)
(* and long ones are written line by line by kernels and a scalar tail     *)
(* (WrappedOutput, src/src/base64/encode/api.rs).                          *)
(*                                                                         *)
(* Only positions matter: symbol i of the text is the number i, padding    *)
(* included, and the output is a sequence of symbols, newlines and cells   *)
(* not written yet, with some cells after it that belong to the caller.    *)
(***************************************************************************)
EXTENDS Integers, Sequences, SequencesExt

CONSTANTS
  MaxInput,        (* bound: the longest input in bytes                    *)
  Wrapcols,        (* the values of the wrapcol argument                   *)
  DirectThreshold, (* DIRECT_WRAPPED_INPUT_THRESHOLD                       *)
  Slack            (* bound: cells of the destination after the output     *)

ASSUME WrappedEncodingAssumption ==
  /\ MaxInput \in Nat /\ DirectThreshold \in Nat /\ Slack \in Nat
  /\ Wrapcols \subseteq Nat

VARIABLES
  inputLen,    (* bytes to encode                                          *)
  padded,      (* the padded argument                                      *)
  width,       (* the normalized wrapcol, 0 for none                       *)
  output,      (* the destination                                          *)
  pc,          (* where the encode is                                      *)
  source,      (* in place: the symbols not moved yet;                     *)
               (* direct: the symbols written so far                       *)
  destination, (* in place: where the moved symbols begin;                 *)
               (* direct: the cells written so far                         *)
  column,      (* direct: the symbols on the current line                  *)
  chunk        (* direct: the encoded symbols that are to be written next  *)

vars == <<inputLen, padded, width, output, pc, source, destination, column, chunk>>
arguments == <<inputLen, padded, width>>

Newline == 0
Unset == -1

NormalizeWrapcol(wrapcol) ==
  IF wrapcol = 0 THEN 0 ELSE (IF wrapcol \div 4 > 1 THEN wrapcol \div 4 ELSE 1) * 4

EncodedLen(n) == ((n + 2) \div 3) * 4
UnpaddedEncodedLen(n) == EncodedLen(n) - (IF n % 3 = 0 THEN 0 ELSE 3 - (n % 3))
DataLen == IF padded THEN EncodedLen(inputLen) ELSE UnpaddedEncodedLen(inputLen)

OutputLenOfLines(dataLen) ==                                              (* faulty *)
  IF dataLen = 0 \/ width = 0 THEN dataLen ELSE dataLen + dataLen \div (width + 1)

OutputLen(dataLen) ==
  IF dataLen = 0 \/ width = 0 THEN dataLen ELSE dataLen + (dataLen - 1) \div width

(* direct_wrap_width.                                                      *)
Direct == inputLen > DirectThreshold /\ width # 0 /\ DataLen > width
----------------------------------------------------------------------------
Init ==
  /\ inputLen \in 0 .. MaxInput
  /\ padded \in BOOLEAN
  /\ width \in {NormalizeWrapcol(wrapcol) : wrapcol \in Wrapcols}
  /\ output = [k \in 1 .. OutputLen(DataLen) + Slack |-> Unset]
  /\ pc = "start"
  /\ source = 0 /\ destination = 0 /\ column = 0 /\ chunk = 0

(* A write past the end shows as a longer destination.                     *)
Cell(k) == IF k \in DOMAIN output THEN output[k] ELSE Unset
Write(cells, at) ==
  output' = [k \in 1 .. (IF at + Len(cells) > Len(output) THEN at + Len(cells) ELSE Len(output)) |->
               IF k \in at + 1 .. at + Len(cells) THEN cells[k - at] ELSE Cell(k)]

Symbols(first, last) == [k \in 1 .. last - first + 1 |-> first + k - 1]

(* encode_unwrapped_ptr, and the early return of wrap_encoded_ptr.         *)
EncodeUnwrapped ==
  /\ pc = "start" /\ ~Direct
  /\ Write(Symbols(1, DataLen), 0)
  /\ IF width = 0 \/ DataLen <= width
     THEN pc' = "done" /\ UNCHANGED <<source, destination>>
     ELSE /\ pc' = "wrapping"
          /\ source' = DataLen
          /\ destination' = DataLen + (DataLen - 1) \div width
  /\ UNCHANGED <<arguments, column, chunk>>

(* wrap_encoded_ptr moves the last line first.                             *)
LineLen == IF source % width = 0 THEN width ELSE source % width

MoveLineFirst ==                                                          (* faulty *)
  LET moved == DataLen - source
      length == IF source <= width THEN source ELSE width
  IN  /\ Write([k \in 1 .. length |-> output[moved + k]] \o
                 (IF length < source THEN <<Newline>> ELSE <<>>), moved + moved \div width)
      /\ source' = source - length
      /\ destination' = destination - length - (IF source' = 0 THEN 0 ELSE 1)

MoveLineRemainder ==                                                      (* faulty *)
  LET length == source % width
  IN  /\ source' = source - length
      /\ destination' = destination - length - (IF length = 0 \/ source' = 0 THEN 0 ELSE 1)
      /\ Write([k \in 1 .. length |-> output[source' + k]], destination')

MoveLine ==
  /\ source' = source - LineLen
  /\ destination' = destination - LineLen - (IF source' = 0 THEN 0 ELSE 1)
  /\ LET line == [k \in 1 .. LineLen |-> output[source' + k]]
     IN  Write(IF source' = 0 THEN line ELSE <<Newline>> \o line, destination')

WrapLine ==
  /\ pc = "wrapping" /\ source # 0
  /\ MoveLine
  /\ UNCHANGED <<arguments, pc, column, chunk>>

EndWrap ==
  /\ pc = "wrapping" /\ source = 0
  /\ pc' = "done"
  /\ UNCHANGED <<arguments, output, source, destination, column, chunk>>

(* WrappedOutput: the next n symbols of the text go to the current line. A *)
(* newline is written only when another symbol follows it.                 *)
LineBreakLate == column > width                                           (* faulty *)
LineBreak == column = width

Put(n) ==
  LET cells == (IF LineBreak THEN <<Newline>> ELSE <<>>) \o Symbols(source + 1, source + n)
  IN  /\ Write(cells, destination)
      /\ destination' = destination + Len(cells)
      /\ source' = source + n
      /\ column' = n + (IF LineBreak THEN 0 ELSE column)

BeginDirect ==
  /\ pc = "start" /\ Direct
  /\ pc' = "blocks"
  /\ UNCHANGED <<arguments, output, source, destination, column, chunk>>

InputLeft == inputLen - (source \div 4) * 3

(* write_16, as often as a kernel finds 12 bytes to encode: at once when   *)
(* the block fits its line, otherwise in quads.                            *)
BlockFits == (IF LineBreak THEN width ELSE width - column) >= 16

WriteBlock ==
  /\ pc = "blocks" /\ chunk = 0 /\ InputLeft >= 12
  /\ IF BlockFits THEN Put(16) /\ UNCHANGED chunk
     ELSE chunk' = 16 /\ UNCHANGED <<output, source, destination, column>>
  /\ UNCHANGED <<arguments, pc>>

(* A kernel may leave any rest to the scalar loop.                         *)
EndBlocks ==
  /\ pc = "blocks" /\ chunk = 0
  /\ pc' = "scalar"
  /\ UNCHANGED <<arguments, output, source, destination, column, chunk>>

(* encode_scalar_wrapped_with_alphabet encodes six bytes, then the rest.   *)
TakeGroup ==
  /\ pc = "scalar" /\ chunk = 0
  /\ chunk' = IF InputLeft >= 6 THEN 8
              ELSE IF padded THEN EncodedLen(InputLeft) ELSE UnpaddedEncodedLen(InputLeft)
  /\ pc' = IF InputLeft >= 6 THEN "scalar" ELSE "tail"
  /\ UNCHANGED <<arguments, output, source, destination, column>>

(* write_bytes, of the symbols of the chunk.                               *)
WriteQuad ==
  /\ chunk > 0
  /\ LET n == IF chunk >= 4 THEN 4 ELSE chunk
     IN  Put(n) /\ chunk' = chunk - n
  /\ UNCHANGED <<arguments, pc>>

EndTail ==
  /\ pc = "tail" /\ chunk = 0
  /\ pc' = "done"
  /\ UNCHANGED <<arguments, output, source, destination, column, chunk>>

Step ==
  \/ EncodeUnwrapped \/ WrapLine \/ EndWrap
  \/ BeginDirect \/ WriteBlock \/ EndBlocks \/ TakeGroup \/ WriteQuad \/ EndTail

Next == Step \/ (pc = "done" /\ UNCHANGED vars)

(* The encode is a sequential function: it keeps taking its next step.     *)
Spec == Init /\ [][Next]_vars /\ WF_vars(Step)
----------------------------------------------------------------------------
(* Where symbol i belongs in lines of w symbols, and the newline that ends *)
(* line k.                                                                 *)
PlaceAt(i, w) == IF w = 0 THEN i ELSE i + (i - 1) \div w
NewlineAt(k, w) == k * (w + 1)
Place(i) == PlaceAt(i, width)

Placed(symbols) == \A i \in symbols : output[Place(i)] = i
EndsLine(k) == width # 0 /\ k >= 1 /\ k * width < DataLen
Ended(lines) == \A k \in lines : EndsLine(k) => output[NewlineAt(k, width)] = Newline

(* The finished output holds every symbol of the text, in order, with a    *)
(* newline after every full line but the last, whichever way it was made.  *)
WrapsText == pc = "done" => Placed(1 .. DataLen) /\ Ended(1 .. DataLen)

(* No cell after the required length is written, at any time: the length   *)
(* that output_len reserves is what the two ways really need.              *)
WritesFit ==
  /\ Len(output) = OutputLen(DataLen) + Slack
  /\ \A k \in OutputLen(DataLen) + 1 .. Len(output) : output[k] = Unset

(* "Source bytes are never overwritten before they are copied"             *)
(* (wrap_encoded_ptr), and both ends meet at the start of the output.      *)
SourceIntact ==
  pc = "wrapping" =>
    /\ \A i \in 1 .. source : output[i] = i
    /\ source = 0 => destination = 0

(* Every newline that a kept or written line needs is there.               *)
LinesFrom(s) == {k \in 1 .. DataLen : k * width >= s}
LinesBefore(s) == {k \in 1 .. DataLen : k * width < s}
EndOf(s) == IF s = 0 THEN 0 ELSE Place(s)

InPlace ==
  pc = "wrapping" =>
    /\ width # 0 /\ DataLen > width
    /\ source \in 0 .. DataLen
    /\ destination = EndOf(source)
    /\ \A i \in 1 .. source : output[i] = i
    /\ Placed(source + 1 .. DataLen)
    /\ Ended(LinesFrom(source))

Streamed ==
  pc \in {"blocks", "scalar", "tail"} =>
    /\ width # 0
    /\ source \in Nat /\ chunk \in Nat /\ column \in 0 .. width
    /\ destination = EndOf(source)
    /\ source = 0 => column = 0
    /\ source # 0 => column = source - ((source - 1) \div width) * width
    /\ Placed(1 .. source)
    /\ Ended(LinesBefore(source))

(* What is left to encode and what is left to write agree.                 *)
Accounted ==
  /\ pc \in {"blocks", "scalar"} =>
       /\ source % 4 = 0 /\ chunk % 4 = 0 /\ column % 4 = 0
       /\ ((source + chunk) \div 4) * 3 <= inputLen
  /\ pc = "tail" =>
       /\ source + chunk = DataLen
       /\ chunk # 0 => source % 4 = 0 /\ column % 4 = 0
  /\ pc \in {"start", "wrapping", "done"} => chunk = 0

(* The inductive invariant of the encode.                                  *)
IInv ==
  /\ inputLen \in Nat /\ padded \in BOOLEAN /\ width \in Nat /\ width % 4 = 0
  /\ pc \in {"start", "wrapping", "blocks", "scalar", "tail", "done"}
  /\ output \in Seq(Int)
  /\ WritesFit
  /\ pc = "start" => source = 0 /\ destination = 0 /\ column = 0 /\ chunk = 0
  /\ InPlace /\ Streamed /\ Accounted /\ WrapsText

(* Every encode ends: each turn of its loops makes progress.               *)
Terminates == <>(pc = "done")
=============================================================================
