--------------------------- MODULE ConfiguredDecode -------------------------
(***************************************************************************)
(* One Base64 decode with ignored characters, another alphabet, canonical  *)
(* or unpadded input: ConfiguredDecoder                                    *)
(* (src/src/bindings/base64/configured.rs) over the sinks of StagingWriter.*)
(*                                                                         *)
(* Allocating calls scan the input once, checking as they write into a     *)
(* buffer of a size they reserved; calls into a bytearray count and        *)
(* validate first, then write without checks; a strict attempt with        *)
(* alternative characters computes the size from the input's layout.       *)
(***************************************************************************)
EXTENDS StagingWriter, SequencesExt

CONSTANTS
  Alphanumeric,    (* the letters and digits among Standard                *)
  StandardValue,   (* the value of each byte of Standard, 0 .. 63          *)
  Plus, Slash,     (* the bytes of the values 62 and 63                    *)
  Equals,          (* the padding character                                *)
  Calls,           (* records of policy, mode, input and continues         *)
  SmallInput,      (* the longest input whose padding is not inspected     *)
  DetachThreshold  (* BASE64_DETACH_THRESHOLD                              *)

None == <<>>

(* PreparedPolicy::strict_custom, the policy of a strict attempt with       *)
(* alternative characters.                                                 *)
IsStrictCustom(p) ==
  /\ p.strict /\ ~p.ignorecharsSpecified /\ p.ignored = {}
  /\ p.alphabet = None /\ p.altchars # None

ASSUME ConfiguredDecodeAssumption ==
  /\ Alphanumeric \subseteq Standard
  /\ StandardValue \in [Standard -> 0 .. 63] /\ IsInjective(StandardValue)
  /\ {Plus, Slash} \subseteq Standard \ Alphanumeric
  /\ StandardValue[Plus] = 62 /\ StandardValue[Slash] = 63
  /\ Equals \in Byte \ Standard
  /\ SmallInput \in Nat /\ DetachThreshold \in Nat
  /\ \A c \in Calls : /\ c.input \in Seq(Byte)
                      /\ Range(c.policy.alphabet) \subseteq Range(StandardValue)
                      /\ c.policy.altchars \in {None} \union (Byte \X Byte)
                      /\ c.mode = "strictInto" => IsStrictCustom(c.policy)

VARIABLES
  call,     (* the arguments                                               *)
  decoder,  (* the ConfiguredDecoder                                       *)
  pc,       (* where the decode is                                         *)
  input,    (* the input without the leading bytes that are skipped        *)
  capacity, (* the size reserved for, or required of, the output           *)
  padded,   (* the padding policy of the pass                              *)
  source,   (* bytes scanned                                               *)
  symbols,  (* the symbols counted in this pass                            *)
  last,     (* the value of the last symbol                                *)
  padding,  (* padding characters counted                                  *)
  quad      (* the position in a quad, which lenient scans keep            *)

scan == <<source, symbols, last, padding, quad>>
vars == <<call, decoder, pc, input, capacity, padded, scan, sink>>

policy == call.policy
----------------------------------------------------------------------------
(* ConfiguredDecoder::new.                                                 *)
INVALID == 64
IGNORED == 65

CustomAlphabet(p) == (p.altchars # None \/ p.alphabet # None) /\ p.ignorecharsSpecified

OrIgnored(p, b, value) == IF value >= 64 /\ b \in p.ignored THEN IGNORED ELSE value

IsAltchar(p, k, b) ==
  p.altchars # None /\ p.altchars[k] = b /\ (b = Equals => ~CustomAlphabet(p))

DecodeTable(p) ==
  [b \in Byte |->
     IF p.alphabet # None
     THEN IF b = Equals THEN INVALID
          ELSE OrIgnored(p, b, IF b \in DOMAIN p.alphabet THEN p.alphabet[b] ELSE INVALID)
     ELSE IF IsAltchar(p, 2, b) THEN 63
     ELSE IF IsAltchar(p, 1, b) THEN 62
     ELSE IF CustomAlphabet(p) /\ b \in {Plus, Slash} THEN OrIgnored(p, b, INVALID)
     ELSE OrIgnored(p, b, IF b \in Standard THEN StandardValue[b] ELSE INVALID)]

StandardByte(value) == CHOOSE b \in Standard : StandardValue[b] = value

(* Translation::new; a translation that changes nothing is none.           *)
TranslationOfSlash(p, table) ==                                           (* faulty *)
  [b \in Byte |->
     IF p.alphabet = None /\ b \in Range(p.altchars) /\ table[b] < 64
     THEN IF b = p.altchars[2] THEN Slash ELSE b
     ELSE b]

Translation(p, table) ==
  [b \in Byte |->
     IF p.alphabet = None /\ b \in Range(p.altchars) /\ table[b] < 64
     THEN StandardByte(table[b]) ELSE b]

NewDecoder(p) ==
  LET table == DecodeTable(p)
  IN  [table |-> table,
       preservesAlphanumeric |->
         IF p.alphabet = None THEN Range(p.altchars) \intersect Alphanumeric = {}
         ELSE \A b \in Alphanumeric : table[b] = StandardValue[b],
       manySpecials |->
         p.alphabet # None \/ Cardinality({b \in Byte : table[b] = IGNORED}) > 3,
       forbidden |->
         IF CustomAlphabet(p) THEN {b \in Standard : table[b] = INVALID} ELSE {},
       translation |-> Translation(p, table)]

Value(b) == decoder.table[b]
IsSymbol(b) == Value(b) < 64
IsIgnored(b) == Value(b) = IGNORED
EqualsIsPadding == padded /\ Value(Equals) = INVALID
EqualsIsData == Value(Equals) < 64

SpecialsRoute == policy.strict /\ ~decoder.manySpecials /\ Cardinality(decoder.forbidden) <= 3
StrictRoute == policy.strict /\ ~SpecialsRoute
LenientRoute == ~policy.strict

(* Where a search for some bytes ends, which may find nothing.             *)
IgnoredBytes == {b \in Byte : IsIgnored(b)}
FirstFrom(s, from, bytes) ==
  IF \E i \in from + 1 .. Len(s) : s[i] \in bytes
  THEN CHOOSE i \in from + 1 .. Len(s) : s[i] \in bytes /\ \A j \in from + 1 .. i - 1 : s[j] \notin bytes
  ELSE Len(s) + 1

(* partial_value: the bits of the last symbol that no decoded byte has.    *)
PartialValue(quadPos, value) ==
  CASE quadPos = 2 -> value % 16 [] quadPos = 3 -> value % 4 [] quadPos = 1 -> value [] OTHER -> 0

ExpectedPadding(n) == CASE n % 4 = 2 -> 2 [] n % 4 = 3 -> 1 [] OTHER -> 0
----------------------------------------------------------------------------
Init ==
  /\ call \in Calls
  /\ decoder = NewDecoder(call.policy)
  /\ pc = "begin"
  /\ input = call.input
  /\ capacity = 0
  /\ padded = call.policy.padded
  /\ source = 0 /\ symbols = 0 /\ last = 0 /\ padding = 0 /\ quad = 0
  /\ SinkInit

Goto(label) == pc' = label
Fail == error' = TRUE /\ Goto("done")
FailScan == Fail /\ UNCHANGED <<writes, checked, translation, pending, staging, output, reach, pushed>>

(* BytesWriter::capacity_for_input and decoded_len_upper_bound.            *)
TrailingPaddingOfText(s) ==                                               (* faulty *)
  IF s = <<>> \/ s[Len(s)] # Equals THEN 0
  ELSE IF Len(s) >= 2 /\ s[Len(s) - 1] = Equals THEN 2 ELSE 1

TrailingPadding(s) ==
  IF EqualsIsData \/ s = <<>> \/ s[Len(s)] # Equals THEN 0
  ELSE IF Len(s) >= 2 /\ s[Len(s) - 1] = Equals THEN 2 ELSE 1

CapacityForInput(s) ==
  IF Len(s) <= SmallInput THEN ((Len(s) + 3) \div 4) * 3
  ELSE DecodedSymbolLen(Len(s) - TrailingPadding(s))

(* decode_configured: leading ignored bytes of a long input are skipped.   *)
BeginAllocating ==
  /\ pc = "begin" /\ call.mode = "allocating"
  /\ LET begin == IF Len(input) < DetachThreshold THEN 0
                  ELSE FirstFrom(input, 0, {Equals} \union (Byte \ IgnoredBytes)) - 1
     IN  /\ input' = Drop(input, begin)
         /\ capacity' = CapacityForInput(input')
  /\ NewSink(TRUE, TRUE, Untranslated)
  /\ Goto("route")
  /\ UNCHANGED <<call, decoder, padded, scan>>

(* decode_configured_slice_into: decoded_len counts and validates.         *)
BeginCount ==
  /\ pc = "begin" /\ call.mode = "counting"
  /\ NewSink(FALSE, TRUE, Untranslated)
  /\ Goto("route")
  /\ UNCHANGED <<call, decoder, input, capacity, padded, scan>>

(* decode_configured_strict_into, when a failed attempt may write:         *)
(* translated_strict_decoded_len.                                          *)
LayoutLen ==
  LET n == Len(input)
      data == Equals \in Range(policy.altchars)
      trailing == IF n >= 1 /\ input[n] = Equals
                  THEN IF n >= 2 /\ input[n - 1] = Equals THEN 2 ELSE 1 ELSE 0
  IN  IF policy.padded
      THEN IF n % 4 # 0 THEN -1 ELSE IF data THEN (n \div 4) * 3 ELSE (n \div 4) * 3 - trailing
      ELSE IF (~data /\ Equals \in Range(input)) \/ n % 4 = 1 THEN -1 ELSE DecodedSymbolLen(n)

BeginStrictInto ==
  /\ pc = "begin" /\ call.mode = "strictInto"
  /\ IF LayoutLen < 0
     THEN FailScan /\ UNCHANGED capacity
     ELSE capacity' = LayoutLen /\ Goto("sized") /\ UNCHANGED sink
  /\ UNCHANGED <<call, decoder, input, padded, scan>>

(* scan: the ignored padding of a checked strict scan is counted first,    *)
(* and the scan then goes on as if unpadded.                               *)
PaddingIgnored == checked /\ policy.strict /\ padded /\ IsIgnored(Equals)

RouteIgnoredPadding ==
  /\ pc = "route" /\ PaddingIgnored
  /\ LET data == {i \in DOMAIN input : IsSymbol(input[i])}
         pads == {i \in DOMAIN input : input[i] = Equals /\ \A j \in data : j < i}
     IN  IF Cardinality(data) % 4 = 1 \/ Cardinality(pads) < ExpectedPadding(Cardinality(data))
         THEN FailScan /\ UNCHANGED padded
         ELSE padded' = FALSE /\ UNCHANGED <<pc, sink>>
  /\ UNCHANGED <<call, decoder, input, capacity, scan>>

(* scan_strict_specials: the data ends at the first padding character.     *)
DataEnd == IF EqualsIsPadding THEN FirstFrom(input, 0, {Equals}) - 1 ELSE Len(input)

Forbidden == checked /\ Range(Take(input, DataEnd)) \intersect decoder.forbidden # {}

RouteSpecials ==
  /\ pc = "route" /\ ~PaddingIgnored /\ SpecialsRoute
  /\ IF Forbidden
     THEN FailScan
     ELSE Goto("scan") /\ translation' = decoder.translation
          /\ UNCHANGED <<writes, checked, pending, staging, output, reach, pushed, error>>
  /\ UNCHANGED <<call, decoder, input, capacity, padded, scan>>

RouteGeneric ==
  /\ pc = "route" /\ ~PaddingIgnored /\ ~SpecialsRoute
  /\ Goto("scan")
  /\ UNCHANGED <<call, decoder, input, capacity, padded, scan, sink>>

Scanning == pc = "scan" /\ ~error /\ pending = <<>>

(* The sink works off the run before the scan goes on.                     *)
PushRun ==
  /\ pc = "scan"
  /\ DecodeDirect \/ Stage
  /\ UNCHANGED <<call, decoder, pc, input, capacity, padded, scan>>

(* A run up to the next ignored byte, which is skipped.                    *)
AfterRunKept(runEnd) == AtMost(runEnd, DataEnd)                           (* faulty *)
AfterRun(runEnd) == AtMost(runEnd + 1, DataEnd)

SpecialsRun ==
  /\ Scanning /\ SpecialsRoute /\ source < DataEnd
  /\ LET runEnd == FirstFrom(Take(input, DataEnd), source, IgnoredBytes) - 1
         run == SubSeq(input, source + 1, runEnd)
     IN  /\ IF run = <<>> THEN UNCHANGED <<sink, symbols, last>>
            ELSE Push(run, TRUE) /\ symbols' = symbols + Len(run) /\ last' = Value(input[runEnd])
         /\ source' = AfterRun(runEnd)
  /\ UNCHANGED <<call, decoder, pc, input, capacity, padded, padding, quad>>

EndSpecials ==
  /\ Scanning /\ SpecialsRoute /\ source >= DataEnd
  /\ LET rest == DataEnd + 1 .. Len(input)
     IN  IF checked /\ \E i \in rest : input[i] # Equals /\ ~IsIgnored(input[i])
         THEN FailScan /\ UNCHANGED padding
         ELSE /\ padding' = IF checked THEN Cardinality({i \in rest : input[i] = Equals}) ELSE 0
              /\ Goto("finish") /\ UNCHANGED sink
  /\ UNCHANGED <<call, decoder, input, capacity, padded, source, symbols, last, quad>>

(* scan_strict and scan_lenient: a run of letters and digits at once.      *)
Run == SubSeq(input, source + 1, FirstFrom(input, source, Byte \ Alphanumeric) - 1)
RunAhead ==
  /\ decoder.preservesAlphanumeric /\ Run # <<>>
  /\ StrictRoute => padding = 0

CountSymbolsChecked(n, value) ==                                          (* faulty *)
  IF checked THEN symbols' = symbols + n /\ last' = value /\ quad' = (quad + n) % 4
  ELSE UNCHANGED <<symbols, last, quad>>

CountSymbols(n, value) ==
  /\ symbols' = IF checked THEN symbols + n ELSE symbols
  /\ last' = IF checked THEN value ELSE last
  /\ quad' = (quad + n) % 4

AlphanumericRun ==
  /\ Scanning /\ ~SpecialsRoute /\ source < Len(input) /\ RunAhead
  /\ Push(Run, FALSE)
  /\ CountSymbols(Len(Run), Value(Run[Len(Run)]))
  /\ source' = source + Len(Run)
  /\ padding' = 0
  /\ UNCHANGED <<call, decoder, pc, input, capacity, padded>>

(* Otherwise one byte, by what the table says of it.                       *)
next == input[source + 1]
ScanByte == Scanning /\ ~SpecialsRoute /\ source < Len(input) /\ ~RunAhead /\ source' = source + 1

StrictSymbol ==
  /\ ScanByte /\ StrictRoute /\ IsSymbol(next)
  /\ IF checked /\ padding # 0
     THEN FailScan /\ UNCHANGED <<symbols, last, quad>>
     ELSE Push(<<StandardByte(Value(next))>>, FALSE) /\ CountSymbols(1, Value(next)) /\ UNCHANGED pc
  /\ UNCHANGED <<call, decoder, input, capacity, padded, padding>>

StrictOther ==
  /\ ScanByte /\ StrictRoute /\ ~IsSymbol(next)
  /\ IF checked /\ ~IsIgnored(next) /\ (next # Equals \/ ~padded)
     THEN FailScan /\ UNCHANGED padding
     ELSE /\ padding' = padding + (IF next = Equals /\ ~IsIgnored(next) THEN 1 ELSE 0)
          /\ UNCHANGED <<pc, sink>>
  /\ UNCHANGED <<call, decoder, input, capacity, padded, symbols, last, quad>>

LenientSymbol ==
  /\ ScanByte /\ LenientRoute /\ IsSymbol(next)
  /\ Push(<<StandardByte(Value(next))>>, FALSE)
  /\ CountSymbols(1, Value(next))
  /\ padding' = 0
  /\ UNCHANGED <<call, decoder, pc, input, capacity, padded>>

(* Padding that completes a quad ends the scan at once, except in the      *)
(* Python versions that go on after it.                                    *)
LenientPadding ==
  /\ ScanByte /\ LenientRoute /\ padded /\ next = Equals /\ ~EqualsIsData
  /\ padding' = padding + 1
  /\ IF ~call.continues /\ quad >= 2 /\ quad + padding' >= 4
     THEN IF checked /\ policy.canonical /\ PartialValue(quad, last) # 0 THEN FailScan
          ELSE Goto("flush") /\ UNCHANGED sink
     ELSE UNCHANGED <<pc, sink>>
  /\ UNCHANGED <<call, decoder, input, capacity, padded, symbols, last, quad>>

(* Any other byte is discarded, whether the caller ignores it or not: the  *)
(* characters to ignore are looked at in strict scans only.                *)
LenientSkip ==
  /\ ScanByte /\ LenientRoute /\ ~IsSymbol(next) /\ ~(padded /\ next = Equals)
  /\ UNCHANGED <<call, decoder, pc, input, capacity, padded, sink, symbols, last, padding, quad>>

EndScan ==
  /\ Scanning /\ ~SpecialsRoute /\ source = Len(input)
  /\ Goto("finish")
  /\ UNCHANGED <<call, decoder, input, capacity, padded, scan, sink>>

(* finish_strict, and the end of scan_lenient.                             *)
StrictRejects ==
  \/ symbols % 4 = 1
  \/ padded /\ padding # ExpectedPadding(symbols)
  \/ policy.canonical /\ symbols % 4 # 0 /\ PartialValue(symbols % 4, last) # 0

LenientRejects ==
  \/ quad = 1
  \/ padded /\ quad # 0 /\ quad + padding < 4
  \/ policy.canonical /\ quad \in {2, 3} /\ PartialValue(quad, last) # 0

Finish ==
  /\ pc = "finish"
  /\ IF checked /\ (IF policy.strict THEN StrictRejects ELSE LenientRejects)
     THEN FailScan
     ELSE Goto("flush") /\ UNCHANGED sink
  /\ UNCHANGED <<call, decoder, input, capacity, padded, scan>>

Flush ==
  /\ pc = "flush"
  /\ FlushRest
  /\ IF writes \/ error'
     THEN Goto("done") /\ UNCHANGED capacity
     ELSE Goto("sized") /\ capacity' = DecodedSymbolLen(symbols)
  /\ UNCHANGED <<call, decoder, input, padded, scan>>

(* A destination that is shorter is an error; a validated input is written *)
(* in a second pass without checks.                                        *)
OutputTooSmall ==
  /\ pc = "sized"
  /\ Goto("tooSmall")
  /\ UNCHANGED <<call, decoder, input, capacity, padded, scan, sink>>

BeginWrite ==
  /\ pc = "sized"
  /\ padded' = policy.padded
  /\ source' = 0 /\ symbols' = 0 /\ last' = 0 /\ padding' = 0 /\ quad' = 0
  /\ NewSink(TRUE, call.mode = "strictInto", Untranslated)
  /\ Goto("route")
  /\ UNCHANGED <<call, decoder, input, capacity>>

(* An error in the sink ends the decode.                                   *)
Abort ==
  /\ pc = "scan" /\ error
  /\ Goto("done")
  /\ UNCHANGED <<call, decoder, input, capacity, padded, scan, sink>>

Step ==
  \/ BeginAllocating \/ BeginCount \/ BeginStrictInto
  \/ RouteIgnoredPadding \/ RouteSpecials \/ RouteGeneric
  \/ PushRun \/ SpecialsRun \/ EndSpecials
  \/ AlphanumericRun \/ StrictSymbol \/ StrictOther
  \/ LenientSymbol \/ LenientPadding \/ LenientSkip \/ EndScan
  \/ Finish \/ Flush \/ OutputTooSmall \/ BeginWrite \/ Abort

Next == Step \/ (pc \in {"done", "tooSmall"} /\ UNCHANGED vars)

(* The decode is a sequential function: it keeps taking its next step.     *)
Spec == Init /\ [][Next]_vars /\ WF_vars(Step)
----------------------------------------------------------------------------
(* The inductive invariant of the sink as the scan uses it: until the last *)
(* flush only whole quads are decoded, and nothing is left when it ends.   *)
IInv ==
  /\ Accounted
  /\ pc \in {"begin", "route"} => staging = <<>> /\ pending = <<>> /\ pushed = <<>> /\ output = <<>>
  /\ pc \in {"scan", "finish", "flush"} /\ ~error => DecodedCount % 4 = 0
  /\ pc \in {"finish", "flush"} => pending = <<>> /\ ~error
  /\ pc = "done" /\ ~error => staging = <<>> /\ pending = <<>> /\ writes

(* What the decode of a text should be, from the text as a whole: which    *)
(* bytes are symbols, what comes after which, and where a lenient decode   *)
(* stops reading.                                                          *)
text == call.input
SymbolsAt(last_) == {i \in 1 .. last_ : IsSymbol(text[i])}
EqualsAt(last_) == {i \in 1 .. last_ : text[i] = Equals /\ ~EqualsIsData}
PaddingAfter(i, last_) == Cardinality({k \in EqualsAt(last_) : k > i})
LastOf(positions) == CHOOSE i \in positions : \A j \in positions : j <= i

PartialBits(last_) ==
  LET data == SymbolsAt(last_)
  IN  policy.canonical /\ data # {} /\
        PartialValue(Cardinality(data) % 4, Value(text[LastOf(data)])) # 0

QuadComplete(last_) ==
  LET data == SymbolsAt(last_)
      held == Cardinality(data) % 4
  IN  held >= 2 /\ held + PaddingAfter(LastOf(data), last_) >= 4

Stops == {i \in EqualsAt(Len(text)) : policy.padded /\ ~call.continues /\ QuadComplete(i)}
TextEnd == IF LenientRoute /\ Stops # {} THEN CHOOSE i \in Stops : \A j \in Stops : i <= j
           ELSE Len(text)

Symbols == {i \in 1 .. TextEnd : IsSymbol(text[i])}
Kept == [k \in 1 .. Cardinality(Symbols) |->
           StandardByte(Value(text[CHOOSE i \in Symbols : Cardinality(SymbolsAt(i)) = k]))]

StrictlyValid ==
  LET n == Cardinality(Symbols)
      stray == {i \in DOMAIN text : Value(text[i]) = INVALID /\ (text[i] # Equals \/ ~policy.padded)}
      after == IF n = 0 THEN 0 ELSE LastOf(Symbols)
  IN  /\ stray = {} /\ n % 4 # 1
      /\ Value(Equals) = INVALID => \A i \in EqualsAt(Len(text)) : i > after
      /\ policy.padded =>
           LET pads == PaddingAfter(after, Len(text))
           IN  IF IsIgnored(Equals) THEN pads >= ExpectedPadding(n) ELSE pads = ExpectedPadding(n)

LenientlyValid ==
  LET n == Cardinality(Symbols)
  IN  /\ n % 4 # 1
      /\ policy.padded /\ n % 4 # 0 => QuadComplete(TextEnd)

Valid == (IF policy.strict THEN StrictlyValid ELSE LenientlyValid) /\ ~PartialBits(TextEnd)

(* Every route, sink and pass agrees with that: runs and single symbols,   *)
(* translated or by the table, staged or direct, in one pass or in two.    *)
(* A decode fails exactly when the text is not valid under its policy, and *)
(* otherwise gives the bytes of its symbols. What is valid for a lenient   *)
(* decode is what the code and CPython say: it may discard any byte. The   *)
(* documentation says otherwise of a decode with characters to ignore:     *)
(* "hashcodecs then limits discarded bytes to `ignorechars`"               *)
(* (docs/base64.md:37), "Bytes permitted outside the alphabet in lenient   *)
(* mode" (_hashcodecs.pyi:164).                                            *)
ResultIsReference ==
  pc = "done" => /\ error <=> ~Valid
                 /\ ~error => output = Decoded(Kept)

(* The unchecked pass over a validated input cannot fail, and a pass that  *)
(* succeeds writes as much as was counted or computed before               *)
(* (debug_assert_eq!(written, required)).                                  *)
PassesAgree ==
  pc = "done" /\ writes /\ call.mode # "allocating" =>
    /\ error => checked
    /\ ~error => Len(output) = capacity

(* No byte after the reserved or required length is stored to, even by a   *)
(* decode that fails ("This bounds even partial writes on malformed        *)
(* input", decoded_len_upper_bound).                                       *)
WithinCapacity == writes => reach <= capacity

(* Every decode ends.                                                      *)
Terminates == <>(pc \in {"done", "tooSmall"})
=============================================================================
