--------------------------- MODULE DecodeAttempts --------------------------
(***************************************************************************)
(* The order of attempts of one decode (PreparedDecoder,                   *)
(* src/src/bindings/base64/decode.rs, over the routes of policy.rs): native*)
(* decoders that may fail after they wrote, then CPython's binascii, all   *)
(* into one output, and the warning about legacy characters.               *)
(*                                                                         *)
(* A and B are letters, A with no bits that a partial quad must not have;  *)
(* "-" is an alternative character, "!" is noise. A cell of the output     *)
(* holds the positions of the two symbols its byte is made of.             *)
(***************************************************************************)
EXTENDS BinasciiRules

CONSTANTS
  Calls,           (* input, altchars, strict, padded, canonical, noIgnored, *)
                   (* translated, target, room, python, raises               *)
  DetachThreshold, (* BASE64_DETACH_THRESHOLD                                *)
  Edge             (* the bytes at each end that are inspected, 64           *)

Standard == {"A", "B", "+", "/"}
Byte == Standard \cup {"-", "=", "!"}
AltcharKinds == {"none", "urlsafe", "custom", "plus"}

ASSUME DecodeAttemptsAssumption ==
  /\ Edge \in Nat /\ DetachThreshold \in Nat /\ Edge <= DetachThreshold
  /\ \A c \in Calls :
       /\ c.input \in Seq(Byte) /\ c.altchars \in AltcharKinds /\ c.room \in Nat
       /\ {c.strict, c.padded, c.canonical, c.noIgnored, c.translated, c.raises} \subseteq BOOLEAN
       /\ c.target \in {"bytes", "bytearray"}
       /\ c.python \in [api : {"legacy", "strict", "padding"}, continue : BOOLEAN]
       /\ c.translated => c.altchars # "none" /\ ~c.noIgnored

VARIABLES
  call, pc,
  target,   (* what the attempts decode into                               *)
  warning,  (* the byte to warn about: not looked for yet, none, or it     *)
  next,     (* the attempt that is next                                    *)
  value,    (* the positions of the symbols of a decoded value             *)
  output,   (* the bytearray                                               *)
  warned,   (* the byte that the call warned about                         *)
  result

vars == <<call, pc, target, warning, next, value, output, warned, result>>

Old == <<0, 0>>
Junk == <<0, 1>>
----------------------------------------------------------------------------
(* What b64decode_with prepared: an input of another type is translated by *)
(* Python, and its alternative characters are forgotten.                   *)
New == call.python.api = "padding"
Altchars(kind) == CASE kind = "none" -> {} [] kind = "plus" -> {"-", "+"} [] OTHER -> {"-"}

input ==
  [p \in DOMAIN call.input |->
     IF call.translated /\ call.input[p] = "-" THEN "+" ELSE call.input[p]]
altchars == IF call.translated THEN "none" ELSE call.altchars

(* The alphabets of strict_decoder and the lenient tables, of UrlSafe, and *)
(* of a configured decoder, exclusive once ignorechars are given.          *)
Own == Standard \cup Altchars(altchars)
UrlSafe == {"A", "B", "-"}
ConfiguredAlphabet ==
  IF call.noIgnored /\ altchars # "none" THEN {"A", "B"} \cup Altchars(altchars) ELSE Own

(* select_route.                                                           *)
Configured == call.noIgnored \/ call.canonical
StandardStrict ==
  altchars = "none" /\ call.padded /\ (call.canonical \/ call.noIgnored)
CanonicalUnpadded == ~call.noIgnored /\ call.canonical /\ ~call.padded
Urlsafe315 == New /\ altchars = "urlsafe"
Direct == altchars \in {"none", "urlsafe"}

(* legacy_altchar_badchar, over the input that was not translated.         *)
BadBytes == {"+", "/"} \ Altchars(call.altchars)
FirstBadByte(text) ==                                                     (* faulty *)
  LET bad == Where(text, 0, Len(text), BadBytes)
  IN  IF bad = {} THEN "none" ELSE text[Min(bad)]
LegacyByte(text) ==
  LET bad == Where(text, 0, Len(text), BadBytes)
      first == text[Min(bad)]
  IN  IF bad = {} THEN "none"
      ELSE IF first = "/" /\ "+" \in BadBytes /\ Where(text, Min(bad), Len(text), {"+"}) # {}
      THEN "+" ELSE first

Warns == New /\ ~call.noIgnored /\ call.altchars # "none"
LegacyWarningByte == IF Warns THEN LegacyByte(call.input) ELSE "none"
----------------------------------------------------------------------------
(* Native decoders, as the modules about them show: Base64Decode,          *)
(* ConfiguredDecode and LenientDecode.                                     *)
AllSymbols(alphabet) == Symbols(input, alphabet, Len(input))

LayoutFails(padded) ==
  IF padded THEN Len(input) % 4 # 0
  ELSE Len(input) % 4 = 1 \/ (target = "bytearray" /\ "=" \in Range(input))
DataLen ==
  Len(input) - Cardinality({k \in 0 .. 1 : k < Len(input) /\ \A j \in 0 .. k : input[Len(input) - j] = "="})
LayoutLen(padded) == ((IF padded THEN DataLen ELSE Len(input)) * 6) \div 8

(* The last symbol of a partial quad has bits that no byte takes.          *)
PartialBits(symbols) ==
  Cardinality(symbols) % 4 \in {2, 3} /\ input[Max(symbols)] # "A"
CanonicalData ==
  DataLen % 4 \in {2, 3} => input[DataLen] \in {"A"} \cup (Byte \ Standard)

ConfiguredValue ==
  IF call.strict THEN AllSymbols(ConfiguredAlphabet)
  ELSE Kept(input, ConfiguredAlphabet, call.padded, call.python.continue)
(* Lenient decodes discard every byte that is no symbol, also when the     *)
(* characters to ignore are given (scan_lenient). The documentation says   *)
(* that only those are discarded (docs/base64.md:37).                      *)
ConfiguredFails ==
  \/ IF call.strict THEN StrictFails(input, ConfiguredAlphabet, call.padded)
     ELSE LenientFails(input, ConfiguredAlphabet, call.padded, call.python.continue)
  \/ call.canonical /\ PartialBits(ConfiguredValue)

LenientValue == Kept(input, Own, call.padded, call.python.continue)
----------------------------------------------------------------------------
(* The attempts of a route, in order.                                      *)
Try(alphabet, padded, attempt) ==
  [alphabet |-> alphabet, padded |-> padded, attempt |-> attempt]
When(condition, try) == IF condition THEN <<try>> ELSE <<>>

Default == IF call.strict THEN "Strict" ELSE "Probe"

UrlsafeTries ==
  IF ~Urlsafe315 THEN <<>>
  ELSE When(call.padded \/ ~call.strict, Try(UrlSafe, TRUE, Default))
         \o When(~call.padded, Try(UrlSafe, FALSE, Default))

(* A noisy edge of a long input rules out a padded probe.                  *)
HasEdgeNoise ==
  \E p \in (1 .. Edge) \cup (Len(input) - Edge + 1 .. Len(input)) : input[p] \notin Own \cup {"="}
ProbesPadded == Direct /\ Len(input) % 4 = 0 /\ (Len(input) < DetachThreshold \/ ~HasEdgeNoise)

OwnTries ==
  IF call.strict THEN <<Try(Own, call.padded, Default)>>
  ELSE When(ProbesPadded, Try(Own, TRUE, "Probe"))
         \o When(~call.padded, Try(Own, FALSE, Default))

ShortcutTries ==
  When(StandardStrict /\ (target = "bytes" \/ ~call.canonical \/ CanonicalData),
       Try(Own, TRUE, "Probe"))
    \o When(CanonicalUnpadded /\ Len(input) % 4 # 1 /\ (Len(input) % 4 # 0 => input[Len(input)] = "A"),
            Try(Own, FALSE, "Probe"))

Tries == IF Configured THEN ShortcutTries ELSE UrlsafeTries \o OwnTries
----------------------------------------------------------------------------
(* Cells past every room, to see writes that leave it.                     *)
Cells == 1 .. call.room + 3
Keep == output' = output
Write(symbols) ==
  output' = IF target = "bytes" THEN output
            ELSE [c \in Cells |-> IF c <= DecodedLen(symbols) THEN DecodedBytes(input, symbols)[c]
                                  ELSE output[c]]

Init ==
  /\ call \in Calls
  /\ pc = "begin" /\ target = call.target /\ warning = "pending" /\ next = 1
  /\ value = {} /\ output = [c \in Cells |-> Old] /\ warned = "none" /\ result = "none"

Return(r) == pc' = "done" /\ result' = r
Accept(symbols) == pc' = "finish" /\ value' = symbols

(* decode_allocating scans for the warning when it must; decode_into at    *)
(* once, and a call that will warn decodes into new bytes first.           *)
Begin ==
  /\ pc = "begin" /\ pc' = "tries"
  /\ warning' = IF target = "bytearray" \/ (call.translated /\ New) THEN LegacyWarningByte
                ELSE "pending"
  /\ target' = IF warning' \in BadBytes THEN "bytes" ELSE target
  /\ UNCHANGED <<call, next, value, output, warned, result>>

(* Successful URL-safe validation excludes legacy bytes; after those tries *)
(* and before all others the scan is made.                                 *)
ScanWarning ==
  /\ pc = "tries" /\ warning = "pending"
  /\ Configured \/ (next > Len(UrlsafeTries))
  /\ warning' = LegacyWarningByte
  /\ UNCHANGED <<call, pc, target, next, value, output, warned, result>>

Current == Tries[next]
Trying ==
  /\ pc = "tries" /\ next <= Len(Tries)
  /\ warning = "pending" => ~Configured /\ next <= Len(UrlsafeTries)
TooSmall(padded) == target = "bytearray" /\ call.room < LayoutLen(padded)

TrySucceeds ==
  /\ Trying /\ ~LayoutFails(Current.padded) /\ ~TooSmall(Current.padded)
  /\ ~StrictFails(input, Current.alphabet, Current.padded)
  /\ Write(AllSymbols(Current.alphabet))
  /\ IF StandardStrict /\ call.canonical /\ ~CanonicalData
     THEN Return("invalid") /\ UNCHANGED value
     ELSE Accept(AllSymbols(Current.alphabet)) /\ UNCHANGED result
  /\ UNCHANGED <<call, target, warning, next, warned>>

(* A probe that fails wrote a number of valid quads, a strict attempt      *)
(* anything within the length it checked.                                  *)
ErrorWritesAny(attempt) == "MayWrite"                                     (* faulty *)
ErrorWrites(attempt) == IF attempt = "Probe" THEN "ValidatedPrefix" ELSE "MayWrite"

GoodQuads(alphabet) ==
  LET bad == {p \in DOMAIN input : input[p] \notin alphabet}
  IN  (IF bad = {} THEN Len(input) ELSE Min(bad) - 1) \div 4

WrittenByFailure ==
  \/ \E quads \in 0 .. GoodQuads(Current.alphabet) : Write(1 .. quads * 4)
  \/ /\ target = "bytearray" /\ ErrorWrites(Current.attempt) = "MayWrite"
     /\ output' = [c \in Cells |-> IF c <= LayoutLen(Current.padded) THEN Junk ELSE output[c]]

TryFails ==
  /\ Trying
  /\ \/ LayoutFails(Current.padded) /\ Keep
     \/ /\ ~LayoutFails(Current.padded) /\ ~TooSmall(Current.padded)
        /\ StrictFails(input, Current.alphabet, Current.padded)
        /\ WrittenByFailure
  /\ next' = next + 1
  /\ UNCHANGED <<call, pc, target, warning, value, warned, result>>

(* DecodeAttempt::accept: a probe leaves it to the next decoder to report. *)
TryTooSmall ==
  /\ Trying /\ ~LayoutFails(Current.padded) /\ TooSmall(Current.padded)
  /\ IF Current.attempt = "Strict" THEN Return("too small") /\ UNCHANGED next
     ELSE next' = next + 1 /\ UNCHANGED <<pc, result>>
  /\ UNCHANGED <<call, target, warning, value, output, warned>>

Exhausted == pc = "tries" /\ next > Len(Tries) /\ warning # "pending"

(* The configured decoder measures a bytearray before it writes.           *)
TryConfigured ==
  /\ Exhausted /\ Configured
  /\ IF ConfiguredFails
     THEN /\ IF New THEN pc' = "fallback" /\ UNCHANGED result ELSE Return("invalid")
          /\ UNCHANGED <<value, output>>
     ELSE IF target = "bytearray" /\ call.room < DecodedLen(ConfiguredValue)
     THEN Return("too small") /\ UNCHANGED <<value, output>>
     ELSE Accept(ConfiguredValue) /\ Write(ConfiguredValue) /\ UNCHANGED result
  /\ UNCHANGED <<call, target, warning, next, warned>>

(* The lenient decoder too, unless there is room for every byte.           *)
TryLenient ==
  /\ Exhausted /\ ~Configured /\ ~call.strict
  /\ IF LenientFails(input, Own, call.padded, call.python.continue)
     THEN /\ IF call.room < LayoutLen(TRUE) THEN Keep ELSE Write(LenientValue)
          /\ pc' = "fallback" /\ UNCHANGED <<value, result>>
     ELSE IF target = "bytearray" /\ call.room < DecodedLen(LenientValue)
     THEN Return("too small") /\ UNCHANGED <<value, output>>
     ELSE Accept(LenientValue) /\ Write(LenientValue) /\ UNCHANGED result
  /\ UNCHANGED <<call, target, warning, next, warned>>

EndStrict ==
  /\ Exhausted /\ ~Configured /\ call.strict
  /\ pc' = "fallback"
  /\ UNCHANGED <<call, target, warning, next, value, output, warned, result>>
----------------------------------------------------------------------------
(* binascii.a2b_base64 of three generations: one that knows no strict mode *)
(* is given only what looks strict, one that knows no padding mode expects *)
(* padding.                                                                *)
LooksStrict ==
  LET end == Min({Len(input) + 1} \cup Where(input, 0, Len(input), {"="}))
  IN  /\ \A p \in DOMAIN input : IF p < end THEN input[p] \in Own ELSE input[p] = "="
      /\ Len(input) - end + 1 <= 2
ExpectsPadding == call.padded \/ ~New

BinasciiValue ==
  IF Configured THEN ConfiguredValue ELSE Kept(input, Own, ExpectsPadding, call.python.continue)
BinasciiFails ==
  IF Configured THEN ConfiguredFails
  ELSE IF call.strict /\ call.python.api # "legacy" THEN StrictFails(input, Own, ExpectsPadding)
  ELSE \/ call.strict /\ ~LooksStrict
       \/ LenientFails(input, Own, ExpectsPadding, call.python.continue)

Fallback ==
  /\ pc = "fallback"
  /\ IF BinasciiFails THEN Return("invalid") /\ UNCHANGED <<value, output>>
     ELSE IF target = "bytearray" /\ call.room < DecodedLen(BinasciiValue)
     THEN Return("too small") /\ UNCHANGED <<value, output>>
     ELSE Accept(BinasciiValue) /\ Write(BinasciiValue) /\ UNCHANGED result
  /\ UNCHANGED <<call, target, warning, next, warned>>

(* finish: a warning may be turned into an exception. Then the bytes that  *)
(* a call into a bytearray decoded because of it are copied.               *)
Finish ==
  /\ pc = "finish"
  /\ warned' = IF warning \in BadBytes THEN warning ELSE "none"
  /\ IF warned' # "none" /\ call.raises THEN Return("warning") ELSE pc' = "copy" /\ UNCHANGED result
  /\ UNCHANGED <<call, target, warning, next, value, output>>

Copy ==
  /\ pc = "copy"
  /\ IF target = call.target THEN Return("ok") /\ UNCHANGED output
     ELSE IF call.room < DecodedLen(value) THEN Return("too small") /\ UNCHANGED output
     ELSE /\ output' = [c \in Cells |-> IF c <= DecodedLen(value) THEN DecodedBytes(input, value)[c]
                                        ELSE output[c]]
          /\ Return("ok")
  /\ UNCHANGED <<call, target, warning, next, value, warned>>

Step ==
  \/ Begin \/ ScanWarning \/ TrySucceeds \/ TryFails \/ TryTooSmall
  \/ TryConfigured \/ TryLenient \/ EndStrict \/ Fallback \/ Finish \/ Copy

Next == Step \/ (pc = "done" /\ UNCHANGED vars)

Spec == Init /\ [][Next]_vars
----------------------------------------------------------------------------
(* What a call promises. CPython decides wherever its binascii knows the   *)
(* options of the call; where it does not, the options do, and binascii    *)
(* only of what they refuse.                                               *)
Backported == ~New /\ (Configured \/ ~call.padded)
NativeFails ==
  IF Configured THEN ConfiguredFails
  ELSE IF call.strict THEN StrictFails(input, Own, call.padded)
  ELSE LenientFails(input, Own, call.padded, call.python.continue)
NativeValue == IF Configured THEN ConfiguredValue
               ELSE IF call.strict THEN AllSymbols(Own) ELSE LenientValue

Refused == IF Backported THEN NativeFails /\ (Configured \/ BinasciiFails) ELSE BinasciiFails
Promised == IF Backported /\ ~NativeFails THEN NativeValue ELSE BinasciiValue

PlusThenSlash ==
  IF ~Warns THEN "none"
  ELSE IF "+" \in Range(call.input) \cap BadBytes THEN "+"
  ELSE IF "/" \in Range(call.input) \cap BadBytes THEN "/" ELSE "none"

(* However many attempts there were and whichever of them succeeded, the   *)
(* call ends as the first of them alone would have: the same value or the  *)
(* same error, and the warning that a scan before all of them would have   *)
(* asked for ("Successful URL-safe validation also excludes legacy warning *)
(* bytes", decode.rs), given exactly when the input is decoded. This is    *)
(* about attempts: which bytes a lenient decode discards is the native     *)
(* decoders' answer (see ConfiguredFails), not the documentation's.        *)
OutcomeIsReference ==
  pc = "done" =>
    IF Refused
    THEN warned = "none" /\ (result = "invalid" \/ (result = "too small" /\ call.strict))
    ELSE IF call.target = "bytearray" /\ call.room < DecodedLen(Promised)
    THEN result \in (IF warned # "none" /\ call.raises THEN {"warning"} ELSE {"too small"})
    ELSE /\ warned = PlusThenSlash
         /\ result = IF warned # "none" /\ call.raises THEN "warning" ELSE "ok"
         /\ DecodedBytes(input, value) = DecodedBytes(input, Promised)

(* "Bytes after the returned length are left unchanged" (docs/base64.md):  *)
(* whatever attempts failed before, only the value was written.            *)
SuffixUntouched ==
  pc = "done" /\ result = "ok" /\ call.target = "bytearray" =>
    \A c \in Cells : c > DecodedLen(value) => output[c] = Old

(* That, and the value itself; and a call that finds the bytearray too     *)
(* small, or whose warning is raised, has not touched it, whatever it      *)
(* tried before it noticed.                                                *)
OutputAsPromised ==
  /\ SuffixUntouched
  /\ pc = "done" /\ result = "ok" /\ call.target = "bytearray" =>
       \A c \in 1 .. DecodedLen(value) : output[c] = DecodedBytes(input, value)[c]
  /\ pc = "done" /\ result \in {"too small", "warning"} => \A c \in Cells : output[c] = Old
=============================================================================
