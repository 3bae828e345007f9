-------------------------- MODULE MCDecodeAttempts -------------------------
(* Texts that each route accepts, repairs or refuses: partial quads with   *)
(* and without bits left, padding early and late, legacy characters in     *)
(* both orders, noise at the edges and in the middle of a long text.       *)
EXTENDS DecodeAttempts

MCDetachThreshold == 8
MCEdge == 2

Texts ==
  {<<>>, <<"A">>, <<"=">>, <<"A", "A">>, <<"A", "B">>, <<"-", "A">>, <<"A", "-">>, <<"+", "A">>, <<"/", "A">>,
   <<"A", "A", "=">>, <<"A", "B", "A">>, <<"A", "A", "B">>, <<"A", "A", "!">>, <<"!", "A", "A">>,
   <<"A", "A", "=", "=">>, <<"A", "B", "=", "=">>, <<"A", "-", "=", "=">>, <<"-", "+", "=", "=">>,
   <<"A", "A", "A", "=">>, <<"A", "A", "B", "=">>, <<"A", "=", "=", "=">>, <<"A", "=", "A", "A">>,
   <<"A", "B", "A", "B">>, <<"/", "+", "A", "A">>, <<"+", "/", "-", "A">>, <<"A", "A", "A", "!">>,
   <<"=", "A", "A", "A">>, <<"A", "A", "A", "A", "=">>, <<"A", "A", "A", "A", "A">>,
   <<"A", "A", "!", "=", "=">>, <<"A", "B", "A", "B", "A", "A">>, <<"A", "A", "-", "A", "A", "/">>,
   <<"A", "A", "=", "=", "A", "A", "A">>, <<"A", "A", "A", "A", "A", "!", "A", "A">>,
   <<"A", "A", "A", "A", "A", "A", "=", "=">>, <<"A", "A", "A", "A", "A", "B", "=", "=">>,
   <<"!", "A", "A", "A", "A", "A", "=", "=">>, <<"A", "A", "A", "A", "!", "B", "A", "A">>,
   <<"A", "A", "=", "=", "A", "A", "A", "A">>, <<"/", "A", "A", "A", "+", "A", "A", "A">>,
   <<"A", "A", "A", "A", "/", "A", "A", "=", "=">>}

Python(api, continue) == [api |-> api, continue |-> continue]
Pythons == {Python("legacy", FALSE), Python("strict", FALSE), Python("strict", TRUE), Python("padding", TRUE)}

(* New bytes, or a bytearray with room for nothing, some or everything.    *)
Outputs == {<<"bytes", 0>>} \cup {<<"bytearray", r>> : r \in {0, 1, 3, 6}}

(* What Python can be asked: translation and a raised warning only where   *)
(* the call can come to them.                                              *)
Options ==
  {o \in [altchars : AltcharKinds, strict : BOOLEAN, padded : BOOLEAN, canonical : BOOLEAN,
          noIgnored : BOOLEAN, python : Pythons, translated : BOOLEAN, raises : BOOLEAN] :
     /\ o.translated => o.altchars # "none" /\ ~o.noIgnored /\ o.python.api # "strict"
     /\ o.raises => o.altchars # "none" /\ ~o.noIgnored /\ o.python.api = "padding"}

(* Older versions of Python ignore padded=False when the native decoder    *)
(* fails: MCDecodeAttemptsUnpadded.cfg shows those calls.                  *)
Ignored(o) == ~o.strict /\ ~o.canonical /\ ~o.noIgnored /\ ~o.padded /\ ~o.python.continue

Call(t, o, out) ==
  [input |-> t, altchars |-> o.altchars, strict |-> o.strict, padded |-> o.padded,
   canonical |-> o.canonical, noIgnored |-> o.noIgnored, python |-> o.python,
   translated |-> o.translated, raises |-> o.raises, target |-> out[1], room |-> out[2]]

MCCalls ==
  {Call(t, o, out) : t \in Texts, o \in {p \in Options : ~Ignored(p)}, out \in Outputs}
    \cup {Call(t, o, out) : t \in {u \in Texts : "=" \notin Range(u)},
                           o \in {p \in Options : Ignored(p)}, out \in Outputs}

UnpaddedCalls ==
  {Call(t, o, out) : t \in Texts, out \in Outputs,
                     o \in {p \in Options : Ignored(p) /\ p.altchars = "none"}}
=============================================================================
