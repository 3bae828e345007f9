------------------------ MODULE MCConfiguredDecode -------------------------
(* Bytes for every role: the symbols A, E, + and / of the standard         *)
(* alphabet, with and without bits that a partial quad must not have, the  *)
(* symbol - of other alphabets, padding, and noise.                        *)
EXTENDS ConfiguredDecode

MCByte == {"A", "E", "+", "/", "-", "=", "!"}
MCStandard == {"A", "E", "+", "/"}
MCAlphanumeric == {"A", "E"}
MCStandardValue == "A" :> 0 @@ "E" :> 4 @@ "+" :> 62 @@ "/" :> 63

NoAltchars == <<>>
AltcharsSet == {NoAltchars, <<"-", "/">>, <<"/", "+">>, <<"-", "=">>, <<"A", "-">>, <<"-", "-">>}
NoAlphabet == <<>>
Permuted == "-" :> 0 @@ "A" :> 4 @@ "+" :> 62 @@ "!" :> 63
Extended == "A" :> 0 @@ "E" :> 4 @@ "-" :> 62 @@ "=" :> 63
IgnoredSets == {{}, {"!"}, {"="}, {"!", "-", "+"}, {"!", "-", "+", "="}}

(* Policies of the configured route, and of strict attempts with           *)
(* alternative characters.                                                 *)
Policy(altchars, alphabet, ignored, specified, padded_, strict, canonical) ==
  [altchars |-> altchars, alphabet |-> alphabet, ignored |-> ignored,
   ignorecharsSpecified |-> specified, padded |-> padded_, strict |-> strict,
   canonical |-> canonical]

Configured ==
  {Policy(a, NoAlphabet, i, TRUE, p, s, c) :
     a \in AltcharsSet, i \in IgnoredSets, p \in BOOLEAN, s \in BOOLEAN, c \in BOOLEAN}
  \union {Policy(NoAltchars, a, i, TRUE, p, s, c) :
     a \in {Permuted, Extended}, i \in IgnoredSets, p \in BOOLEAN, s \in BOOLEAN, c \in BOOLEAN}
  \union {Policy(a, NoAlphabet, {}, FALSE, p, s, TRUE) :
     a \in AltcharsSet, p \in BOOLEAN, s \in BOOLEAN}

StrictCustom ==
  {Policy(a, NoAlphabet, {}, FALSE, p, TRUE, FALSE) :
     a \in AltcharsSet \ {NoAltchars}, p \in BOOLEAN}

(* Only lenient decodes ask whether to go on after padding.                *)
Call(policies, modes, inputs) ==
  {c \in [policy : policies, mode : modes, input : inputs, continues : BOOLEAN] :
     c.policy.strict => ~c.continues}

Strings(bytes, lengths) == UNION {[1 .. n -> bytes] : n \in lengths}

(* Every policy meets every byte, every pair and the forms of a last quad. *)
Tails == {<<"=">>, <<"=", "=">>, <<"=", "=", "=">>, <<"=", "=", "A">>, <<"=", "A", "=">>, <<"=", "!", "=">>}
ShortInputs ==
  Strings(MCByte, 0 .. 2) \union {<<"A", b>> \o tail : b \in {"A", "E", "-"}, tail \in Tails}
  \union {<<"A", b, "=">> : b \in {"+", "A", "-", "!"}}

(* Some policies meet longer inputs, which fill the staging buffer while   *)
(* a run goes on and when it ends.                                         *)
SomePolicies ==
  {Policy(a, NoAlphabet, i, TRUE, p, s, TRUE) :
     a \in {NoAltchars, <<"-", "/">>}, i \in {{"!"}, {"=", "!"}}, p \in BOOLEAN, s \in BOOLEAN}
LongInputs ==
  Strings({"A", "!"}, 3 .. 6) \union Strings({"-", "="}, 3 .. 6)
  \union {head \o <<"A", "-", "A", "A">> \o tail : head \in Strings({"A", "!", "-"}, 0 .. 2), tail \in Tails \union Strings({"-", "!"}, 0 .. 2)}

MCPolicyCalls ==
  Call(Configured, {"allocating", "counting"}, ShortInputs)
  \union Call(SomePolicies, {"allocating", "counting"}, LongInputs)
  \union Call(StrictCustom, {"allocating", "counting", "strictInto"}, ShortInputs \union LongInputs)

(* Strict unpadded decodes of two groups of a kernel that stores before it *)
(* checks, as the NEON kernel does.                                        *)
MCKernelCalls ==
  Call({p \in Configured : p.strict /\ ~p.padded /\ ~p.ignorecharsSpecified}, {"allocating"},
       {head \o tail : head \in Strings({"A"}, 4 .. 8), tail \in Tails})
=============================================================================
