--------------------------- MODULE Murmur3Stream ---------------------------
(***************************************************************************)
(* What the Python classes murmur3_x86_32, murmur3_x86_128 and             *)
(* murmur3_x64_128 promise: a hasher is the message it has been given, an  *)
(* update appends to it at one instant, a digest is the one-shot hash of   *)
(* the whole message, a copy is independent of its original, and a call    *)
(* that raises changes no hasher.                                          *)
(***************************************************************************)
EXTENDS BlockBuffer

CONSTANTS Hashers, Frames

VARIABLES
  live,    (* the hashers Python code can reach                            *)
  message, (* the message of each of them                                  *)
  result   (* what the last call of each frame returned or raised          *)

vars == <<live, message, result>>

None == [kind |-> "none"]
Raised(what) == [kind |-> what]
Digest(m) == [kind |-> "digest", digest |-> OneShot(m)]

Init ==
  /\ live = {}
  /\ message = [h \in Hashers |-> <<>>]
  /\ result = [t \in Frames |-> None]

Begin(t) ==
  /\ result' = [result EXCEPT ![t] = None]
  /\ UNCHANGED <<live, message>>

Create(h, m) ==
  /\ h \notin live
  /\ live' = live \union {h}
  /\ message' = [message EXCEPT ![h] = m]
  /\ UNCHANGED result

Absorb(h, m) ==
  /\ h \in live
  /\ message' = [message EXCEPT ![h] = @ \o m]
  /\ UNCHANGED <<live, result>>

Observe(t, h) ==
  /\ h \in live
  /\ result' = [result EXCEPT ![t] = Digest(message[h])]
  /\ UNCHANGED <<live, message>>

Copy(h, new) ==
  /\ h \in live
  /\ Create(new, message[h])

Raise(t, what) ==
  /\ result' = [result EXCEPT ![t] = Raised(what)]
  /\ UNCHANGED <<live, message>>

(* One call of update appends one input, a sequence of some length.        *)
CONSTANT Inputs

Next ==
  \/ \E t \in Frames : Begin(t)
  \/ \E h \in Hashers, m \in Inputs \union {<<>>} : Create(h, m)
  \/ \E h \in Hashers, m \in Inputs : Absorb(h, m)
  \/ \E t \in Frames, h \in Hashers : Observe(t, h)
  \/ \E h, new \in Hashers : Copy(h, new)
  \/ \E t \in Frames, what \in {"Already borrowed", "TypeError"} : Raise(t, what)

Spec == Init /\ [][Next]_vars
=============================================================================
