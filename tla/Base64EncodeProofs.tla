------------------------ MODULE Base64EncodeProofs -------------------------
(* Proofs about the core encoder, for every length, machine and address.   *)
EXTENDS Base64Encode, TLAPS

Backends == {"avx512", "avx2", "sse41", "ssse3", "neon", "scalar"}

(* select_backend finds a backend, and the CPU has all it needs.           *)
LEMMA SelectedIsSupported ==
  ASSUME NEW features
  PROVE  /\ SelectBackend(features) \in Backends
         /\ Required[SelectBackend(features)] \subseteq features
<1> DEFINE Supported(i) == Required[Preference[i]] \subseteq features
           First(i) == i \in 1 .. 6 /\ Supported(i) /\ \A j \in 1 .. i - 1 : ~Supported(j)
<1>1. Supported(6)
  BY DEF Required, Preference
<1>2. \E i \in 1 .. 6 : Supported(i) /\ \A j \in 1 .. i - 1 : ~Supported(j)
  <2> HIDE DEF Supported
  <2>1. CASE Supported(1)
    BY <2>1
  <2>2. CASE ~Supported(1) /\ Supported(2)
    BY <2>2
  <2>3. CASE ~Supported(1) /\ ~Supported(2) /\ Supported(3)
    BY <2>3
  <2>4. CASE ~Supported(1) /\ ~Supported(2) /\ ~Supported(3) /\ Supported(4)
    BY <2>4
  <2>5. CASE ~Supported(1) /\ ~Supported(2) /\ ~Supported(3) /\ ~Supported(4) /\ Supported(5)
    BY <2>5
  <2>6. CASE \A i \in 1 .. 5 : ~Supported(i)
    BY <1>1, <2>6
  <2> QED
    BY <2>1, <2>2, <2>3, <2>4, <2>5, <2>6
<1> DEFINE i == CHOOSE k \in 1 .. 6 : Supported(k) /\ \A j \in 1 .. k - 1 : ~Supported(j)
<1>3. i \in 1 .. 6 /\ Supported(i)
  <2> HIDE DEF Supported
  <2> QED
    BY <1>2
<1>4. SelectBackend(features) = Preference[i]
  BY DEF SelectBackend
<1> HIDE DEF i
<1>5. Preference[i] \in Backends
  BY <1>3 DEF Preference, Backends
<1> QED
  BY <1>3, <1>4, <1>5

Kernels == {"scalar", "ssse3", "avx2", "avx512", "neon"}

(* The kernel a call runs is supported, and has as much input as its first *)
(* vector needs.                                                           *)
LEMMA KernelIsSupported ==
  ASSUME call \in Calls, machine \in Machines
  PROVE  /\ KernelFor \in Kernels
         /\ Required[KernelFor] \subseteq machine.features
         /\ KernelFor = "avx2" => call.length >= 32
         /\ KernelFor = "avx512" => call.length >= 48
<1>1. Backend \in Backends /\ Required[Backend] \subseteq machine.features
  BY SelectedIsSupported DEF Backend
<1>2. call.length \in Nat
  BY Base64EncodeAssumption
<1>3. KernelFor \in {"scalar", "ssse3", "avx2", Backend}
      /\ (KernelFor = Backend => Backend # "sse41")
  BY <1>1, <1>2 DEF KernelFor, Backends
<1>4. KernelFor = "ssse3" => Backend \in {"avx512", "avx2", "sse41", "ssse3"}
  BY <1>1, <1>2 DEF KernelFor, Backends
<1>5. KernelFor = "avx2" => Backend \in {"avx512", "avx2"} /\ call.length >= 32
  BY <1>1, <1>2 DEF KernelFor, Backends
<1>6. KernelFor = "avx512" => call.length >= 48
  BY <1>1, <1>2 DEF KernelFor, Backends
<1>7. KernelFor \in Kernels
  BY <1>1, <1>3 DEF Backends, Kernels
<1>8. Required[KernelFor] \subseteq machine.features
  <2>1. CASE KernelFor = "scalar"
    BY <2>1 DEF Required
  <2>2. CASE KernelFor = "ssse3"
    <3>1. "ssse3" \in Required[Backend]
      BY <1>4, <2>2 DEF Required
    <3>2. Required["ssse3"] = {"ssse3"}
      BY DEF Required
    <3> QED
      BY <1>1, <2>2, <3>1, <3>2
  <2>3. CASE KernelFor = "avx2"
    <3>1. Required["avx2"] \subseteq Required[Backend]
      BY <1>5, <2>3 DEF Required
    <3> QED
      BY <1>1, <2>3, <3>1
  <2>4. CASE KernelFor = Backend
    BY <1>1, <2>4
  <2> QED
    BY <1>3, <2>1, <2>2, <2>3, <2>4
<1> QED
  BY <1>5, <1>6, <1>7, <1>8
----------------------------------------------------------------------------
USE DEF Old, Pad

(* What a loop's turn takes: whole groups of three, within its reach.      *)
LEMMA TurnFacts ==
  ASSUME IInv, Running
  PROVE  /\ phase \in 1 .. 4
         /\ Turn.again \in BOOLEAN
         /\ Turn.behind \in {0, 4} /\ source - Turn.behind >= 0
         /\ Turn.lanes * Turn.step \in {12, 24, 48, 96, 192}
         /\ Turn.lanes * Turn.step <= Turn.reach - Turn.behind
         /\ (Turn.lanes - 1) * Turn.step + Turn.load \in 0 .. Turn.reach
         /\ Turn.reach \in Nat
         /\ kernel = "avx512" => Turn.again /\ phase \in 1 .. 2
         /\ kernel = "avx512" /\ phase = 2 => Turn.reach = 48 /\ Turn.behind = 0
         /\ kernel = "avx2" /\ phase = 1 =>
              ~Turn.again /\ Turn.reach = 32 /\ Turn.behind = 0 /\ Turn.lanes * Turn.step = 24
         /\ kernel = "avx2" /\ phase # 1 => source >= 24
<1>1. kernel \in Kernels /\ pc = "kernel" /\ phase \in DOMAIN Phases /\ phase \in 1 .. 5
      /\ source \in Nat
  BY Base64EncodeAssumption DEF IInv, TypeInv, Running, Kernels
<1>2. kernel # "scalar" /\ (kernel = "avx2" /\ phase > 1 => source >= 24)
  BY <1>1 DEF IInv, LoopInv
<1>3. CASE kernel = "ssse3"
  <2>1. phase \in 1 .. 2
    BY <1>1, <1>3 DEF Phases, Ssse3Loops
  <2>2. Turn = IF phase = 1 THEN Loop(52, 4, 12, 16, 0) ELSE Loop(16, 1, 12, 16, 0)
    BY <1>3, <2>1 DEF Turn, Phases, Ssse3Loops
  <2> QED
    BY <1>1, <1>3, <2>1, <2>2 DEF Loop
<1>4. CASE kernel = "avx2"
  <2>1. phase \in 1 .. 4
    BY <1>1, <1>4 DEF Phases, Avx2Loops
  <2>2. Turn = IF phase = 1 THEN Once(32, 1, 24, 32, 0)
               ELSE IF phase = 2 THEN Loop(104, 4, 24, 32, 4)
               ELSE IF phase = 3 THEN Loop(32, 1, 24, 32, 4)
               ELSE Once(16, 1, 12, 16, 0)
    BY <1>4, <2>1 DEF Turn, Phases, Avx2Loops, Group96
  <2> QED
    BY <1>1, <1>2, <1>4, <2>1, <2>2 DEF Loop, Once
<1>5. CASE kernel = "avx512"
  <2>1. phase \in 1 .. 2
    BY <1>1, <1>5 DEF Phases, Avx512Loops
  <2>2. Turn = IF phase = 1 THEN Loop(192, 4, 48, 48, 0) ELSE Loop(48, 1, 48, 48, 0)
    BY <1>5, <2>1 DEF Turn, Phases, Avx512Loops
  <2> QED
    BY <1>1, <1>5, <2>1, <2>2 DEF Loop
<1>6. CASE kernel = "neon"
  <2>1. phase \in 1 .. 3
    BY <1>1, <1>6 DEF Phases, NeonLoops
  <2>2. Turn = IF phase = 1 THEN Loop(192, 4, 48, 48, 0)
               ELSE IF phase = 2 THEN Loop(48, 1, 48, 48, 0)
               ELSE Once(24, 1, 24, 24, 0)
    BY <1>6, <2>1 DEF Turn, Phases, NeonLoops
  <2> QED
    BY <1>1, <1>6, <2>1, <2>2 DEF Loop, Once
<1> QED
  BY <1>1, <1>2, <1>3, <1>4, <1>5, <1>6 DEF Kernels

(* A store of whole groups at the destination extends the text by exactly  *)
(* their symbols, whatever is still pending before it.                     *)
LEMMA StoreExtendsText ==
  ASSUME IInv, pc # "done",
         NEW b \in Nat, b % 3 = 0, source + b <= call.length,
         output' = Stored(b), Advance(b), pending' = pending,
         UNCHANGED choice
  PROVE  /\ source' \in 0 .. call.length /\ source' % 3 = 0
         /\ destination' = (source' \div 3) * 4 /\ destination' >= destination
         /\ output' = [c \in Cells |-> IF c < destination' /\ ~Covered(c)' THEN c ELSE Old]
<1>1. /\ source \in Nat /\ source % 3 = 0 /\ destination = (source \div 3) * 4
      /\ call.length \in Nat
  BY Base64EncodeAssumption DEF IInv, TypeInv
<1>2. /\ source' = source + b /\ destination' = destination + (b \div 3) * 4
  BY DEF Advance
<1>3. /\ source' \in 0 .. call.length /\ source' % 3 = 0
      /\ destination' = (source' \div 3) * 4 /\ destination' >= destination
      /\ destination \in Nat /\ destination' \in Nat
  BY <1>1, <1>2
<1>4. output = [c \in Cells |-> IF c < destination /\ ~Covered(c) THEN c ELSE Old]
  BY DEF IInv, TextInv
<1>5. \A c : Covered(c)' <=> Covered(c)
  BY DEF Covered
<1>6. Cells \subseteq Nat
  BY DEF Cells
<1>7. ASSUME NEW c \in Cells
      PROVE  output'[c] = IF c < destination' /\ ~Covered(c)' THEN c ELSE Old
  <2>0. c \in Nat /\ destination \in Nat /\ destination' \in Nat /\ destination <= destination'
    BY <1>3, <1>6
  <2>1. CASE destination <= c /\ c < destination'
    <3>1. ~Covered(c)
      BY <1>3, <2>0, <2>1 DEF IInv, TypeInv, StoresInv, Covered
    <3>2. output'[c] = c
      BY <1>1, <1>2, <1>3, <2>0, <2>1 DEF Stored
    <3> QED
      BY <1>5, <2>1, <3>1, <3>2
  <2>2. CASE ~(destination <= c /\ c < destination')
    <3>1. output'[c] = output[c]
      BY <1>2, <2>2 DEF Stored
    <3>2. output[c] = IF c < destination /\ ~Covered(c) THEN c ELSE Old
      BY <1>4
    <3>3. c < destination <=> c < destination'
      BY <2>0, <2>2
    <3>4. Covered(c)' <=> Covered(c)
      BY <1>5
    <3> QED
      BY <3>1, <3>2, <3>3, <3>4
  <2> QED
    BY <2>1, <2>2
<1>8. output' = [c \in Cells |-> output'[c]]
  BY DEF Stored
<1> QED
  BY <1>3, <1>7, <1>8
----------------------------------------------------------------------------
(* No load begins before the input or ends behind it.                      *)
LoadsFit == 0 <= loaded[1] /\ loaded[1] <= loaded[2] /\ loaded[2] <= call.length

(* What is chosen with the call stays as it is.                            *)
LEMMA ChoiceStays ==
  ASSUME UNCHANGED choice
  PROVE  /\ machine' = machine /\ call' = call /\ address' = address
         /\ KernelFor' = KernelFor /\ Cells' = Cells /\ OutputLen' = OutputLen
         /\ UseStreamingStores' <=> UseStreamingStores
<1>1. machine' = machine /\ call' = call /\ address' = address
  BY DEF choice
<1>2. KernelFor' = KernelFor
  BY <1>1 DEF KernelFor, Backend
<1>3. OutputLen' = OutputLen
  BY <1>1 DEF OutputLen
<1>4. Cells' = Cells
  BY <1>3 DEF Cells
<1>5. CachedInputLimit' = CachedInputLimit
  <2>1. PrivateCache' = PrivateCache
    BY <1>1 DEF PrivateCache, PrivateCaches
  <2> QED
    BY <1>1, <2>1 DEF CachedInputLimit
<1>6. UseStreamingStores' <=> UseStreamingStores
  BY <1>1, <1>5 DEF UseStreamingStores
<1> QED
  BY <1>1, <1>2, <1>3, <1>4, <1>6

(* The types of the offsets, unfolded.                                     *)
LEMMA OffsetFacts ==
  ASSUME IInv
  PROVE  /\ call \in Calls /\ call.length \in Nat
         /\ source \in 0 .. call.length /\ source % 3 = 0
         /\ destination = (source \div 3) * 4 /\ destination \in Nat
         /\ phase \in 1 .. 5 /\ groups \in Nat /\ address \in 0 .. 31
<1>1. /\ call \in Calls /\ source \in 0 .. call.length /\ source % 3 = 0
      /\ destination = (source \div 3) * 4 /\ phase \in 1 .. 5 /\ groups \in Nat
      /\ address \in Addresses
  BY DEF IInv, TypeInv
<1>2. call.length \in Nat /\ address \in 0 .. 31
  BY <1>1, Base64EncodeAssumption
<1>3. destination \in Nat
  BY <1>1, <1>2
<1> QED
  BY <1>1, <1>2, <1>3

(* A step that stores whole groups and leaves the pending stores alone     *)
(* keeps what the invariant says of types, stores and text.                *)
LEMMA StoringStep ==
  ASSUME IInv, pc # "done",
         NEW b \in Nat, b % 3 = 0, source + b <= call.length,
         output' = Stored(b), Advance(b), pending' = pending,
         UNCHANGED <<choice, kernel, result>>,
         pc' \in {"kernel", "groups", "scalar"}, phase' \in 1 .. 5, groups' \in Nat,
         pc' = "scalar" => pending = {}
  PROVE  TypeInv' /\ StoresInv' /\ TextInv'
<1>1. /\ source' \in 0 .. call.length /\ source' % 3 = 0
      /\ destination' = (source' \div 3) * 4 /\ destination' >= destination
      /\ output' = [c \in Cells |-> IF c < destination' /\ ~Covered(c)' THEN c ELSE Old]
  BY StoreExtendsText
<1>2. machine' = machine /\ call' = call /\ address' = address /\ Cells' = Cells
  BY ChoiceStays
<1>3. TypeInv'
  BY <1>1, <1>2 DEF IInv, TypeInv
<1>4. StoresInv'
  <2>1. ASSUME NEW s \in pending
        PROVE  s.at = s.symbol /\ s.at + 128 <= destination' /\ (address + s.at) % 32 = 0
    <3>1. s.at \in Nat /\ s.at = s.symbol /\ s.at + 128 <= destination
          /\ (address + s.at) % 32 = 0
      BY DEF IInv, TypeInv, StoresInv
    <3>2. destination \in Nat /\ destination' \in Nat /\ destination <= destination'
      BY <1>1, OffsetFacts DEF Advance
    <3> QED
      BY <3>1, <3>2
  <2> QED
    BY <1>2, <2>1 DEF IInv, StoresInv
<1>5. TextInv'
  BY <1>1, <1>2 DEF TextInv
<1> QED
  BY <1>3, <1>4, <1>5

(* A step that moves no offset and no store keeps the text.                *)
LEMMA QuietStep ==
  ASSUME IInv, UNCHANGED <<choice, offsets, pending, output>>, pc # "done",
         pc' \in {"kernel", "groups", "scalar"}, phase' \in 1 .. 5, groups' \in Nat,
         kernel' \in Kernels, result' = "none",
         pending # {} => kernel' = "avx2" /\ pc' # "scalar"
  PROVE  TypeInv' /\ StoresInv' /\ TextInv'
<1>1. /\ machine' = machine /\ call' = call /\ address' = address /\ Cells' = Cells
      /\ source' = source /\ destination' = destination /\ pending' = pending
      /\ output' = output
  BY ChoiceStays DEF offsets
<1>2. TypeInv'
  BY <1>1 DEF IInv, TypeInv, Kernels
<1>3. StoresInv'
  BY <1>1 DEF IInv, StoresInv
<1>4. TextInv'
  BY <1>1 DEF IInv, TextInv, Covered
<1> QED
  BY <1>2, <1>3, <1>4
----------------------------------------------------------------------------
(* What each action keeps.                                                 *)
LEMMA RefuseKeeps ==
  ASSUME IInv, LoadsFit, Refuse
  PROVE  IInv' /\ LoadsFit'
<1>1. /\ machine' = machine /\ call' = call /\ address' = address /\ KernelFor' = KernelFor
  BY ChoiceStays DEF Refuse
<1>2. /\ pc = "begin" /\ pc' = "done" /\ result' = "too small" /\ pending = {} /\ pending' = {}
      /\ kernel' = kernel /\ phase' = phase /\ groups' = groups /\ loaded' = loaded
      /\ source' = source /\ destination' = destination
  BY DEF Refuse, offsets, IInv, StoresInv
<1>3. TypeInv'
  BY <1>1, <1>2 DEF IInv, TypeInv
<1>4. StoresInv' /\ TextInv'
  BY <1>2 DEF StoresInv, TextInv
<1>5. LoopInv'
  BY <1>1, <1>2 DEF IInv, LoopInv
<1>6. LoadsFit'
  BY <1>1, <1>2 DEF LoadsFit
<1> QED
  BY <1>3, <1>4, <1>5, <1>6 DEF IInv

LEMMA BeginKeeps ==
  ASSUME IInv, LoadsFit, Begin
  PROVE  IInv' /\ LoadsFit'
<1>1. /\ call \in Calls /\ machine \in Machines
      /\ machine' = machine /\ call' = call /\ KernelFor' = KernelFor
      /\ KernelFor \in Kernels
  BY ChoiceStays, KernelIsSupported DEF Begin, IInv, TypeInv
<1>2. /\ pc = "begin" /\ source = 0 /\ phase = 1 /\ pending = {} /\ result = "none"
      /\ kernel' = KernelFor /\ phase' = 1 /\ groups' = groups /\ source' = 0
      /\ pc' = IF KernelFor = "scalar" THEN "scalar" ELSE "kernel"
      /\ loaded' = loaded
  BY DEF Begin, offsets, IInv, TypeInv, StoresInv, LoopInv
<1>3. TypeInv' /\ StoresInv' /\ TextInv'
  BY <1>1, <1>2, QuietStep, OffsetFacts DEF Begin
<1>4. LoopInv'
  BY <1>1, <1>2 DEF LoopInv
<1>5. LoadsFit'
  BY <1>1, <1>2 DEF LoadsFit
<1> QED
  BY <1>3, <1>4, <1>5 DEF IInv

LEMMA EncodeKeeps ==
  ASSUME IInv, LoadsFit, Encode
  PROVE  IInv' /\ LoadsFit'
<1> DEFINE b == Turn.lanes * Turn.step
           from == source - Turn.behind
           load == (Turn.lanes - 1) * Turn.step + Turn.load
<1>1. /\ machine' = machine /\ call' = call /\ address' = address /\ KernelFor' = KernelFor
      /\ pc = "kernel" /\ pc' = "kernel" /\ kernel' = kernel /\ groups' = groups
      /\ result' = result /\ pending' = pending
  BY ChoiceStays DEF Encode, Running
<1>2. /\ phase \in 1 .. 4 /\ Turn.again \in BOOLEAN
      /\ Turn.behind \in {0, 4} /\ from >= 0
      /\ b \in {12, 24, 48, 96, 192} /\ b <= Turn.reach - Turn.behind
      /\ load \in 0 .. Turn.reach /\ Turn.reach \in Nat
      /\ kernel = "avx512" => Turn.again /\ phase \in 1 .. 2
      /\ kernel = "avx2" /\ phase = 1 => ~Turn.again /\ b = 24
      /\ kernel = "avx2" /\ phase # 1 => source >= 24
  BY TurnFacts DEF Encode
<1>3. /\ source \in 0 .. call.length /\ call.length \in Nat /\ groups \in Nat
  BY OffsetFacts
<1>4. /\ from + Turn.reach <= call.length
      /\ loaded' = <<from, from + load>>
      /\ output' = Stored(b) /\ Advance(b)
      /\ phase' = IF Turn.again THEN phase ELSE phase + 1
  BY DEF Encode, LoadTurn
<1> HIDE DEF b, load
<1>5. b \in Nat /\ b % 3 = 0 /\ source + b <= call.length /\ source' = source + b
  BY <1>2, <1>3, <1>4 DEF Advance
<1>6. TypeInv' /\ StoresInv' /\ TextInv'
  <2>1. phase' \in 1 .. 5 /\ groups' \in Nat /\ pc' = "kernel"
    BY <1>1, <1>2, <1>3, <1>4
  <2> QED
    BY <1>1, <1>4, <1>5, <2>1, StoringStep DEF Encode
<1>7. LoopInv'
  <2>1. kernel = KernelFor /\ kernel # "scalar" /\ kernel \in {"scalar", KernelFor}
    BY <1>1 DEF IInv, LoopInv
  <2>2. kernel = "avx2" /\ phase' = 1 => source' = 0
    BY <1>2, <1>4
  <2>3. kernel = "avx2" /\ phase' > 1 => source' >= 24
    BY <1>2, <1>3, <1>5
  <2>4. HasHelper' /\ phase' = 2 => source' = 24
    <3>1. HasHelper' <=> HasHelper
      BY <1>1 DEF HasHelper
    <3>2. HasHelper /\ phase = 1 => source = 0 /\ b = 24 /\ kernel = "avx2"
      BY <1>1, <1>2 DEF HasHelper, IInv, LoopInv
    <3>3. ~(HasHelper /\ phase = 2)
      BY DEF Encode, Helped
    <3> QED
      BY <1>2, <1>4, <1>5, <3>1, <3>2, <3>3
  <2>5. kernel = "avx512" => phase' \in 1 .. 2
    BY <1>2, <1>4
  <2> QED
    BY <1>1, <2>1, <2>2, <2>3, <2>4, <2>5 DEF LoopInv
<1>8. LoadsFit'
  BY <1>1, <1>2, <1>3, <1>4 DEF LoadsFit
<1> QED
  BY <1>6, <1>7, <1>8 DEF IInv

LEMMA EndLoopKeeps ==
  ASSUME IInv, LoadsFit, EndLoop
  PROVE  IInv' /\ LoadsFit'
<1>1. /\ machine' = machine /\ call' = call /\ KernelFor' = KernelFor
      /\ pc = "kernel" /\ pc' = "kernel" /\ kernel' = kernel /\ groups' = groups
      /\ result' = result /\ pending' = pending /\ source' = source /\ loaded' = loaded
      /\ phase' = phase + 1
  BY ChoiceStays DEF EndLoop, Running, offsets
<1>2. /\ phase \in 1 .. 4 /\ Turn.reach \in Nat
      /\ kernel = "avx512" => phase \in 1 .. 2
      /\ kernel = "avx512" /\ phase = 2 => Turn.reach = 48 /\ Turn.behind = 0
      /\ kernel = "avx2" /\ phase = 1 => Turn.reach = 32 /\ Turn.behind = 0
      /\ kernel = "avx2" /\ phase # 1 => source >= 24
  BY TurnFacts DEF EndLoop
<1>3. /\ source \in 0 .. call.length /\ call.length \in Nat /\ groups \in Nat
  BY OffsetFacts
<1>4. kernel = KernelFor /\ kernel # "scalar" /\ kernel \in Kernels /\ result = "none"
  BY <1>1 DEF IInv, TypeInv, LoopInv, Kernels
<1>5. source - Turn.behind + Turn.reach > call.length
  BY DEF EndLoop
<1>6. ~(kernel = "avx2" /\ phase = 1)
  <2>1. kernel = "avx2" /\ phase = 1 => source = 0 /\ call.length >= 32
    BY <1>1, <1>4, KernelIsSupported DEF IInv, TypeInv, LoopInv
  <2> QED
    BY <1>2, <1>3, <1>5, <2>1
<1>7. TypeInv' /\ StoresInv' /\ TextInv'
  <2>1. phase' \in 1 .. 5
    BY <1>1, <1>2
  <2>2. pending # {} => kernel' = "avx2"
    BY <1>1 DEF IInv, StoresInv
  <2> QED
    BY <1>1, <1>3, <1>4, <2>1, <2>2, QuietStep DEF EndLoop
<1>8. LoopInv'
  <2>1. kernel = "avx2" => source >= 24 /\ phase' > 2
    BY <1>1, <1>2, <1>6
  <2>2. kernel = "avx512" /\ phase' > 2 => call.length - source < 48
    BY <1>1, <1>2, <1>3, <1>5
  <2>3. HasHelper' => kernel = "avx2"
    BY <1>1 DEF HasHelper
  <2> QED
    BY <1>1, <1>4, <2>1, <2>2, <2>3 DEF LoopInv
<1>9. LoadsFit'
  BY <1>1 DEF LoadsFit
<1> QED
  BY <1>7, <1>8, <1>9 DEF IInv

(* What a helper's groups have of input.                                   *)
LEMMA GroupsFacts ==
  ASSUME NEW n \in Nat, NEW s \in Nat, call.length = n, GroupsFrom(s) >= 1
  PROVE  GroupsFrom(s) \in Nat /\ s + 4 + GroupsFrom(s) * 96 <= n
<1>1. GroupsFrom(s) = (n - (s - 4) - 8) \div 96
  BY DEF GroupsFrom, Group96, Loop
<1>2. ASSUME NEW k \in Int, k \div 96 >= 1
      PROVE  k \div 96 \in Nat /\ (k \div 96) * 96 <= k
  BY <1>2
<1>3. n - (s - 4) - 8 \in Int
  OBVIOUS
<1> QED
  BY <1>1, <1>2, <1>3

LEMMA SkipGroupsKeeps ==
  ASSUME IInv, LoadsFit, SkipGroups
  PROVE  IInv' /\ LoadsFit'
<1>1. /\ machine' = machine /\ call' = call /\ KernelFor' = KernelFor
      /\ pc = "kernel" /\ pc' = "kernel" /\ kernel' = kernel /\ groups' = groups
      /\ source' = source /\ loaded' = loaded /\ pending' = pending
      /\ kernel = "avx2" /\ phase = 2 /\ phase' = 3
  BY ChoiceStays DEF SkipGroups, Running, Helped, HasHelper, offsets
<1>2. kernel = KernelFor /\ source >= 24 /\ result = "none" /\ groups \in Nat
  BY <1>1, OffsetFacts DEF IInv, TypeInv, LoopInv
<1>3. TypeInv' /\ StoresInv' /\ TextInv'
  BY <1>1, <1>2, QuietStep DEF SkipGroups, Kernels
<1>4. LoopInv'
  BY <1>1, <1>2 DEF LoopInv
<1>5. LoadsFit'
  BY <1>1 DEF LoadsFit
<1> QED
  BY <1>3, <1>4, <1>5 DEF IInv

LEMMA OpenGroupsKeeps ==
  ASSUME IInv, LoadsFit, OpenGroups
  PROVE  IInv' /\ LoadsFit'
<1>1. /\ machine' = machine /\ call' = call /\ address' = address /\ KernelFor' = KernelFor
      /\ UseStreamingStores' <=> UseStreamingStores
      /\ pc = "kernel" /\ pc' = "groups" /\ kernel' = kernel /\ result' = result
      /\ pending' = pending /\ phase' = phase
      /\ HasHelper /\ kernel = "avx2" /\ phase = 2
  BY ChoiceStays DEF OpenGroups, Running, Helped, HasHelper
<1>2. /\ kernel = KernelFor /\ source = 24 /\ destination = 32 /\ result = "none"
      /\ call.length \in Nat /\ address \in 0 .. 31
  <2>1. kernel = KernelFor /\ source = 24 /\ result = "none"
    BY <1>1 DEF IInv, TypeInv, LoopInv
  <2> QED
    BY <2>1, OffsetFacts
<1>3. GroupsFrom(24) = (call.length - 28) \div 96 /\ GroupsFrom(24) >= 2
  <2>1. GroupsFrom(24) = (call.length - (24 - 4) - 8) \div 96
    BY DEF GroupsFrom, Group96, Loop
  <2> QED
    BY <1>2, <2>1 DEF OpenGroups
<1>4. call.length >= 220
  BY <1>2, <1>3
<1>5. /\ source' \in {24, 36} /\ destination' = (source' \div 3) * 4
      /\ Misaligned => source' = 36 /\ loaded' = <<24, 40>>
      /\ ~Misaligned => source' = 24 /\ loaded' = loaded
  BY <1>2 DEF OpenGroups, Advance, offsets
<1>6. groups' = GroupsFrom(source') /\ groups' >= 1
  <2>1. groups' = GroupsFrom(source')
    BY DEF OpenGroups
  <2>2. GroupsFrom(source') = (call.length - (source' - 4) - 8) \div 96
    BY DEF GroupsFrom, Group96, Loop
  <2>3. (call.length - (source' - 4) - 8) \div 96 >= 1
    BY <1>2, <1>4, <1>5
  <2> QED
    BY <2>1, <2>2, <2>3
<1>7. groups' \in Nat /\ source' + 4 + groups' * 96 <= call.length
  BY <1>2, <1>5, <1>6, GroupsFacts
<1>8. TypeInv' /\ StoresInv' /\ TextInv'
  <2>1. phase' \in 1 .. 5 /\ pc' \in {"kernel", "groups", "scalar"}
    BY <1>1
  <2>2. CASE Misaligned
    <3>1. output' = Stored(12) /\ Advance(12)
      BY <2>2 DEF OpenGroups
    <3>2. 12 \in Nat /\ 12 % 3 = 0 /\ source + 12 <= call.length
      BY <1>2, <1>4
    <3> QED
      BY <1>1, <1>7, <2>1, <3>1, <3>2, StoringStep DEF OpenGroups
  <2>3. CASE ~Misaligned
    <3>1. UNCHANGED <<choice, offsets, pending, output>>
      BY <2>3 DEF OpenGroups
    <3> QED
      BY <1>1, <1>2, <1>7, <2>1, <3>1, QuietStep DEF Kernels
  <2> QED
    BY <2>2, <2>3
<1>9. LoopInv'
  <2>1. UseStreamingStores => address \in {0, 16}
    BY <1>2 DEF UseStreamingStores
  <2>2. UseStreamingStores => (address + destination') % 32 = 0
    BY <1>5, <2>1 DEF Misaligned
  <2>3. HasHelper'
    BY <1>1 DEF HasHelper
  <2>4. groups' > 0 /\ source' >= 24
    BY <1>5, <1>6, <1>7
  <2> QED
    BY <1>1, <1>2, <1>7, <2>2, <2>3, <2>4 DEF LoopInv
<1>10. LoadsFit'
  BY <1>1, <1>2, <1>4, <1>5 DEF LoadsFit
<1> QED
  BY <1>8, <1>9, <1>10 DEF IInv

(* What both kinds of group have in common.                                *)
LEMMA NextGroupFacts ==
  ASSUME IInv, pc = "groups", NextGroup
  PROVE  /\ machine' = machine /\ call' = call /\ address' = address /\ KernelFor' = KernelFor
         /\ UseStreamingStores' <=> UseStreamingStores
         /\ kernel' = kernel /\ result' = result /\ result = "none"
         /\ HasHelper /\ kernel = "avx2" /\ kernel = KernelFor /\ phase = 2
         /\ source + 96 <= call.length /\ source' = source + 96 /\ destination' = destination + 128
         /\ Advance(96) /\ groups' = groups - 1 /\ groups' \in Nat
         /\ pc' = (IF groups' = 0 THEN "kernel" ELSE "groups")
         /\ phase' = (IF groups' = 0 THEN 3 ELSE 2)
         /\ LoadsFit'
         /\ (UseStreamingStores => (address + destination) % 32 = 0) => LoopInv'
<1>1. /\ machine' = machine /\ call' = call /\ address' = address /\ KernelFor' = KernelFor
      /\ UseStreamingStores' <=> UseStreamingStores
      /\ kernel' = kernel /\ result' = result
  BY ChoiceStays DEF NextGroup
<1>2. /\ HasHelper /\ kernel = "avx2" /\ kernel = KernelFor /\ phase = 2 /\ groups > 0
      /\ source >= 24 /\ source + 4 + groups * 96 <= call.length /\ result = "none"
  BY DEF IInv, TypeInv, LoopInv, HasHelper
<1>3. /\ source \in Nat /\ call.length \in Nat /\ groups \in Nat /\ destination \in Nat
      /\ address \in 0 .. 31
  BY OffsetFacts
<1>4. source' = source + 96 /\ destination' = destination + 128 /\ groups' = groups - 1
      /\ Advance(96)
  BY <1>3 DEF NextGroup, Advance
<1>5. groups' \in Nat /\ source + 100 <= call.length
      /\ source' + 4 + groups' * 96 <= call.length
  BY <1>2, <1>3, <1>4
<1>6. /\ pc' = (IF groups' = 0 THEN "kernel" ELSE "groups")
      /\ phase' = (IF groups' = 0 THEN 3 ELSE 2)
  BY <1>2 DEF NextGroup
<1>7. LoadsFit'
  <2>1. loaded' = <<source - 4, source - 4 + (3 * 24 + 32)>>
    BY DEF NextGroup, LoadTurn, Group96, Loop
  <2> QED
    BY <1>1, <1>2, <1>3, <1>5, <2>1 DEF LoadsFit
<1>8. ASSUME UseStreamingStores => (address + destination) % 32 = 0
      PROVE  LoopInv'
  <2>1. HasHelper'
    BY <1>1, <1>2 DEF HasHelper
  <2>2. (address + destination) % 32 = 0 => (address + destination') % 32 = 0
    BY <1>3, <1>4
  <2>3. groups' # 0 => groups' > 0
    BY <1>5
  <2>4. source' >= 24
    BY <1>2, <1>3, <1>4
  <2> QED
    BY <1>1, <1>2, <1>5, <1>6, <1>8, <2>1, <2>2, <2>3, <2>4 DEF LoopInv
<1> QED
  BY <1>1, <1>2, <1>3, <1>4, <1>5, <1>6, <1>7, <1>8

LEMMA StoreGroupKeeps ==
  ASSUME IInv, LoadsFit, StoreGroup
  PROVE  IInv' /\ LoadsFit'
<1>1. pc = "groups" /\ NextGroup /\ ~UseStreamingStores /\ output' = Stored(96)
      /\ pending' = pending
  BY DEF StoreGroup
<1>2. /\ groups' \in Nat /\ Advance(96) /\ source + 96 <= call.length
      /\ pc' \in {"kernel", "groups", "scalar"} /\ pc' # "scalar" /\ phase' \in 1 .. 5
      /\ UNCHANGED <<choice, kernel, result>>
  BY <1>1, NextGroupFacts DEF NextGroup
<1>3. TypeInv' /\ StoresInv' /\ TextInv'
  <2>1. 96 \in Nat /\ 96 % 3 = 0
    OBVIOUS
  <2> QED
    BY <1>1, <1>2, <2>1, StoringStep
<1>4. LoopInv' /\ LoadsFit'
  BY <1>1, NextGroupFacts
<1> QED
  BY <1>3, <1>4 DEF IInv

LEMMA StreamGroupKeeps ==
  ASSUME IInv, LoadsFit, StreamGroup
  PROVE  IInv' /\ LoadsFit'
<1> DEFINE new == [at |-> destination, symbol |-> (source \div 3) * 4]
<1>1. pc = "groups" /\ NextGroup /\ UseStreamingStores /\ output' = output
      /\ pending' = pending \cup {new}
  BY DEF StreamGroup
<1>2. /\ machine' = machine /\ call' = call /\ address' = address
      /\ kernel' = kernel /\ kernel = "avx2" /\ result' = "none"
      /\ source + 96 <= call.length /\ source' = source + 96 /\ destination' = destination + 128
      /\ groups' \in Nat /\ pc' \in {"kernel", "groups"} /\ phase' \in 1 .. 5
  BY <1>1, NextGroupFacts
<1>3. /\ source \in Nat /\ source % 3 = 0 /\ destination = (source \div 3) * 4
      /\ destination \in Nat /\ call.length \in Nat
  BY OffsetFacts
<1>4. (address + destination) % 32 = 0
  BY <1>1 DEF IInv, LoopInv
<1>5. new.at = destination /\ new.symbol = destination /\ new \in [at : Nat, symbol : Nat]
  BY <1>3
<1> HIDE DEF new
<1>6. TypeInv'
  <2>1. source' \in 0 .. call'.length /\ source' % 3 = 0 /\ destination' = (source' \div 3) * 4
    BY <1>2, <1>3
  <2>2. pending' \subseteq [at : Nat, symbol : Nat]
    BY <1>1, <1>5 DEF IInv, TypeInv
  <2> QED
    BY <1>2, <2>1, <2>2 DEF IInv, TypeInv
<1>7. StoresInv'
  <2>1. ASSUME NEW s \in pending
        PROVE  s.at \in Nat /\ s.at = s.symbol /\ s.at + 128 <= destination
               /\ (address + s.at) % 32 = 0
    BY DEF IInv, TypeInv, StoresInv
  <2>2. ASSUME NEW s \in pending'
        PROVE  s.at = s.symbol /\ s.at + 128 <= destination' /\ (address' + s.at) % 32 = 0
    <3>1. CASE s \in pending
      BY <1>2, <1>3, <2>1, <3>1
    <3>2. CASE s = new
      BY <1>2, <1>3, <1>4, <1>5, <3>2
    <3> QED
      BY <1>1, <3>1, <3>2
  <2>3. ASSUME NEW s \in pending', NEW t \in pending'
        PROVE  s = t \/ s.at + 128 <= t.at \/ t.at + 128 <= s.at
    <3>1. CASE s \in pending /\ t \in pending
      BY <3>1 DEF IInv, StoresInv
    <3>2. CASE s \in pending /\ t = new
      BY <1>5, <2>1, <3>2
    <3>3. CASE s = new /\ t \in pending
      BY <1>5, <2>1, <3>3
    <3>4. CASE s = new /\ t = new
      BY <3>4
    <3> QED
      BY <1>1, <3>1, <3>2, <3>3, <3>4
  <2> QED
    BY <1>2, <2>2, <2>3 DEF StoresInv
<1>8. TextInv'
  <2>1. Cells' = Cells
    BY <1>1, ChoiceStays DEF NextGroup
  <2>2. output = [c \in Cells |-> IF c < destination /\ ~Covered(c) THEN c ELSE Old]
    BY <1>1 DEF IInv, TextInv
  <2>3. ASSUME NEW c \in Cells
        PROVE  (c < destination /\ ~Covered(c)) <=> (c < destination' /\ ~Covered(c)')
    <3>1. c \in Nat
      BY DEF Cells
    <3>2. Covered(c)' <=> Covered(c) \/ (destination <= c /\ c < destination + 128)
      BY <1>1, <1>5 DEF Covered
    <3> QED
      BY <1>2, <1>3, <3>1, <3>2
  <2>4. output' = [c \in Cells |-> IF c < destination' /\ ~Covered(c)' THEN c ELSE Old]
    BY <1>1, <2>2, <2>3
  <2> QED
    BY <2>1, <2>4 DEF TextInv
<1>9. LoopInv' /\ LoadsFit'
  BY <1>1, <1>4, NextGroupFacts
<1> QED
  BY <1>6, <1>7, <1>8, <1>9 DEF IInv

(* A streaming store that becomes visible uncovers its own cells only:     *)
(* pending stores do not overlap.                                          *)
LEMMA DrainKeeps ==
  ASSUME IInv, LoadsFit, NEW store \in pending, Drain(store)
  PROVE  IInv' /\ LoadsFit'
<1>1. /\ machine' = machine /\ call' = call /\ address' = address /\ KernelFor' = KernelFor
      /\ Cells' = Cells
      /\ UseStreamingStores' <=> UseStreamingStores
      /\ pc' = pc /\ kernel' = kernel /\ phase' = phase /\ groups' = groups
      /\ source' = source /\ destination' = destination /\ loaded' = loaded /\ result' = result
      /\ pending' = pending \ {store}
  BY ChoiceStays DEF Drain, offsets
<1>2. store.at \in Nat /\ store.symbol = store.at /\ store.at + 128 <= destination
  BY DEF IInv, TypeInv, StoresInv
<1>3. TypeInv'
  BY <1>1 DEF IInv, TypeInv
<1>4. StoresInv'
  BY <1>1 DEF IInv, StoresInv
<1>5. TextInv'
  <2>1. pc # "done"
    BY DEF IInv, StoresInv
  <2>2. output = [c \in Cells |-> IF c < destination /\ ~Covered(c) THEN c ELSE Old]
    BY <2>1 DEF IInv, TextInv
  <2>3. output' = [c \in Cells |-> IF store.at <= c /\ c < store.at + 128
                                   THEN store.symbol + (c - store.at) ELSE output[c]]
    BY DEF Drain
  <2>4. ASSUME NEW c \in Cells
        PROVE  (IF store.at <= c /\ c < store.at + 128
                THEN store.symbol + (c - store.at) ELSE output[c])
               = IF c < destination /\ ~Covered(c)' THEN c ELSE Old
    <3>1. c \in Nat /\ destination \in Nat
      BY OffsetFacts DEF Cells
    <3>2. CASE store.at <= c /\ c < store.at + 128
      <4>1. ASSUME NEW t \in pending, t # store, t.at <= c, c < t.at + 128
            PROVE  FALSE
        <5>1. t.at \in Nat
          BY DEF IInv, TypeInv
        <5>2. store.at + 128 <= t.at \/ t.at + 128 <= store.at
          BY <4>1 DEF IInv, StoresInv
        <5> QED
          BY <1>2, <3>1, <3>2, <4>1, <5>1, <5>2
      <4>2. ~Covered(c)'
        BY <1>1, <4>1 DEF Covered
      <4>3. c < destination /\ store.symbol + (c - store.at) = c
        BY <1>2, <3>1, <3>2
      <4> QED
        BY <3>2, <4>2, <4>3
    <3>3. CASE ~(store.at <= c /\ c < store.at + 128)
      <4>1. Covered(c)' <=> Covered(c)
        BY <1>1, <3>3 DEF Covered
      <4> QED
        BY <2>2, <3>3, <4>1
    <3> QED
      BY <3>2, <3>3
  <2>5. output' = [c \in Cells |-> IF c < destination /\ ~Covered(c)' THEN c ELSE Old]
    BY <2>3, <2>4
  <2> QED
    BY <1>1, <2>5 DEF TextInv
<1>6. LoopInv'
  <2>1. HasHelper' <=> HasHelper
    BY <1>1 DEF HasHelper
  <2> QED
    BY <1>1, <2>1 DEF IInv, LoopInv
<1>7. LoadsFit'
  BY <1>1 DEF LoadsFit
<1> QED
  BY <1>3, <1>4, <1>5, <1>6, <1>7 DEF IInv

(* When the loops have ended, AVX-512 leaves less than a vector.           *)
LEMMA AfterLoopsFacts ==
  ASSUME IInv, AfterLoops
  PROVE  /\ pc = "kernel" /\ kernel = KernelFor
         /\ kernel = "avx512" => phase > 2 /\ call.length - source < 48
         /\ Complete \in 0 .. 47 /\ Complete % 3 = 0 /\ source + Complete <= call.length
<1>1. pc = "kernel" /\ kernel = KernelFor /\ phase \in 1 .. 5 /\ ~(phase \in DOMAIN Phases)
  BY DEF AfterLoops, IInv, TypeInv, LoopInv
<1>2. kernel = "avx512" => phase > 2 /\ call.length - source < 48
  <2>1. ASSUME kernel = "avx512"
        PROVE  DOMAIN Phases = 1 .. 2
    BY <2>1 DEF Phases, Avx512Loops
  <2>2. kernel = "avx512" => phase > 2
    BY <1>1, <2>1
  <2> QED
    BY <1>1, <2>2 DEF IInv, LoopInv
<1>3. source \in 0 .. call.length /\ call.length \in Nat
  BY OffsetFacts
<1>4. Complete \in 0 .. 47 /\ Complete % 3 = 0 /\ source + Complete <= call.length
  BY <1>2, <1>3 DEF Complete
<1> QED
  BY <1>1, <1>2, <1>4

LEMMA MaskedTailKeeps ==
  ASSUME IInv, LoadsFit, MaskedTail
  PROVE  IInv' /\ LoadsFit'
<1>1. /\ machine' = machine /\ call' = call /\ KernelFor' = KernelFor
      /\ pc = "kernel" /\ pc' = "scalar" /\ kernel' = kernel /\ phase' = phase
      /\ groups' = groups /\ result' = result /\ pending' = pending
      /\ loaded' = <<source, source + Complete>>
      /\ output' = Stored(Complete) /\ Advance(Complete)
  BY ChoiceStays DEF MaskedTail, AfterLoops
<1>2. /\ kernel = KernelFor /\ Complete \in 0 .. 47 /\ Complete % 3 = 0
      /\ source + Complete <= call.length
  BY AfterLoopsFacts DEF MaskedTail
<1>3. kernel = "avx512"
  BY DEF MaskedTail, Complete
<1>4. source \in 0 .. call.length /\ call.length \in Nat /\ phase \in 1 .. 5 /\ groups \in Nat
  BY OffsetFacts
<1>5. pending = {}
  BY <1>3 DEF IInv, StoresInv
<1>6. TypeInv' /\ StoresInv' /\ TextInv'
  <2>1. Complete \in Nat
    BY <1>2
  <2> QED
    BY <1>1, <1>2, <1>4, <1>5, <2>1, StoringStep DEF MaskedTail
<1>7. LoopInv'
  BY <1>1, <1>2 DEF LoopInv
<1>8. LoadsFit'
  BY <1>1, <1>2, <1>4 DEF LoadsFit
<1> QED
  BY <1>6, <1>7, <1>8 DEF IInv

LEMMA EndKernelKeeps ==
  ASSUME IInv, LoadsFit, EndKernel
  PROVE  IInv' /\ LoadsFit'
<1>1. /\ machine' = machine /\ call' = call /\ KernelFor' = KernelFor
      /\ pc = "kernel" /\ pc' = "scalar" /\ kernel' = kernel /\ phase' = phase
      /\ groups' = groups /\ result' = result /\ pending = {} /\ loaded' = loaded
      /\ source' = source
  BY ChoiceStays DEF EndKernel, AfterLoops, offsets
<1>2. kernel \in Kernels /\ result = "none" /\ kernel \in {"scalar", KernelFor}
  BY <1>1 DEF IInv, TypeInv, LoopInv, Kernels
<1>3. TypeInv' /\ StoresInv' /\ TextInv'
  BY <1>1, <1>2, OffsetFacts, QuietStep DEF EndKernel
<1>4. LoopInv'
  BY <1>1, <1>2 DEF LoopInv
<1>5. LoadsFit'
  BY <1>1 DEF LoadsFit
<1> QED
  BY <1>3, <1>4, <1>5 DEF IInv

LEMMA ScalarKeeps ==
  ASSUME IInv, LoadsFit, Scalar
  PROVE  IInv' /\ LoadsFit'
<1>1. /\ machine' = machine /\ call' = call /\ KernelFor' = KernelFor
      /\ pc = "scalar" /\ pc' = "scalar" /\ kernel' = kernel /\ phase' = phase
      /\ groups' = groups /\ result' = result /\ pending' = pending
      /\ loaded' = <<source, source + ScalarWidth>>
      /\ output' = Stored(ScalarWidth) /\ Advance(ScalarWidth)
  BY ChoiceStays DEF Scalar
<1>2. source \in 0 .. call.length /\ call.length \in Nat /\ phase \in 1 .. 5 /\ groups \in Nat
  BY OffsetFacts
<1>3. ScalarWidth \in {3, 6} /\ source + ScalarWidth <= call.length
  BY <1>2 DEF Scalar, ScalarWidth, Left
<1>4. pending = {}
  BY <1>1 DEF IInv, StoresInv
<1>5. TypeInv' /\ StoresInv' /\ TextInv'
  <2>1. ScalarWidth \in Nat /\ ScalarWidth % 3 = 0
    BY <1>3
  <2> QED
    BY <1>1, <1>2, <1>3, <1>4, <2>1, StoringStep DEF Scalar
<1>6. LoopInv'
  BY <1>1 DEF IInv, LoopInv
<1>7. LoadsFit'
  BY <1>1, <1>2, <1>3 DEF LoadsFit
<1> QED
  BY <1>5, <1>6, <1>7 DEF IInv

LEMMA FinishKeeps ==
  ASSUME IInv, LoadsFit, Finish
  PROVE  IInv' /\ LoadsFit'
<1>1. /\ machine' = machine /\ call' = call /\ address' = address /\ KernelFor' = KernelFor
      /\ pc = "scalar" /\ pc' = "done" /\ kernel' = kernel /\ phase' = phase
      /\ groups' = groups /\ result' = "ok" /\ pending' = pending
      /\ source' = source /\ destination' = destination
      /\ loaded' = <<source, call.length>>
  BY ChoiceStays DEF Finish, offsets
<1>2. source \in 0 .. call.length /\ call.length \in Nat
  BY OffsetFacts
<1>3. pending = {}
  BY <1>1 DEF IInv, StoresInv
<1>4. TypeInv' /\ StoresInv' /\ TextInv'
  BY <1>1, <1>3 DEF IInv, TypeInv, StoresInv, TextInv
<1>5. LoopInv'
  BY <1>1 DEF IInv, LoopInv
<1>6. LoadsFit'
  BY <1>1, <1>2 DEF LoadsFit
<1> QED
  BY <1>4, <1>5, <1>6 DEF IInv
----------------------------------------------------------------------------
LEMMA InitHolds ==
  ASSUME Init
  PROVE  IInv /\ LoadsFit
<1>1. call.length \in Nat /\ call \in Calls
  BY Base64EncodeAssumption DEF Init
<1>2. TypeInv
  BY <1>1 DEF Init, TypeInv
<1>3. StoresInv /\ TextInv /\ LoopInv
  <2>1. \A c \in Cells : ~(c < 0)
    BY DEF Cells
  <2>2. TextInv
    BY <2>1 DEF Init, TextInv
  <2> QED
    BY <2>2 DEF Init, StoresInv, LoopInv
<1>4. LoadsFit
  BY <1>1 DEF Init, LoadsFit
<1> QED
  BY <1>2, <1>3, <1>4 DEF IInv

LEMMA NextKeeps ==
  ASSUME IInv, LoadsFit, [Next]_vars
  PROVE  IInv' /\ LoadsFit'
<1>1. CASE Step
  BY <1>1, RefuseKeeps, BeginKeeps, EncodeKeeps, EndLoopKeeps, SkipGroupsKeeps,
     OpenGroupsKeeps, StoreGroupKeeps, StreamGroupKeeps, MaskedTailKeeps, EndKernelKeeps,
     ScalarKeeps, FinishKeeps DEF Step
<1>2. ASSUME NEW store \in pending, Drain(store)
      PROVE  IInv' /\ LoadsFit'
  BY <1>2, DrainKeeps
<1>3. CASE UNCHANGED vars
  <2>1. /\ UNCHANGED choice /\ machine' = machine /\ call' = call /\ address' = address
        /\ pc' = pc /\ kernel' = kernel /\ phase' = phase /\ groups' = groups
        /\ source' = source /\ destination' = destination /\ loaded' = loaded
        /\ pending' = pending /\ output' = output /\ result' = result
    BY <1>3 DEF vars, choice, offsets
  <2>2. /\ KernelFor' = KernelFor /\ Cells' = Cells
        /\ UseStreamingStores' <=> UseStreamingStores
    BY <2>1, ChoiceStays
  <2>3. TypeInv' /\ StoresInv' /\ LoadsFit'
    BY <2>1 DEF IInv, TypeInv, StoresInv, LoadsFit
  <2>4. TextInv'
    BY <2>1, <2>2 DEF IInv, TextInv, Covered
  <2>5. LoopInv'
    <3>1. HasHelper' <=> HasHelper
      BY <2>1 DEF HasHelper
    <3> QED
      BY <2>1, <2>2, <3>1 DEF IInv, LoopInv
  <2> QED
    BY <2>3, <2>4, <2>5 DEF IInv
<1> QED
  BY <1>1, <1>2, <1>3 DEF Next

(* The invariant of the encoder holds for every machine, length, alphabet  *)
(* and address: the text before the destination is that of the bytes       *)
(* before the source, but for stores still on their way.                   *)
THEOREM InvariantHolds == Spec => []IInv
<1>1. Init => IInv /\ LoadsFit
  BY InitHolds
<1>2. (IInv /\ LoadsFit) /\ [Next]_vars => (IInv /\ LoadsFit)'
  BY NextKeeps
<1> QED
  BY <1>1, <1>2, PTL DEF Spec

(* The unsafe kernels' contracts hold at every step: supported features,   *)
(* loads inside the input, stores inside the encoded length, aligned       *)
(* streaming stores, at least one group and shifts below 64.               *)
THEOREM FootprintsHold == Spec => []FootprintsFit
<1>1. Init => IInv /\ LoadsFit
  BY InitHolds
<1>2. (IInv /\ LoadsFit) /\ [Next]_vars => (IInv /\ LoadsFit)'
  BY NextKeeps
<1>3. IInv /\ LoadsFit => FootprintsFit
  <2> SUFFICES ASSUME IInv, LoadsFit
               PROVE  FootprintsFit
    OBVIOUS
  <2>1. Required[kernel] \subseteq machine.features
    <3>1. call \in Calls /\ machine \in Machines /\ kernel \in {"scalar", KernelFor}
      BY DEF IInv, TypeInv, LoopInv
    <3>2. Required["scalar"] = {}
      BY DEF Required
    <3> QED
      BY <3>1, <3>2, KernelIsSupported
  <2>2. destination <= OutputLen
    <3>1. source \in 0 .. call.length /\ call.length \in Nat /\ destination = (source \div 3) * 4
          /\ source % 3 = 0
      BY OffsetFacts
    <3> QED
      BY <3>1 DEF OutputLen
  <2>3. \A store \in pending : (address + store.at) % 32 = 0
    BY DEF IInv, StoresInv
  <2>4. pc = "groups" => groups > 0
    BY DEF IInv, LoopInv
  <2>5. AfterLoops => Complete < 64 /\ (Complete \div 3) * 4 < 64
    BY AfterLoopsFacts
  <2> QED
    BY <2>1, <2>2, <2>3, <2>4, <2>5 DEF FootprintsFit, LoadsFit
<1> QED
  BY <1>1, <1>2, <1>3, PTL DEF Spec

(* A finished call leaves the text of its input and nothing else, and a    *)
(* refused one leaves the output alone.                                    *)
THEOREM TextHolds == Spec => []TextIsReference
<1>1. Init => TextIsReference
  BY DEF Init, TextIsReference
<1>2. ASSUME IInv, TextIsReference, [Next]_vars
      PROVE  TextIsReference'
  <2>1. CASE pc # "done" /\ result' = "none"
    BY <2>1 DEF TextIsReference
  <2>2. CASE UNCHANGED vars
    <3>1. /\ result' = result /\ output' = output /\ call' = call /\ UNCHANGED choice
      BY <2>2 DEF vars, choice
    <3>2. Cells' = Cells /\ OutputLen' = OutputLen
      BY <3>1, ChoiceStays
    <3> QED
      BY <1>2, <3>1, <3>2 DEF TextIsReference, TextAt, SymbolCount
  <2>3. CASE Refuse
    <3>1. /\ result' = "too small" /\ output' = output /\ Cells' = Cells /\ source = 0
          /\ pc # "done" /\ pending = {} /\ destination = 0
      <4>1. result' = "too small" /\ output' = output /\ Cells' = Cells /\ pc = "begin"
        BY <2>3, ChoiceStays DEF Refuse
      <4>2. source = 0 /\ pending = {}
        BY <1>2, <4>1 DEF IInv, LoopInv, StoresInv
      <4>3. destination = (source \div 3) * 4
        BY <1>2 DEF IInv, TypeInv
      <4>4. (0 \div 3) * 4 = 0
        OBVIOUS
      <4> QED
        BY <4>1, <4>2, <4>3, <4>4
    <3>2. output = [c \in Cells |-> IF c < destination /\ ~Covered(c) THEN c ELSE Old]
      BY <1>2, <3>1 DEF IInv, TextInv
    <3>3. \A c \in Cells : ~(c < 0)
      BY DEF Cells
    <3> QED
      BY <3>1, <3>2, <3>3 DEF TextIsReference
  <2>4. CASE Finish
    <3>1. /\ result' = "ok" /\ Cells' = Cells /\ OutputLen' = OutputLen /\ call' = call
          /\ pc = "scalar"
      BY <2>4, ChoiceStays DEF Finish
    <3>2. /\ source \in 0 .. call.length /\ call.length \in Nat /\ source % 3 = 0
          /\ destination = (source \div 3) * 4 /\ destination \in Nat
      BY <1>2, OffsetFacts
    <3>3. output = [c \in Cells |-> IF c < destination THEN c ELSE Old]
      <4>1. pending = {}
        BY <1>2, <3>1 DEF IInv, StoresInv
      <4>2. \A c \in Cells : ~Covered(c)
        BY <4>1 DEF Covered
      <4> QED
        BY <1>2, <3>1, <4>2 DEF IInv, TextInv
    <3>4. Left \in 0 .. 2 /\ call.length = source + Left
      BY <2>4, <3>2 DEF Finish, Left
    <3>5. ASSUME NEW c \in Cells
          PROVE  output'[c] = TextAt(c)
      <4>1. c \in Nat
        BY DEF Cells
      <4>2. CASE Left = 0
        <5>1. output'[c] = IF c < destination THEN c ELSE Old
          BY <2>4, <3>3, <4>2 DEF Finish
        <5>2. SymbolCount = destination /\ OutputLen = destination
          BY <3>2, <3>4, <4>2 DEF SymbolCount, OutputLen
        <5> QED
          BY <4>1, <3>2, <5>1, <5>2 DEF TextAt
      <4>3. CASE Left # 0
        <5>1. output'[c] = TailCell(c)
          BY <2>4, <4>3 DEF Finish
        <5>2. SymbolCount = destination + Left + 1
          BY <3>2, <3>4, <4>3 DEF SymbolCount
        <5>3. OutputLen = IF call.padded THEN destination + 4 ELSE destination + Left + 1
          BY <3>2, <3>4, <4>3 DEF OutputLen
        <5>4. output[c] = IF c < destination THEN c ELSE Old
          BY <3>3
        <5> QED
          BY <3>2, <3>4, <4>1, <4>3, <5>1, <5>2, <5>3, <5>4 DEF TailCell, TextAt
      <4> QED
        BY <4>2, <4>3
    <3>6. \A c : TextAt(c)' = TextAt(c)
      BY <3>1 DEF TextAt, SymbolCount
    <3> QED
      BY <3>1, <3>5, <3>6 DEF TextIsReference
  <2>5. Step => Refuse \/ Finish \/ (pc # "done" /\ result' = result)
    BY DEF Step, Begin, Encode, EndLoop, SkipGroups, OpenGroups, StoreGroup, StreamGroup,
       NextGroup, MaskedTail, EndKernel, Scalar, Running, AfterLoops
  <2>6. (\E store \in pending : Drain(store)) => pc # "done" /\ result' = result
    BY <1>2 DEF Drain, IInv, StoresInv
  <2>7. pc # "done" => result = "none"
    BY <1>2 DEF IInv, TypeInv
  <2> QED
    BY <1>2, <2>1, <2>2, <2>3, <2>4, <2>5, <2>6, <2>7 DEF Next
<1> QED
  BY <1>1, <1>2, InvariantHolds, PTL DEF Spec
=============================================================================
