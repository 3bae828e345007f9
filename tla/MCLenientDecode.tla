--------------------------- MODULE MCLenientDecode -------------------------
(* Every short input, and runs of symbols around the boundaries of blocks  *)
(* with padding and noise before, between and after them.                  *)
EXTENDS LenientDecode

MCBlock == 8
MCInlineLimit == 4
MCDetachThreshold == 6

SymbolRun(n) == [k \in 1 .. n |-> "symbol"]
Gaps == {<<>>, <<"=">>, <<"noise">>, <<"=", "=">>, <<"=", "noise", "=">>}
ShortInputs == SeqOf({"symbol", "=", "noise"}, 5)
LongInputs ==
  {g \o SymbolRun(m) \o h \o SymbolRun(n) \o i :
     g \in {<<>>, <<"=", "noise">>}, m \in {2, 7, 8, 18}, h \in Gaps,
     n \in {1, 9}, i \in {<<>>, <<"=">>, <<"=", "=">>}}

(* The kernel matters to the fast alphabets only.                          *)
Fast == {<<"fast", TRUE>>, <<"fast", FALSE>>}
Other == {<<"custom", FALSE>>, <<"alias", FALSE>>}

(* Destinations from empty to large enough for all, or none.               *)
Most(bytes) == (Len(bytes) * 3) \div 4
Rooms == {"none", "one", "half", "most", "all", "allocate"}
RoomOf(bytes, room) ==
  CASE room = "one" -> 1
    [] room = "half" -> Most(bytes) \div 2
    [] room = "most" -> Max({0, Most(bytes) - 1})
    [] room = "all" -> Most(bytes)
    [] OTHER -> 0

Call(b, a, p, c, room) ==
  [entry |-> IF room = "allocate" THEN "allocate" ELSE "into", input |-> b, alphabet |-> a[1],
   kernel |-> a[2], padded |-> p, continue |-> c, provided |-> RoomOf(b, room)]

MCCalls ==
  {Call(b, a, p, c, r) : b \in ShortInputs \cup LongInputs, a \in Fast \cup Other,
                         p \in BOOLEAN, c \in BOOLEAN, r \in Rooms}
=============================================================================
