---------------------------- MODULE SystemModelMC ----------------------------
(***************************************************************************)
(* SystemModel with one asset of each kind, started with a wall outlet     *)
(* that feeds a PDU.                                                       *)
(***************************************************************************)
EXTENDS SystemModel, TLC

Keys == {"wall", "pdu", "out", "ups", "socket", "lamp", "server", "psu1", "psu2"}

KindOf ==
  [a \in Keys |->
     CASE a \in {"wall", "out", "socket"} -> "outlet"
       [] a = "lamp" -> "static"
       [] a \in {"psu1", "psu2"} -> "psu"
       [] OTHER -> a]

OwnerOf ==
  [a \in Keys |->
     CASE a = "out" -> "pdu"
       [] a = "socket" -> "ups"
       [] a \in {"psu1", "psu2"} -> "server"
       [] OTHER -> a]

Rack == {"wall", "pdu", "out"}
RackLinks == {<<"wall", "pdu">>, <<"pdu", "out">>}
Feeding == {"out"}

Processes == Permutations(Cli)
=============================================================================
