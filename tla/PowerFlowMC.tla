----------------------------- MODULE PowerFlowMC -----------------------------
(***************************************************************************)
(* PowerFlow on two power graphs:                                          *)
(*   rack    a wall outlet feeds a PDU with two outlets, for a lamp and    *)
(*           for one PSU of a server; another wall outlet feeds its other  *)
(*           PSU;                                                          *)
(*   strip   a lamp and one PSU of the server share a wall outlet, and the *)
(*           PSUs draw power of their own (a server with BMC).             *)
(* Half of 8 W at 2 V is 2 A: every division comes out even.               *)
(***************************************************************************)
EXTENDS PowerFlow

CONSTANTS wall1, wall2, pdu, out1, out2, lamp, psu1, psu2, server

Rack == {wall1, wall2, pdu, out1, out2, lamp, psu1, psu2, server}

RackParents ==
  [a \in Rack |->
     CASE a \in {wall1, wall2} -> {}
       [] a = pdu -> {wall1}
       [] a \in {out1, out2} -> {pdu}
       [] a = lamp -> {out2}
       [] a = psu1 -> {out1}
       [] a = psu2 -> {wall2}
       [] a = server -> {psu1, psu2}]

Strip == {wall1, wall2, lamp, psu1, psu2, server}

StripParents ==
  [a \in Strip |->
     CASE a \in {wall1, wall2} -> {}
       [] a \in {lamp, psu1} -> {wall1}
       [] a = psu2 -> {wall2}
       [] a = server -> {psu1, psu2}]

KindOf ==
  [a \in Rack |->
     CASE a \in {wall1, wall2, out1, out2} -> "outlet"
       [] a = pdu -> "pdu"
       [] a = lamp -> "static"
       [] a \in {psu1, psu2} -> "psu"
       [] a = server -> "server"]

StripKind == [a \in Strip |-> KindOf[a]]

RackWatts == [a \in Rack |-> IF a = server THEN 8 ELSE IF a = lamp THEN 4 ELSE 0]

BmcWatts == [a \in Strip |-> IF a = server THEN 8 ELSE IF Children(a) = {} \/ a \in {psu1, psu2} THEN 4 ELSE 0]

Zero == [a \in Asset |-> 0]
Half == [a \in Asset |-> 1]

PduOutlets == {out1, out2}
Nothing == {}

Voltages == {0, 1, 2}
=============================================================================
