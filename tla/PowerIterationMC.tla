-------------------------- MODULE PowerIterationMC --------------------------
(***************************************************************************)
(* PowerIteration on two power graphs:                                     *)
(*   rack    a UPS with two outlets, each feeding one PSU of a dual-PSU    *)
(*           server: voltage forks, and meets again;                       *)
(*   rooms   two wall outlets, one feeding an outlet strip of two lamps,   *)
(*           the other a server with one PSU: several sources, and chains. *)
(***************************************************************************)
EXTENDS PowerIteration

CONSTANTS wall, pdu, left, right, psu1, psu2, server, wall2, lamp1, lamp2, ups

Rack == {ups, left, right, psu1, psu2, server}

RackParents ==
  [a \in Rack |->
     CASE a \in {left, right} -> {ups}
       [] a = psu1 -> {left}
       [] a = psu2 -> {right}
       [] a = server -> {psu1, psu2}
       [] a = ups -> {}]

RackOutlets == {left, right}

Rooms == {wall, pdu, lamp1, lamp2, wall2, psu1, server}

RoomsParents ==
  [a \in Rooms |->
     CASE a = pdu -> {wall}
       [] a \in {lamp1, lamp2} -> {pdu}
       [] a = psu1 -> {wall2}
       [] a = server -> {psu1}
       [] a \in {wall, wall2} -> {}]

RoomsMains == {wall, wall2}

RoomsOutlets == {wall, wall2, pdu}

(* Switching on a server none of whose PSUs is online raises.               *)
RoomsRaising == {server}

None == {}
=============================================================================
