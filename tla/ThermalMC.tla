------------------------------ MODULE ThermalMC ------------------------------
(***************************************************************************)
(* Thermal with two temperature sensors: the memory, which a stopped fan   *)
(* lets heat and a running one cools, and the processor, which is heated   *)
(* by its load.                                                            *)
(***************************************************************************)
EXTENDS Thermal, TLC

CONSTANTS memory, processor, fan, c1, c2

Order == <<memory, processor>>
Links == {"heat", "cool"}
Targets == [l \in Links |-> memory]
Events == [l \in Links |-> IF l = "heat" THEN "down" ELSE "up"]
Heating == [l \in Links |-> l = "heat"]
Limits == [l \in Links |-> IF l = "heat" THEN 9 ELSE 5]
Steps == [l \in Links |-> 2]
CpuModel == (0 :> 0) @@ (1 :> 1)
RoomLimits == [t \in RoomThread |-> IF t = "warming" THEN 7 ELSE 6]
=============================================================================
