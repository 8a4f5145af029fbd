---------------------------- MODULE UpsBatteryMC ----------------------------
(***************************************************************************)
(* UpsBattery with a battery of two units, two steps of charge each: a     *)
(* battery can be full, half full, empty, and hold a charge that is stored *)
(* as 0.  It can power the UPS again above one unit.                       *)
(***************************************************************************)
EXTENDS UpsBattery

AllVolts == Voltages
Sags == {"low", "normal"}

\* A momentary event becomes an outage while the battery drains ...
ShortPeriod == 2
\* ... or only after it is empty.
LongPeriod == FullCharge + 1
=============================================================================
