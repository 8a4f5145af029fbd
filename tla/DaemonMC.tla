------------------------------- MODULE DaemonMC -------------------------------
(***************************************************************************)
(* Daemon with mains that are on or out, two temperatures and ranges that  *)
(* take all of a short history or all but its first action.                *)
(***************************************************************************)
EXTENDS Daemon

OnOrOut == {0, 120}
RoomTemps == {0, 21}
Ranges == {<<0, 9>>, <<1, 9>>}
=============================================================================
