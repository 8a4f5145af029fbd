------------------------------- MODULE Recorder -------------------------------
(***************************************************************************)
(* The action recorder (tools/recorder.py): the history of what users did, *)
(* whether it is being recorded, and what each of its methods does to that *)
(* state.  Its callers, and the threads they run on, are in Daemon.tla.    *)
(* An action is the call that was made; times and formatting are left out. *)
(***************************************************************************)
EXTENDS Integers, Sequences, SequencesExt

CONSTANTS
  Call,        \* the calls that may be recorded
  MaxHistory   \* bound: actions kept

VARIABLES
  actions,     \* _actions
  enabled,     \* _enabled
  replaying,   \* _replaying
  file         \* the actions last saved to a file

recorder == <<actions, enabled, replaying, file>>

RecorderTypeOK ==
  /\ actions \in Seq(Call) /\ file \in Seq(Call)
  /\ Len(actions) <= MaxHistory /\ Len(file) <= MaxHistory
  /\ enabled \in BOOLEAN /\ replaying \in BOOLEAN

RecorderInit ==
  /\ actions = <<>> /\ file = <<>>
  /\ enabled = TRUE /\ replaying = FALSE

\* What slc, a pair <<start, stop>>, selects of s; and what it leaves, which is
\* all of s when the range is empty (stop before start).
Within(n, s) == IF n < Len(s) THEN n ELSE Len(s)
InSlice(s, slc) == SubSeq(s, slc[1] + 1, Within(slc[2], s))
OutOfSlice(s, slc) ==
  SubSeq(s, 1, Within(slc[1], s))
    \o SubSeq(s, (IF slc[1] < slc[2] THEN slc[2] ELSE slc[1]) + 1, Len(s))

\* A call of a decorated function, before the function runs.
Record(c) ==
  /\ enabled => Len(actions) < MaxHistory
  /\ actions' = IF enabled THEN Append(actions, c) ELSE actions
  /\ UNCHANGED <<enabled, replaying, file>>

\* The setter of enabled keeps its value during a replay.
SetEnabled(b) ==
  /\ enabled' = IF replaying THEN enabled ELSE b
  /\ UNCHANGED <<actions, replaying, file>>

SetReplaying(b) == replaying' = b /\ UNCHANGED <<actions, enabled, file>>

SaveActions(slc) == file' = InSlice(actions, slc) /\ UNCHANGED <<actions, enabled, replaying>>

LoadActions(slc) ==
  /\ actions' = IF replaying THEN actions ELSE InSlice(file, slc)
  /\ UNCHANGED <<enabled, replaying, file>>

EraseRange(slc) ==
  /\ actions' = OutOfSlice(actions, slc)
  /\ UNCHANGED <<enabled, replaying, file>>
=============================================================================
