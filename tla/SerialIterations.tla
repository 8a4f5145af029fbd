-------------------------- MODULE SerialIterations --------------------------
(***************************************************************************)
(* What an EngineIterationConsumer promises to the engine: "All the events *)
(* to-be-handled by enginecore are queued for processing and get an        *)
(* iteration assigned to them. An iteration of a specific type blocks any  *)
(* new events until fully completed." (docs/index.md:82)                   *)
(*                                                                         *)
(* Iterations wait in the order they were submitted; at most one is in     *)
(* progress; the next one begins only after that one has ended.            *)
(***************************************************************************)
EXTENDS Sequences

CONSTANTS
  Iteration,      \* everything that may be queued (PowerIteration objects...)
  NoIteration     \* Python's None: nothing is in progress

VARIABLES
  waiting,        \* submitted, not begun, in submission order
  inProgress,     \* the iteration being processed, or NoIteration
  ended           \* iterations that are over

vars == <<waiting, inProgress, ended>>

Init ==
  /\ waiting = <<>>
  /\ inProgress = NoIteration
  /\ ended = {}

Submit(i) ==
  /\ waiting' = Append(waiting, i)
  /\ UNCHANGED <<inProgress, ended>>

Begin ==
  /\ inProgress = NoIteration
  /\ waiting # <<>>
  /\ inProgress' = Head(waiting)
  /\ waiting' = Tail(waiting)
  /\ UNCHANGED ended

End ==
  /\ inProgress # NoIteration
  /\ ended' = ended \cup {inProgress}
  /\ inProgress' = NoIteration
  /\ UNCHANGED waiting

Next ==
  \/ \E i \in Iteration : Submit(i)
  \/ Begin
  \/ End

Spec == Init /\ [][Next]_vars
=============================================================================
