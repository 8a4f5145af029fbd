------------------------- MODULE IterationConsumer -------------------------
(***************************************************************************)
(* EngineIterationConsumer (state/engine/iteration_consumer.py): a queue   *)
(* of iterations, a worker thread that launches them one by one, and the   *)
(* engine thread that handles the events an iteration is made of and       *)
(* completes it. Every statement that reads or writes shared state is a    *)
(* step of its own; the threads interleave between any two of them.        *)
(*                                                                         *)
(* The branches of an iteration are reduced to a number: launch() opens    *)
(* some, each is one event in flight, each event handled closes one.       *)
(* PowerIteration models how branches fork and continue.                   *)
(*                                                                         *)
(* Operators marked FAULT are not part of the specification: each is the   *)
(* action below it with a mistake, and shows which property would tell.    *)
(***************************************************************************)
EXTENDS Naturals, Sequences, FiniteSets

CONSTANTS
  Iteration,       \* iterations the callers may submit, each at most once
  Worker,          \* worker threads; the first is started by Engine.__init__
  FirstWorker,
  Engine,          \* the thread of the circuits event loop
  Caller,          \* the thread that calls queue_iteration() and stop():
                   \* the event loop itself in the daemon, a test's thread
                   \* in the behave suite
  NoIteration,     \* None as the value of _current_iteration
  StopItem,        \* None as an element of _event_queue
  MaxBranches,     \* most branches a launch() opens
  Patience,        \* what callers wait for between two submissions
  MayStop,         \* Engine.stop() may be called
  MayReload        \* a model update may start further workers

Thread == Worker \cup {Engine, Caller}

ASSUME ConsumerAssumption ==
  /\ FirstWorker \in Worker
  /\ Engine \notin Worker /\ Caller \notin Worker
  /\ NoIteration \notin Iteration /\ StopItem \notin Iteration
  /\ MaxBranches \in Nat
  /\ Patience \in {"none", "announced", "rest"}
  /\ MayStop \in BOOLEAN /\ MayReload \in BOOLEAN

VARIABLES
  queue,        \* _event_queue
  unfinished,   \* its unfinished_tasks: put() adds one, task_done() takes one
  doneEvent,    \* _iteration_done_event
  current,      \* _current_iteration
  latest,       \* _worker_thread: the thread stop() joins
  pc,           \* where each thread is
  after,        \* where it goes when the method it is in returns
  item,         \* the iteration a worker has taken from the queue
  opened,       \* branches a worker's launch() returned and will fire
  active,       \* active branches of each iteration
  events,       \* events of each iteration in the engine's event queue
  submitted,    \* iterations put in the queue so far
  ended         \* iterations _complete_task() was called for

vars == <<queue, unfinished, doneEvent, current, latest, pc, after, item,
          opened, active, events, submitted, ended>>

callerVars == <<submitted>>
workerVars == <<item, opened>>
branchVars == <<active, events>>

-----------------------------------------------------------------------------
(* Control. *)

Goto(t, place) == pc' = [pc EXCEPT ![t] = place]

Call(t, place, return) ==
  /\ Goto(t, place)
  /\ after' = [after EXCEPT ![t] = return]

Return(t) == Goto(t, after[t])

(* An exception ends a worker thread; circuits catches it in a handler;    *)
(* out of stop() it reaches whoever called it.                             *)
Raise(t) ==
  Goto(t, IF t \in Worker THEN "raised"
          ELSE IF after[t] = "join_queue" THEN "failed" ELSE "idle")

-----------------------------------------------------------------------------
(* queue_iteration(), called by the handle_*_update() methods. *)

(* The behave steps wait for AllLoadBranchesDone before they go on. When    *)
(* the event loop completes an iteration it delivers that event after       *)
(* unfreeze_task_queue() has returned; when launch() opened no branch, the  *)
(* worker completes the iteration while the event loop delivers.            *)
Announced(i) ==
  \/ i \in ended /\ pc[Engine] = "idle"
  \/ i = current /\ \E w \in Worker : pc[w] \in {"unfreeze", "complete"}

(* Nothing queued or in progress and no thread on its way: no caller in     *)
(* this repository waits so long.                                           *)
AtRest ==
  /\ queue = <<>>
  /\ current = NoIteration
  /\ pc[Engine] = "idle"
  /\ \A w \in Worker : pc[w] \in {"unborn", "wait", "get"}

MaySubmit ==
  /\ Patience = "announced" => \A i \in submitted : Announced(i)
  /\ Patience = "rest" => AtRest

(* FAULT: a put() that overtakes the iterations already waiting.            *)
QueueFirst(i) ==
  /\ pc[Caller] = "idle"
  /\ i \notin submitted
  /\ MaySubmit
  /\ submitted' = submitted \cup {i}
  /\ queue' = <<i>> \o queue
  /\ unfinished' = unfinished + 1
  /\ Call(Caller, "check", "idle")
  /\ UNCHANGED <<doneEvent, current, latest, ended, workerVars, branchVars>>

QueueIteration(i) ==
  /\ pc[Caller] = "idle"
  /\ i \notin submitted
  /\ MaySubmit
  /\ submitted' = submitted \cup {i}
  /\ queue' = Append(queue, i)
  /\ unfinished' = unfinished + 1
  /\ Call(Caller, "check", "idle")
  /\ UNCHANGED <<doneEvent, current, latest, ended, workerVars, branchVars>>

(* FAULT: queue_iteration() never sets the event.                           *)
CheckWithoutWake ==
  /\ pc[Caller] = "check"
  /\ Return(Caller)
  /\ UNCHANGED <<queue, unfinished, doneEvent, current, latest, after, ended,
                 callerVars, workerVars, branchVars>>

(* if not self._current_iteration: ... *)
CheckCurrent ==
  /\ pc[Caller] = "check"
  /\ IF current = NoIteration THEN Goto(Caller, "wake") ELSE Return(Caller)
  /\ UNCHANGED <<queue, unfinished, doneEvent, current, latest, after, ended,
                 callerVars, workerVars, branchVars>>

(* ... self._iteration_done_event.set() *)
Wake ==
  /\ pc[Caller] = "wake"
  /\ doneEvent' = TRUE
  /\ Return(Caller)
  /\ UNCHANGED <<queue, unfinished, current, latest, after, ended,
                 callerVars, workerVars, branchVars>>

-----------------------------------------------------------------------------
(* unfreeze_task_queue() and _complete_task(), on whichever thread. *)

Unfreeze(t) ==
  /\ pc[t] = "unfreeze"
  /\ IF current # NoIteration /\ active[current] = 0
     THEN Goto(t, "complete")
     ELSE Raise(t)
  /\ UNCHANGED <<queue, unfinished, doneEvent, current, latest, after, ended,
                 callerVars, workerVars, branchVars>>

(* FAULTS: task_done() is left out; the reset of _current_iteration is.     *)
ResetWithoutTaskDone(t) ==
  /\ pc[t] = "complete"
  /\ ended' = IF current = NoIteration THEN ended ELSE ended \cup {current}
  /\ current' = NoIteration
  /\ Goto(t, "signal")
  /\ UNCHANGED <<queue, unfinished, doneEvent, latest, after,
                 callerVars, workerVars, branchVars>>

CompleteWithoutReset(t) ==
  /\ pc[t] = "complete"
  /\ ended' = IF current = NoIteration THEN ended ELSE ended \cup {current}
  /\ Goto(t, "task_done")
  /\ UNCHANGED <<queue, unfinished, doneEvent, current, latest, after,
                 callerVars, workerVars, branchVars>>

ResetCurrent(t) ==
  /\ pc[t] = "complete"
  /\ ended' = IF current = NoIteration THEN ended ELSE ended \cup {current}
  /\ current' = NoIteration
  /\ Goto(t, "task_done")
  /\ UNCHANGED <<queue, unfinished, doneEvent, latest, after,
                 callerVars, workerVars, branchVars>>

(* FAULT: both unfreeze_task_queue() and _complete_task() call task_done(). *)
TaskDoneTwice(t) ==
  /\ pc[t] = "task_done"
  /\ unfinished' = unfinished - 2
  /\ Goto(t, "signal")
  /\ UNCHANGED <<queue, doneEvent, current, latest, after, ended,
                 callerVars, workerVars, branchVars>>

(* queue.Queue raises ValueError when task_done() is called too often *)
TaskDone(t) ==
  /\ pc[t] = "task_done"
  /\ IF unfinished > 0
     THEN unfinished' = unfinished - 1 /\ Goto(t, "signal")
     ELSE UNCHANGED unfinished /\ Raise(t)
  /\ UNCHANGED <<queue, doneEvent, current, latest, after, ended,
                 callerVars, workerVars, branchVars>>

SignalDone(t) ==
  /\ pc[t] = "signal"
  /\ doneEvent' = TRUE
  /\ Return(t)
  /\ UNCHANGED <<queue, unfinished, current, latest, after, ended,
                 callerVars, workerVars, branchVars>>

Complete(t) == Unfreeze(t) \/ ResetCurrent(t) \/ TaskDone(t) \/ SignalDone(t)

-----------------------------------------------------------------------------
(* _worker(), one action per statement. *)

WaitForDone(w) ==
  /\ pc[w] = "wait"
  /\ doneEvent
  /\ Goto(w, "get")
  /\ UNCHANGED <<queue, unfinished, doneEvent, current, latest, after, ended,
                 callerVars, workerVars, branchVars>>

(* get() blocks on an empty queue; None makes the worker return *)
Get(w) ==
  /\ pc[w] = "get"
  /\ queue # <<>>
  /\ queue' = Tail(queue)
  /\ IF Head(queue) = StopItem
     THEN Goto(w, "returned") /\ UNCHANGED item
     ELSE Goto(w, "assert") /\ item' = [item EXCEPT ![w] = Head(queue)]
  /\ UNCHANGED <<unfinished, doneEvent, current, latest, after, ended, opened,
                 callerVars, branchVars>>

(* FAULT: assertions are switched off.                                      *)
AssertNothing(w) ==
  /\ pc[w] = "assert"
  /\ Goto(w, "assign")
  /\ UNCHANGED <<queue, unfinished, doneEvent, current, latest, after, ended,
                 callerVars, workerVars, branchVars>>

(* assert self._current_iteration is None *)
AssertNoCurrent(w) ==
  /\ pc[w] = "assert"
  /\ Goto(w, IF current = NoIteration THEN "assign" ELSE "asserted")
  /\ UNCHANGED <<queue, unfinished, doneEvent, current, latest, after, ended,
                 callerVars, workerVars, branchVars>>

AssignCurrent(w) ==
  /\ pc[w] = "assign"
  /\ current' = item[w]
  /\ Goto(w, "launch")
  /\ UNCHANGED <<queue, unfinished, doneEvent, latest, after, ended,
                 callerVars, workerVars, branchVars>>

(* self._current_iteration.launch(): the branches exist from here on *)
Launch(w) ==
  /\ pc[w] = "launch"
  /\ IF current = NoIteration
     THEN Raise(w) /\ UNCHANGED <<item, opened, active>>
     ELSE \E n \in 0..MaxBranches :
            /\ item' = [item EXCEPT ![w] = current]
            /\ opened' = [opened EXCEPT ![w] = n]
            /\ active' = [active EXCEPT ![current] = @ + n]
            /\ Goto(w, "chain")
  /\ UNCHANGED <<queue, unfinished, doneEvent, current, latest, after, ended,
                 callerVars, events>>

(* _on_iteration_launched(): _chain_power_events() / _chain_thermal_events() *)
(* first asks the current iteration if it is done already, ...               *)
ChainLaunched(w) ==
  /\ pc[w] = "chain"
  /\ IF current = NoIteration THEN Raise(w) /\ UNCHANGED after
     ELSE IF active[current] = 0 THEN Call(w, "unfreeze", "fire")
     ELSE Goto(w, "fire") /\ UNCHANGED after
  /\ UNCHANGED <<queue, unfinished, doneEvent, current, latest, ended,
                 callerVars, workerVars, branchVars>>

(* ... then fires the first events. The branches were all registered by      *)
(* launch(), so firing them one at a time or at once is the same.            *)
Fire(w) ==
  /\ pc[w] = "fire"
  /\ events' = [events EXCEPT ![item[w]] = @ + opened[w]]
  /\ opened' = [opened EXCEPT ![w] = 0]
  /\ Goto(w, "clear")
  /\ UNCHANGED <<queue, unfinished, doneEvent, current, latest, after, ended,
                 item, active, callerVars>>

ClearDone(w) ==
  /\ pc[w] = "clear"
  /\ doneEvent' = FALSE
  /\ item' = [item EXCEPT ![w] = NoIteration]
  /\ Goto(w, "wait")
  /\ UNCHANGED <<queue, unfinished, current, latest, after, ended, opened,
                 callerVars, branchVars>>

WorkerStep(w) ==
  \/ WaitForDone(w) \/ Get(w) \/ AssertNoCurrent(w) \/ AssignCurrent(w)
  \/ Launch(w) \/ ChainLaunched(w) \/ Fire(w) \/ ClearDone(w)
  \/ Complete(w)

-----------------------------------------------------------------------------
(* The event loop: an event of iteration i was handled by its asset and the *)
(* success callback asks current_iteration - whichever that is by then - to *)
(* complete the event's branch. It raises when there is none (None has no   *)
(* such method) or when the branch is another iteration's (list.remove).    *)
HandleEvent(i) ==
  /\ pc[Engine] = "idle"
  /\ events[i] > 0
  /\ events' = [events EXCEPT ![i] = @ - 1]
  /\ IF current = i /\ active[i] > 0
     THEN /\ active' = [active EXCEPT ![i] = @ - 1]
          /\ IF active[i] = 1
             THEN Call(Engine, "unfreeze", "idle")
             ELSE UNCHANGED <<pc, after>>
     ELSE UNCHANGED <<active, pc, after>>
  /\ UNCHANGED <<queue, unfinished, doneEvent, current, latest, ended,
                 callerVars, workerVars>>

-----------------------------------------------------------------------------
(* stop(): complete the iteration in progress and join the queue, ...       *)
Stop ==
  /\ MayStop
  /\ pc[Caller] = "idle"
  /\ IF current # NoIteration
     THEN Call(Caller, "complete", "join_queue")
     ELSE Call(Caller, "put_stop", "set_stop")
  /\ UNCHANGED <<queue, unfinished, doneEvent, current, latest, ended,
                 callerVars, workerVars, branchVars>>

JoinQueue ==
  /\ pc[Caller] = "join_queue"
  /\ unfinished = 0
  /\ Call(Caller, "put_stop", "set_stop")
  /\ UNCHANGED <<queue, unfinished, doneEvent, current, latest, ended,
                 callerVars, workerVars, branchVars>>

(* ... queue_iteration(None), ... *)
PutStop ==
  /\ pc[Caller] = "put_stop"
  /\ queue' = Append(queue, StopItem)
  /\ unfinished' = unfinished + 1
  /\ Goto(Caller, "check")
  /\ UNCHANGED <<doneEvent, current, latest, after, ended,
                 callerVars, workerVars, branchVars>>

SetStop ==
  /\ pc[Caller] = "set_stop"
  /\ doneEvent' = TRUE
  /\ Goto(Caller, "join_worker")
  /\ UNCHANGED <<queue, unfinished, current, latest, after, ended,
                 callerVars, workerVars, branchVars>>

(* ... and wait for the worker that was started last. *)
Terminated == {"returned", "raised", "asserted"}

(* FAULT: stop() does not wait for the worker.                              *)
JoinNobody ==
  /\ pc[Caller] = "join_worker"
  /\ Goto(Caller, "stopped")
  /\ UNCHANGED <<queue, unfinished, doneEvent, current, latest, after, ended,
                 callerVars, workerVars, branchVars>>

JoinWorker ==
  /\ pc[Caller] = "join_worker"
  /\ pc[latest] \in Terminated
  /\ Goto(Caller, "stopped")
  /\ UNCHANGED <<queue, unfinished, doneEvent, current, latest, after, ended,
                 callerVars, workerVars, branchVars>>

(* start(), once more: Engine.reload_model() calls it on a model update     *)
(* without stopping the worker that runs already.                           *)
Reload(w) ==
  /\ MayReload
  /\ pc[Caller] = "idle"
  /\ pc[w] = "unborn"
  /\ Goto(w, "wait")
  /\ latest' = w
  /\ doneEvent' = TRUE
  /\ UNCHANGED <<queue, unfinished, current, after, ended,
                 callerVars, workerVars, branchVars>>

-----------------------------------------------------------------------------
Init ==
  /\ queue = <<>>
  /\ unfinished = 0
  /\ doneEvent = TRUE
  /\ current = NoIteration
  /\ latest = FirstWorker
  /\ pc = [t \in Thread |-> IF t = FirstWorker THEN "wait"
                            ELSE IF t \in Worker THEN "unborn" ELSE "idle"]
  /\ after = [t \in Thread |-> "idle"]
  /\ item = [w \in Worker |-> NoIteration]
  /\ opened = [w \in Worker |-> 0]
  /\ active = [i \in Iteration |-> 0]
  /\ events = [i \in Iteration |-> 0]
  /\ submitted = {}
  /\ ended = {}

(* What a thread does once it has begun: these steps are only delayed.      *)
CallerStep ==
  \/ CheckCurrent \/ Wake
  \/ JoinQueue \/ PutStop \/ SetStop \/ JoinWorker
  \/ Complete(Caller)

EngineStep ==
  \/ \E i \in Iteration : HandleEvent(i)
  \/ Complete(Engine)

(* What its users may ask of it, at any time or never.                      *)
Request ==
  \/ \E i \in Iteration : QueueIteration(i)
  \/ Stop
  \/ \E w \in Worker : Reload(w)

Next ==
  \/ \E w \in Worker : WorkerStep(w)
  \/ EngineStep
  \/ CallerStep
  \/ Request

(* The operating system schedules every thread that can run; nothing makes  *)
(* a user ask for anything.                                                 *)
Fairness ==
  /\ \A w \in Worker : WF_vars(WorkerStep(w))
  /\ WF_vars(EngineStep)
  /\ WF_vars(CallerStep)

Safe == Init /\ [][Next]_vars

Spec == Safe /\ Fairness

-----------------------------------------------------------------------------
(* Properties *)

Place ==
  {"unborn", "idle", "wait", "get", "assert", "assign", "launch", "chain",
   "fire", "clear", "unfreeze", "complete", "task_done", "signal", "check",
   "wake", "join_queue", "put_stop", "set_stop", "join_worker", "stopped",
   "failed"} \cup Terminated

(* Every variable holds a value of its kind; the task counter of the queue  *)
(* never goes below zero.                                                   *)
TypeOK ==
  /\ queue \in Seq(Iteration \cup {StopItem})
  /\ unfinished \in Nat
  /\ doneEvent \in BOOLEAN
  /\ current \in Iteration \cup {NoIteration}
  /\ latest \in Worker
  /\ pc \in [Thread -> Place]
  /\ after \in [Thread -> {"idle", "fire", "join_queue", "set_stop"}]
  /\ item \in [Worker -> Iteration \cup {NoIteration}]
  /\ opened \in [Worker -> Nat]
  /\ active \in [Iteration -> Nat]
  /\ events \in [Iteration -> Nat]
  /\ submitted \subseteq Iteration
  /\ ended \subseteq Iteration

(* A worker holds an iteration it has dequeued and not begun. *)
Holding(w) == pc[w] \in {"assert", "assign", "asserted"}

(* Two iterations are never in progress together: only the current one has  *)
(* branches or events ("An iteration of a specific type blocks any new      *)
(* events until fully completed", docs/index.md:82).                        *)
OnlyCurrentIsOpen ==
  \A i \in Iteration : (active[i] > 0 \/ events[i] > 0) => current = i

(* unfinished_tasks, which stop() waits on, counts exactly the iterations   *)
(* that are queued, in a worker's hands, or in progress until their         *)
(* task_done(): an item that vanished would make join() block for ever.     *)
TasksAreAccountedFor ==
  unfinished = Len(queue)
             + Cardinality({w \in Worker : Holding(w)})
             + (IF current = NoIteration THEN 0 ELSE 1)
             + Cardinality({t \in Thread : pc[t] = "task_done"})

(* The worker's own assertion, iteration_consumer.py:92: an iteration is    *)
(* dequeued only when none is in progress.                                  *)
AssertionHolds == \A w \in Worker : pc[w] # "asserted"

(* Whatever is queued is processed to its end.                              *)
EveryIterationEnds == \A i \in Iteration : i \in submitted ~> i \in ended

Queued(i) == \E k \in DOMAIN queue : queue[k] = i

(* queue_iteration(), iteration_consumer.py:56-57: "Queue an iteration for  *)
(* later processing; it will get dequeued once current_iteration is         *)
(* completed".                                                              *)
QueuedIsDequeued ==
  \A i \in Iteration : (Queued(i) /\ current = NoIteration) ~> ~Queued(i)

(* Once stop() has returned no iteration begins and no event is fired.      *)
NothingBeginsAfterStop ==
  [][pc[Caller] = "stopped" =>
       /\ current' \in {current, NoIteration}
       /\ \A i \in Iteration : events'[i] <= events[i]]_vars

(* As long as nobody calls stop(), the consumer processes iterations one at *)
(* a time, in submission order: an iteration waits in the queue or in the   *)
(* worker's hands until it becomes the current one.                         *)
InHand ==
  IF Holding(FirstWorker) THEN <<item[FirstWorker]>> ELSE <<>>

Serial ==
  INSTANCE SerialIterations WITH
    waiting <- InHand \o queue,
    inProgress <- current

InSubmissionOrder == Serial!Spec
=============================================================================
