---------------------- MODULE IterationConsumerProofs ----------------------
(***************************************************************************)
(* Proofs about IterationConsumer for any set of iterations, any number of *)
(* branches, and a caller that is the event loop or another thread. The    *)
(* first part is about the time between start() and stop(): one worker, no *)
(* stop(). The second allows stop() at any moment, and its types a reload  *)
(* as well.                                                                *)
(***************************************************************************)
EXTENDS IterationConsumer, TLAPS, FiniteSetTheorems

w0 == FirstWorker

(* Where the two kinds of threads can be while nobody stops or reloads.    *)
WorkerPlace ==
  {"wait", "get", "assert", "assign", "launch", "chain", "unfreeze",
   "complete", "task_done", "signal", "fire", "clear", "asserted", "raised"}

ClientPlace ==
  {"idle", "check", "wake", "unfreeze", "complete", "task_done", "signal"}

Completing == {"unfreeze", "complete", "task_done", "signal"}

(* The places of a worker that is not occupied with an iteration it has    *)
(* made the current one and not yet fired.                                 *)
Detached == {"clear", "wait", "get", "assert", "asserted", "raised"}

Control ==
  /\ \A w \in Worker \ {w0} : pc[w] = "unborn"
  /\ pc[w0] \in WorkerPlace
  /\ pc[Engine] \in ClientPlace
  /\ pc[Caller] \in ClientPlace
  /\ Caller # Engine => pc[Caller] \in {"idle", "check", "wake"}
  /\ after[Engine] = "idle" /\ after[Caller] = "idle"
  /\ pc[w0] \in Completing => after[w0] = "fire"
  /\ Holding(w0) => item[w0] \in Iteration
  /\ queue \in Seq(Iteration)

(* What the worker knows of the current iteration at each statement.       *)
WorkerView ==
  /\ pc[w0] = "assign" => current = NoIteration
  /\ pc[w0] \in {"launch", "chain"} =>
       current = item[w0] /\ current \in Iteration
  /\ pc[w0] = "launch" => active[current] = 0
  /\ pc[w0] \in {"unfreeze", "complete"} =>
       current \in Iteration /\ active[current] = 0
  /\ pc[w0] \in {"chain", "fire"} \cup Completing => item[w0] \in Iteration
  /\ pc[w0] = "fire" /\ opened[w0] > 0 => current = item[w0]
  /\ pc[w0] \in Completing => opened[w0] = 0
  /\ pc[w0] \notin {"chain", "fire"} => opened[w0] = 0

(* What the event loop knows when it is about to complete an iteration.    *)
EngineView ==
  pc[Engine] \in {"unfreeze", "complete"} =>
    /\ current \in Iteration
    /\ active[current] = 0
    /\ pc[w0] \in Detached

(* Every active branch of an iteration is an event in flight or about to   *)
(* be fired, and events are in flight only when the worker let go of them. *)
BranchesAreEvents ==
  \A i \in Iteration :
    /\ active[i] = events[i] + (IF item[w0] = i THEN opened[w0] ELSE 0)
    /\ events[i] > 0 => pc[w0] \in Detached

IInv ==
  /\ TypeOK
  /\ Control
  /\ WorkerView
  /\ EngineView
  /\ BranchesAreEvents
  /\ OnlyCurrentIsOpen

-----------------------------------------------------------------------------
USE DEF Goto, Call, Return, Raise, callerVars, workerVars, branchVars, w0

(* The head of a queue of iterations that is not empty is one of them.     *)
LEMMA QueueHead ==
  ASSUME IInv, queue # <<>>
  PROVE  Head(queue) \in Iteration /\ Tail(queue) \in Seq(Iteration)
BY DEF IInv, Control

(* Only start() creates workers: without a reload the first one is the     *)
(* only one that may hold an iteration.                                    *)
LEMMA OnlyFirstWorkerRuns ==
  ASSUME IInv, NEW w \in Worker, pc[w] # "unborn"
  PROVE  w = w0
BY DEF IInv, Control

(* A consumer that has just been created satisfies the invariant.          *)
LEMMA InitIInv == Init => IInv
<1> SUFFICES ASSUME Init PROVE IInv
  OBVIOUS
<1> USE ConsumerAssumption DEF Init
<1>1. TypeOK
  BY DEF TypeOK, Place
<1>2. Control
  BY DEF Control, Thread, WorkerPlace, ClientPlace, Completing, Holding
<1>3. WorkerView /\ EngineView /\ BranchesAreEvents /\ OnlyCurrentIsOpen
  BY DEF WorkerView, EngineView, BranchesAreEvents, OnlyCurrentIsOpen, Completing, Thread
<1>4. QED BY <1>1, <1>2, <1>3 DEF IInv

(* The worker passes the wait or sleeps on; it holds nothing either way.   *)
LEMMA WaitForDoneStep ==
  ASSUME IInv, NEW w \in Worker, WaitForDone(w)
  PROVE  IInv'
<1> USE ConsumerAssumption DEF IInv, WaitForDone
<1>0. w = w0
  BY OnlyFirstWorkerRuns
<1>1. TypeOK'
  BY <1>0 DEF TypeOK, Place
<1>2. Control'
  BY <1>0 DEF Control, WorkerPlace, Completing, Holding
<1>3. WorkerView'
  BY <1>0 DEF WorkerView, Completing
<1>4. EngineView'
  BY <1>0 DEF EngineView, Detached
<1>5. BranchesAreEvents'
  BY <1>0 DEF BranchesAreEvents, Detached
<1>6. OnlyCurrentIsOpen'
  BY <1>0 DEF OnlyCurrentIsOpen
<1>7. QED BY <1>1, <1>2, <1>3, <1>4, <1>5, <1>6

(* The head of the queue goes into the hands of the worker, nowhere else.  *)
LEMMA GetStep ==
  ASSUME IInv, NEW w \in Worker, Get(w)
  PROVE  IInv'
<1> USE ConsumerAssumption DEF IInv, Get
<1>0. w = w0
  BY OnlyFirstWorkerRuns
<1>1. TypeOK'
  <2>1. queue' \in Seq(Iteration \cup {StopItem})
    BY DEF TypeOK
  <2>2. pc' \in [Thread -> Place]
    BY DEF TypeOK, Place, Terminated
  <2>3. item' \in [Worker -> Iteration \cup {NoIteration}]
    BY QueueHead DEF TypeOK
  <2>4. QED BY <2>1, <2>2, <2>3 DEF TypeOK
<1>2. Control'
  BY <1>0, QueueHead DEF TypeOK, Control, Thread, WorkerPlace, Completing
<1>3. WorkerView'
  BY <1>0, QueueHead DEF TypeOK, WorkerView
<1>4. EngineView'
  BY <1>0, QueueHead DEF TypeOK, EngineView, Thread, Detached
<1>5. BranchesAreEvents'
  BY <1>0, QueueHead DEF TypeOK, WorkerView, BranchesAreEvents, Thread, Detached
<1>6. OnlyCurrentIsOpen'
  BY <1>0, QueueHead DEF OnlyCurrentIsOpen
<1>7. QED BY <1>1, <1>2, <1>3, <1>4, <1>5, <1>6

(* A worker whose assertion fails dies with its iteration, and opens       *)
(* nothing.                                                                *)
LEMMA AssertNoCurrentStep ==
  ASSUME IInv, NEW w \in Worker, AssertNoCurrent(w)
  PROVE  IInv'
<1> USE ConsumerAssumption DEF IInv, AssertNoCurrent
<1>0. w = w0
  BY OnlyFirstWorkerRuns
<1>1. TypeOK'
  BY <1>0 DEF TypeOK, Place, Terminated
<1>2. Control'
  BY <1>0 DEF Control, WorkerPlace, Completing, Holding
<1>3. WorkerView'
  BY <1>0 DEF WorkerView, Completing
<1>4. EngineView'
  BY <1>0 DEF EngineView, Detached
<1>5. BranchesAreEvents'
  BY <1>0 DEF BranchesAreEvents, OnlyCurrentIsOpen, Detached
<1>6. OnlyCurrentIsOpen'
  BY <1>0 DEF OnlyCurrentIsOpen
<1>7. QED BY <1>1, <1>2, <1>3, <1>4, <1>5, <1>6

(* The iteration in the hands of the worker becomes the current one.       *)
LEMMA AssignCurrentStep ==
  ASSUME IInv, NEW w \in Worker, AssignCurrent(w)
  PROVE  IInv'
<1> USE ConsumerAssumption DEF IInv, AssignCurrent
<1>0. w = w0
  BY OnlyFirstWorkerRuns
<1>1. TypeOK'
  BY <1>0 DEF TypeOK, Place
<1>2. Control'
  BY <1>0 DEF Control, WorkerPlace, Completing, Holding
<1>view. item[w0] \in Iteration /\ active[item[w0]] = 0
  BY <1>0 DEF TypeOK, Control, WorkerView, OnlyCurrentIsOpen, Holding
<1>3. WorkerView'
  BY <1>0, <1>view DEF TypeOK, WorkerView, Thread
<1>4. EngineView'
  BY <1>0 DEF EngineView, Detached
<1>5. BranchesAreEvents'
  BY <1>0 DEF BranchesAreEvents, Detached
<1>6. OnlyCurrentIsOpen'
  BY <1>0 DEF WorkerView, OnlyCurrentIsOpen
<1>7. QED BY <1>1, <1>2, <1>3, <1>4, <1>5, <1>6

(* launch() opens branches of the current iteration only.                  *)
LEMMA LaunchStep ==
  ASSUME IInv, NEW w \in Worker, Launch(w)
  PROVE  IInv'
<1> USE ConsumerAssumption DEF IInv, Launch
<1>0. w = w0
  BY OnlyFirstWorkerRuns
<1>view. /\ current \in Iteration /\ current = item[w0] /\ active[current] = 0
      /\ current # NoIteration /\ opened[w0] = 0
  BY <1>0 DEF WorkerView
<1>effect. PICK n \in 0..MaxBranches :
        /\ item' = [item EXCEPT ![w] = current]
        /\ opened' = [opened EXCEPT ![w] = n]
        /\ active' = [active EXCEPT ![current] = @ + n]
        /\ pc' = [pc EXCEPT ![w] = "chain"]
  BY <1>view
<1>1. TypeOK'
  <2>1. pc' \in [Thread -> Place]
    BY <1>effect DEF TypeOK, Place
  <2>2. /\ item' \in [Worker -> Iteration \cup {NoIteration}]
        /\ opened' \in [Worker -> Nat]
        /\ active' \in [Iteration -> Nat]
    BY <1>view, <1>effect DEF TypeOK
  <2>3. QED BY <2>1, <2>2 DEF TypeOK
<1>2. Control'
  BY <1>0 DEF TypeOK, Control, Thread, WorkerPlace, Completing, Holding
<1>3. WorkerView'
  BY <1>0 DEF TypeOK, WorkerView, Thread, Completing
<1>4. EngineView'
  BY <1>0 DEF TypeOK, EngineView, Thread, Detached
<1>5. BranchesAreEvents'
  <2>1. pc[w0] \notin Detached
    BY <1>0 DEF Detached
  <2>2. \A i \in Iteration : events[i] = 0
    BY <2>1 DEF TypeOK, BranchesAreEvents
  <2>3. \A i \in Iteration : active[i] = 0
    BY <2>2, <1>view DEF BranchesAreEvents
  <2>4. n \in Nat /\ opened'[w0] = n /\ item'[w0] = current
    BY <1>0, <1>effect DEF TypeOK
  <2> SUFFICES ASSUME NEW i \in Iteration
               PROVE  /\ active'[i] = events'[i]
                           + (IF item'[w0] = i THEN opened'[w0] ELSE 0)
                      /\ events'[i] = 0
    BY DEF BranchesAreEvents
  <2>5. CASE i = current
    BY <1>view, <1>effect, <2>2, <2>3, <2>4, <2>5 DEF TypeOK
  <2>6. CASE i # current
    BY <1>view, <1>effect, <2>2, <2>3, <2>4, <2>6
  <2>7. QED BY <2>5, <2>6
<1>6. OnlyCurrentIsOpen'
  BY <1>0 DEF TypeOK, OnlyCurrentIsOpen
<1>7. QED BY <1>1, <1>2, <1>3, <1>4, <1>5, <1>6

(* The callback on the worker may complete the iteration it launched, or   *)
(* fire its first events.                                                  *)
LEMMA ChainLaunchedStep ==
  ASSUME IInv, NEW w \in Worker, ChainLaunched(w)
  PROVE  IInv'
<1> USE ConsumerAssumption DEF IInv, ChainLaunched
<1>0. w = w0
  BY OnlyFirstWorkerRuns
<1>1. TypeOK'
  <2>1. pc' \in [Thread -> Place]
    BY DEF TypeOK, Place, Terminated
  <2>2. after' \in [Thread -> {"idle", "fire", "join_queue", "set_stop"}]
    BY DEF TypeOK
  <2>3. QED BY <2>1, <2>2 DEF TypeOK
<1>2. Control'
  BY <1>0 DEF TypeOK, Control, Thread, WorkerPlace, ClientPlace, Completing, Holding
<1>view. current = item[w0] /\ current \in Iteration /\ current # NoIteration
  BY <1>0 DEF WorkerView
<1>effect. active[current] = 0 => opened[w0] = 0
  BY <1>0, <1>view DEF TypeOK, BranchesAreEvents
<1>3. WorkerView'
  BY <1>0, <1>view, <1>effect DEF TypeOK, WorkerView, Thread, Completing
<1>4. EngineView'
  BY <1>0 DEF TypeOK, EngineView, Thread, Detached
<1>5. BranchesAreEvents'
  BY <1>0 DEF BranchesAreEvents, Detached
<1>6. OnlyCurrentIsOpen'
  BY <1>0 DEF OnlyCurrentIsOpen
<1>7. QED BY <1>1, <1>2, <1>3, <1>4, <1>5, <1>6

(* Firing an event hands its branch over to the event loop.                *)
LEMMA FireStep ==
  ASSUME IInv, NEW w \in Worker, Fire(w)
  PROVE  IInv'
<1> USE ConsumerAssumption DEF IInv, Fire
<1>0. w = w0
  BY OnlyFirstWorkerRuns
<1>1. TypeOK'
  <2>1. pc' \in [Thread -> Place]
    BY DEF TypeOK, Place
  <2>2. opened' \in [Worker -> Nat] /\ events' \in [Iteration -> Nat]
    BY <1>0 DEF TypeOK, WorkerView
  <2>3. QED BY <2>1, <2>2 DEF TypeOK
<1>2. Control'
  BY <1>0 DEF Control, WorkerPlace, Completing, Holding
<1>3. WorkerView'
  BY <1>0 DEF TypeOK, WorkerView
<1>4. EngineView'
  BY <1>0 DEF EngineView, Detached
<1>5. BranchesAreEvents'
  BY <1>0 DEF TypeOK, BranchesAreEvents, Thread, Detached
<1>6. OnlyCurrentIsOpen'
  BY <1>0 DEF TypeOK, WorkerView, OnlyCurrentIsOpen
<1>7. QED BY <1>1, <1>2, <1>3, <1>4, <1>5, <1>6

(* Clearing the event touches neither the iterations nor the queue.        *)
LEMMA ClearDoneStep ==
  ASSUME IInv, NEW w \in Worker, ClearDone(w)
  PROVE  IInv'
<1> USE ConsumerAssumption DEF IInv, ClearDone
<1>0. w = w0
  BY OnlyFirstWorkerRuns
<1>1. TypeOK'
  BY <1>0 DEF TypeOK, Place
<1>2. Control'
  BY <1>0 DEF Control, WorkerPlace, Completing, Holding
<1>3. WorkerView'
  BY <1>0 DEF WorkerView, Completing
<1>4. EngineView'
  BY <1>0 DEF EngineView, Detached
<1>5. BranchesAreEvents'
  BY <1>0 DEF WorkerView, BranchesAreEvents, Detached
<1>6. OnlyCurrentIsOpen'
  BY <1>0 DEF OnlyCurrentIsOpen
<1>7. QED BY <1>1, <1>2, <1>3, <1>4, <1>5, <1>6

(* _unfreeze_task_queue() is entered by who has found the current          *)
(* iteration done.                                                         *)
LEMMA UnfreezeStep ==
  ASSUME IInv, NEW t \in Thread, Unfreeze(t)
  PROVE  IInv'
<1> USE ConsumerAssumption DEF IInv, Unfreeze
<1>0. t \in {w0, Engine}
  BY DEF Control, Thread
<1>1. TypeOK'
  <2>1. pc' \in [Thread -> Place]
    BY <1>0 DEF TypeOK, Control, Thread, Place, Terminated
  <2>2. QED BY <2>1 DEF TypeOK
<1>2. Control'
  BY <1>0 DEF TypeOK, Control, Thread, WorkerPlace, ClientPlace, Completing, Holding
<1>3. WorkerView'
  BY <1>0 DEF TypeOK, WorkerView, Thread, Completing
<1>4. EngineView'
  BY <1>0 DEF TypeOK, EngineView, Thread, Detached
<1>5. BranchesAreEvents'
  BY <1>0 DEF TypeOK, BranchesAreEvents, Thread, Detached
<1>6. OnlyCurrentIsOpen'
  BY <1>0 DEF OnlyCurrentIsOpen
<1>7. QED BY <1>1, <1>2, <1>3, <1>4, <1>5, <1>6

(* A thread that completes an iteration resets the current one.            *)
LEMMA ResetCurrentStep ==
  ASSUME IInv, NEW t \in Thread, ResetCurrent(t)
  PROVE  IInv'
<1> USE ConsumerAssumption DEF IInv, ResetCurrent
<1>0. t \in {w0, Engine}
  BY DEF Control, Thread
<1>1. TypeOK'
  BY <1>0 DEF TypeOK, Place
<1>2. Control'
  BY <1>0 DEF Control, WorkerPlace, ClientPlace, Completing, Holding
<1>3. WorkerView'
  BY <1>0 DEF TypeOK, WorkerView, EngineView, Detached, Completing
<1>4. EngineView'
  BY <1>0 DEF TypeOK, EngineView, Detached
<1>5. BranchesAreEvents'
  BY <1>0 DEF BranchesAreEvents, Detached
<1>6. OnlyCurrentIsOpen'
  BY <1>0 DEF TypeOK, WorkerView, EngineView, BranchesAreEvents, OnlyCurrentIsOpen
<1>7. QED BY <1>1, <1>2, <1>3, <1>4, <1>5, <1>6

(* task_done() only counts.                                                *)
LEMMA TaskDoneStep ==
  ASSUME IInv, NEW t \in Thread, TaskDone(t)
  PROVE  IInv'
<1> USE ConsumerAssumption DEF IInv, TaskDone
<1>0. t \in {w0, Engine}
  BY DEF Control, Thread
<1>1. TypeOK'
  <2>1. pc' \in [Thread -> Place]
    BY <1>0 DEF TypeOK, Control, Place, Terminated
  <2>2. unfinished' \in Nat
    BY DEF TypeOK
  <2>3. QED BY <2>1, <2>2 DEF TypeOK
<1>2. Control'
  BY <1>0 DEF TypeOK, Control, Thread, WorkerPlace, ClientPlace, Completing, Holding
<1>3. WorkerView'
  BY <1>0 DEF TypeOK, WorkerView, Thread, Completing
<1>4. EngineView'
  BY <1>0 DEF TypeOK, EngineView, Thread, Detached
<1>5. BranchesAreEvents'
  BY <1>0 DEF TypeOK, BranchesAreEvents, Thread, Detached
<1>6. OnlyCurrentIsOpen'
  BY <1>0 DEF OnlyCurrentIsOpen
<1>7. QED BY <1>1, <1>2, <1>3, <1>4, <1>5, <1>6

(* The signal that ends the completion of an iteration frees its thread.   *)
LEMMA SignalDoneStep ==
  ASSUME IInv, NEW t \in Thread, SignalDone(t)
  PROVE  IInv'
<1> USE ConsumerAssumption DEF IInv, SignalDone
<1>0. t \in {w0, Engine}
  BY DEF Control, Thread
<1>1. TypeOK'
  BY <1>0 DEF TypeOK, Place
<1>2. Control'
  BY <1>0 DEF Control, WorkerPlace, ClientPlace, Completing, Holding
<1>3. WorkerView'
  BY <1>0 DEF Control, WorkerView, Completing
<1>4. EngineView'
  BY <1>0 DEF TypeOK, EngineView, Thread, Detached
<1>5. BranchesAreEvents'
  BY <1>0 DEF BranchesAreEvents, Detached
<1>6. OnlyCurrentIsOpen'
  BY <1>0 DEF OnlyCurrentIsOpen
<1>7. QED BY <1>1, <1>2, <1>3, <1>4, <1>5, <1>6

(* A client adds an iteration that is nowhere else to the tail of the      *)
(* queue.                                                                  *)
LEMMA QueueIterationStep ==
  ASSUME IInv, NEW i \in Iteration, QueueIteration(i)
  PROVE  IInv'
<1> USE ConsumerAssumption DEF IInv, QueueIteration
<1>1. TypeOK'
  BY DEF TypeOK, Thread, Place
<1>2. Control'
  BY DEF Control, ClientPlace, Holding
<1>3. WorkerView'
  BY DEF WorkerView
<1>4. EngineView'
  BY DEF EngineView
<1>5. BranchesAreEvents'
  BY DEF BranchesAreEvents
<1>6. OnlyCurrentIsOpen'
  BY DEF OnlyCurrentIsOpen
<1>7. QED BY <1>1, <1>2, <1>3, <1>4, <1>5, <1>6

(* The unlocked test of queue_iteration() only decides where its caller    *)
(* goes on.                                                                *)
LEMMA CheckCurrentStep ==
  ASSUME IInv, CheckCurrent
  PROVE  IInv'
<1> USE ConsumerAssumption DEF IInv, CheckCurrent
<1>1. TypeOK'
  BY DEF TypeOK, Place
<1>2. Control'
  BY DEF TypeOK, Control, Thread, ClientPlace, Holding
<1>3. WorkerView'
  BY DEF TypeOK, WorkerView, Thread
<1>4. EngineView'
  BY DEF TypeOK, EngineView, Thread
<1>5. BranchesAreEvents'
  BY DEF TypeOK, BranchesAreEvents, Thread
<1>6. OnlyCurrentIsOpen'
  BY DEF OnlyCurrentIsOpen
<1>7. QED BY <1>1, <1>2, <1>3, <1>4, <1>5, <1>6

(* A late set() of the event leaves iterations and branches alone.         *)
LEMMA WakeStep ==
  ASSUME IInv, Wake
  PROVE  IInv'
<1> USE ConsumerAssumption DEF IInv, Wake
<1>1. TypeOK'
  BY DEF TypeOK, Place
<1>2. Control'
  BY DEF Control, ClientPlace, Holding
<1>3. WorkerView'
  BY DEF WorkerView
<1>4. EngineView'
  BY DEF TypeOK, EngineView, Thread
<1>5. BranchesAreEvents'
  BY DEF BranchesAreEvents
<1>6. OnlyCurrentIsOpen'
  BY DEF OnlyCurrentIsOpen
<1>7. QED BY <1>1, <1>2, <1>3, <1>4, <1>5, <1>6

(* The event loop handles an event of the current iteration, whose         *)
(* branches it keeps current.                                              *)
LEMMA HandleEventStep ==
  ASSUME IInv, NEW i \in Iteration, HandleEvent(i)
  PROVE  IInv'
<1> USE ConsumerAssumption DEF IInv, HandleEvent
<1>1. TypeOK'
  <2>1. pc' \in [Thread -> Place]
    BY DEF TypeOK, Place
  <2>2. after' \in [Thread -> {"idle", "fire", "join_queue", "set_stop"}]
    BY DEF TypeOK
  <2>3. active' \in [Iteration -> Nat] /\ events' \in [Iteration -> Nat]
    BY DEF TypeOK
  <2>4. QED BY <2>1, <2>2, <2>3 DEF TypeOK
<1>2. Control'
  BY DEF TypeOK, Control, Thread, ClientPlace, Holding
<1>3. WorkerView'
  BY DEF TypeOK, WorkerView, Thread, ClientPlace
<1>4. EngineView'
  BY DEF TypeOK, Control, EngineView, Thread, WorkerPlace, Detached, BranchesAreEvents
<1>5. BranchesAreEvents'
  BY DEF TypeOK, BranchesAreEvents, OnlyCurrentIsOpen
<1>6. OnlyCurrentIsOpen'
  BY DEF TypeOK, OnlyCurrentIsOpen
<1>7. QED BY <1>1, <1>2, <1>3, <1>4, <1>5, <1>6

-----------------------------------------------------------------------------
(* The assumption of the theorems: nobody stops the consumer or starts a   *)
(* second worker. Stop ends the iteration in progress with its branches    *)
(* open, and two workers take two iterations.                              *)
Undisturbed == ~MayStop /\ ~MayReload

(* The steps of stop() are not reachable, and only the event loop and the  *)
(* worker complete iterations.                                             *)
LEMMA CallerSteps ==
  ASSUME IInv, CallerStep
  PROVE  CheckCurrent \/ Wake \/ Complete(Engine)
<1> USE ConsumerAssumption DEF IInv
<1>1. pc[Caller] \notin {"join_queue", "put_stop", "set_stop", "join_worker"}
  BY DEF Control, ClientPlace
<1>2. Caller = Engine \/ ~Complete(Caller)
  BY DEF Control, Complete, Unfreeze, ResetCurrent, TaskDone, SignalDone
<1>3. ~JoinQueue /\ ~PutStop /\ ~SetStop /\ ~JoinWorker
  BY <1>1 DEF JoinQueue, PutStop, SetStop, JoinWorker
<1>4. QED BY <1>2, <1>3 DEF CallerStep

(* Every step of the consumer and its users preserves the invariant.       *)
LEMMA NextStep ==
  ASSUME Undisturbed, IInv, [Next]_vars
  PROVE  IInv'
<1>1. ASSUME NEW t \in Thread, Complete(t) PROVE IInv'
  BY <1>1, UnfreezeStep, ResetCurrentStep, TaskDoneStep, SignalDoneStep
     DEF Complete
<1>2. ASSUME NEW w \in Worker, WorkerStep(w) PROVE IInv'
  <2>1. w \in Thread
    BY DEF Thread
  <2>2. QED
    BY <1>1, <1>2, <2>1, WaitForDoneStep, GetStep, AssertNoCurrentStep,
       AssignCurrentStep, LaunchStep, ChainLaunchedStep, FireStep,
       ClearDoneStep
       DEF WorkerStep
<1>3. Engine \in Thread
  BY DEF Thread
<1>4. CASE EngineStep
  BY <1>1, <1>3, <1>4, HandleEventStep DEF EngineStep
<1>5. CASE CallerStep
  BY <1>1, <1>3, <1>5, CallerSteps, CheckCurrentStep, WakeStep
<1>6. CASE Request
  BY <1>6, QueueIterationStep DEF Request, Stop, Reload, Undisturbed
<1>7. CASE UNCHANGED vars
  BY <1>7 DEF vars, IInv, TypeOK, Control, WorkerView, EngineView, BranchesAreEvents, OnlyCurrentIsOpen, Holding
<1>8. QED
  BY <1>2, <1>4, <1>5, <1>6, <1>7 DEF Next

(* The invariant holds for ever in a consumer nobody stops or reloads.     *)
THEOREM InvariantHolds == Undisturbed => (Safe => []IInv)
<1> SUFFICES ASSUME Undisturbed PROVE Safe => []IInv
  OBVIOUS
<1>1. IInv /\ [Next]_vars => IInv'
  BY NextStep
<1>2. QED BY <1>1, InitIInv, PTL DEF Safe

(* Two iterations are never in progress together, however the threads      *)
(* interleave and whatever the event loop does while the worker launches.  *)
THEOREM OneIterationAtATime == Undisturbed => (Safe => []OnlyCurrentIsOpen)
<1>1. IInv => OnlyCurrentIsOpen
  BY DEF IInv
<1>2. QED BY <1>1, InvariantHolds, PTL

-----------------------------------------------------------------------------
(* The refinement: what each step is in SerialIterations.                  *)
waiting == InHand \o queue

(* A step that leaves the queue, the current iteration and the worker's    *)
(* hands alone is a stutter.                                               *)
LEMMA Stutter ==
  ASSUME UNCHANGED <<queue, current, ended>>,
         Holding(w0)' = Holding(w0),
         Holding(w0) => item'[w0] = item[w0]
  PROVE  UNCHANGED Serial!vars
BY DEF Serial!vars, InHand

(* A step of the consumer is a step, or a stutter, of the serial           *)
(* specification.                                                          *)
LEMMA StepIsSerial ==
  ASSUME Undisturbed, IInv, [Next]_vars
  PROVE  [Serial!Next]_(Serial!vars)
<1> USE ConsumerAssumption
<1>0. /\ pc \in [Thread -> Place] /\ w0 \in Worker /\ w0 \in Thread
      /\ Engine \in Thread /\ Caller \in Thread
      /\ queue \in Seq(Iteration)
  BY DEF IInv, TypeOK, Control, Thread
<1>1. ASSUME NEW t \in Thread, Complete(t) PROVE [Serial!Next]_(Serial!vars)
  <2>1. (~Holding(w0) /\ ~Holding(w0)') \/ UNCHANGED InHand
    <3>1. t \in {w0, Engine}
      BY <1>1 DEF IInv, Control, Thread, Complete, Unfreeze, ResetCurrent, TaskDone, SignalDone
    <3>2. CASE t = w0
      BY <1>0, <1>1, <3>2 DEF Complete, Unfreeze, ResetCurrent, TaskDone, SignalDone, Holding, IInv, Control, Completing
    <3>3. CASE t # w0
      BY <1>0, <1>1, <3>3 DEF Complete, Unfreeze, ResetCurrent, TaskDone, SignalDone, Holding, InHand
    <3>4. QED BY <3>2, <3>3
  <2>2. UNCHANGED waiting
    BY <1>1, <2>1 DEF waiting, InHand, Complete, Unfreeze, ResetCurrent, TaskDone, SignalDone
  <2>3. CASE ResetCurrent(t) /\ current # NoIteration
    BY <2>2, <2>3 DEF ResetCurrent, waiting, Serial!Next, Serial!End
  <2>4. CASE ~ResetCurrent(t) \/ current = NoIteration
    BY <1>1, <2>2, <2>4 DEF Complete, Unfreeze, ResetCurrent, TaskDone,
       SignalDone, waiting, Serial!vars
  <2>5. QED BY <2>3, <2>4
<1>2. ASSUME NEW w \in Worker, WorkerStep(w) PROVE [Serial!Next]_(Serial!vars)
  <2>1. w \in Thread
    BY DEF Thread
  <2>2. w = w0
    BY <1>2, OnlyFirstWorkerRuns DEF WorkerStep, WaitForDone, Get,
       AssertNoCurrent, AssignCurrent, Launch, ChainLaunched, Fire, ClearDone,
       Complete, Unfreeze, ResetCurrent, TaskDone, SignalDone
  <2>3. CASE Get(w)
    <3>1. queue = <<Head(queue)>> \o Tail(queue)
      BY <1>0, <2>3 DEF Get
    <3>2. Head(queue) # StopItem
      BY <2>3, QueueHead DEF Get
    <3>3. InHand = <<>> /\ InHand' = <<Head(queue)>>
      BY <1>0, <2>2, <2>3, <3>2 DEF Get, InHand, Holding, IInv, TypeOK
    <3>4. UNCHANGED waiting
      BY <1>0, <2>3, <3>1, <3>3 DEF Get, waiting
    <3>5. QED BY <2>3, <3>4 DEF Get, waiting, Serial!vars
  <2>4. CASE AssignCurrent(w)
    <3>1. current = NoIteration /\ item[w0] \in Iteration
      BY <2>2, <2>4 DEF AssignCurrent, IInv, Control, WorkerView, Holding
    <3>2. InHand = <<item[w0]>> /\ InHand' = <<>>
      BY <1>0, <2>2, <2>4 DEF AssignCurrent, InHand, Holding
    <3>3. waiting = <<item[w0]>> \o queue /\ waiting' = queue
      BY <1>0, <2>4, <3>2 DEF AssignCurrent, waiting
    <3>4. /\ waiting # <<>> /\ Head(waiting) = item[w0]
          /\ Tail(waiting) = queue
      BY <1>0, <3>1, <3>3
    <3>5. Serial!Begin
      BY <2>2, <2>4, <3>1, <3>3, <3>4
         DEF AssignCurrent, waiting, Serial!Begin
    <3>6. QED BY <3>5 DEF Serial!Next
  <2>5. CASE AssertNoCurrent(w)
    BY <1>0, <2>2, <2>5, Stutter DEF AssertNoCurrent, Holding
  <2>6. CASE \/ WaitForDone(w) \/ Launch(w) \/ ChainLaunched(w) \/ Fire(w)
             \/ ClearDone(w)
    <3>1. UNCHANGED <<queue, current, ended>>
      BY <2>6 DEF WaitForDone, Launch, ChainLaunched, Fire, ClearDone
    <3>2. ~Holding(w0) /\ ~Holding(w0)'
      BY <1>0, <2>2, <2>6 DEF WaitForDone, Launch, ChainLaunched, Fire, ClearDone, Holding
    <3>3. QED BY <3>1, <3>2, Stutter DEF Holding
  <2>7. CASE Complete(w)
    BY <1>1, <2>1, <2>7
  <2>8. QED BY <1>2, <2>3, <2>4, <2>5, <2>6, <2>7 DEF WorkerStep
<1>3. CASE EngineStep
  <2>1. CASE Complete(Engine)
    BY <1>0, <1>1, <2>1
  <2>2. ASSUME NEW i \in Iteration, HandleEvent(i)
        PROVE  UNCHANGED Serial!vars
    BY <1>0, <2>2, Stutter DEF HandleEvent, Holding
  <2>3. QED BY <1>3, <2>1, <2>2 DEF EngineStep
<1>4. CASE CallerStep
  <2>1. CASE Complete(Engine)
    BY <1>0, <1>1, <2>1
  <2>2. CASE CheckCurrent \/ Wake
    <3>1. UNCHANGED <<queue, current, ended, item>>
      BY <2>2 DEF CheckCurrent, Wake
    <3>2. Holding(w0)' = Holding(w0)
      BY <1>0, <2>2 DEF CheckCurrent, Wake, Holding
    <3>3. QED BY <3>1, <3>2, Stutter
  <2>3. QED BY <1>4, <2>1, <2>2, CallerSteps
<1>5. CASE Request
  <2>1. PICK i \in Iteration : QueueIteration(i)
    BY <1>5 DEF Request, Stop, Reload, Undisturbed
  <2>2. InHand' = InHand /\ InHand \in Seq(Iteration)
    BY <1>0, <2>1 DEF QueueIteration, InHand, Holding, IInv, Control
  <2>3. waiting' = Append(waiting, i)
    BY <1>0, <2>1, <2>2 DEF QueueIteration, waiting
  <2>4. Serial!Submit(i)
    BY <2>1, <2>3 DEF QueueIteration, waiting, Serial!Submit
  <2>5. QED BY <2>4 DEF Serial!Next
<1>6. CASE UNCHANGED vars
  BY <1>6, Stutter DEF vars, Holding
<1>7. QED BY <1>2, <1>3, <1>4, <1>5, <1>6 DEF Next

(* The consumer implements SerialIterations: iterations begin one at a time *)
(* and in the order they were submitted, each after the previous has ended, *)
(* even when a stale wakeup lets the worker take one too early.             *)
THEOREM ConsumerIsSerial == Undisturbed => (Safe => InSubmissionOrder)
<1> SUFFICES ASSUME Undisturbed PROVE Safe => InSubmissionOrder
  OBVIOUS
<1>1. Init => Serial!Init
  BY ConsumerAssumption DEF Init, Serial!Init, InHand, Holding, Thread
<1>2. IInv /\ [Next]_vars => [Serial!Next]_(Serial!vars)
  BY StepIsSerial
<1>3. QED
  BY <1>1, <1>2, InvariantHolds, PTL DEF Safe, InSubmissionOrder, Serial!Spec

-----------------------------------------------------------------------------
(* The task count of the queue.  With one worker only two threads can be   *)
(* about to call task_done(), and one can hold an iteration.               *)
Held == IF Holding(w0) THEN 1 ELSE 0
InProgress == IF current = NoIteration THEN 0 ELSE 1
Finishing(t) == IF pc[t] = "task_done" THEN 1 ELSE 0

CountInv ==
  unfinished = Len(queue) + Held + InProgress + Finishing(w0) + Finishing(Engine)

(* Each share of the count is a zero or a one.                             *)
LEMMA Shares ==
  /\ Held \in 0 .. 1 /\ Held' \in 0 .. 1
  /\ InProgress \in 0 .. 1 /\ InProgress' \in 0 .. 1
  /\ \A t : Finishing(t) \in 0 .. 1 /\ Finishing(t)' \in 0 .. 1
BY DEF Held, InProgress, Finishing

(* Completing an iteration moves its share from _current_iteration to the  *)
(* task_done() that is due, and takes it from the count there.             *)
LEMMA CompletionCounts ==
  ASSUME IInv, CountInv, NEW t \in {w0, Engine}, Complete(t)
  PROVE  CountInv'
<1> USE ConsumerAssumption
<1>0. /\ pc \in [Thread -> Place] /\ t \in Thread /\ w0 \in Thread /\ Engine \in Thread
      /\ w0 # Engine /\ Len(queue) \in Nat /\ unfinished \in Nat
  BY DEF IInv, TypeOK, Thread
<1>1. Held' = Held
  <2>1. pc[t] \in Completing
    BY DEF Complete, Unfreeze, ResetCurrent, TaskDone, SignalDone, Completing
  <2>2. CASE t = w0
    <3>1. after[t] = "fire" /\ ~Holding(w0)
      BY <2>1, <2>2 DEF IInv, Control, Completing, Holding
    <3>2. ~Holding(w0)'
      BY <1>0, <2>2, <3>1 DEF Complete, Unfreeze, ResetCurrent, TaskDone, SignalDone, Holding
    <3>3. QED BY <3>1, <3>2 DEF Held
  <2>3. CASE t # w0
    BY <1>0, <2>3 DEF Complete, Unfreeze, ResetCurrent, TaskDone, SignalDone, Held, Holding
  <2>4. QED BY <2>2, <2>3
<1>2. CASE Unfreeze(t)
  <2>1. pc[t] # "task_done" /\ pc'[t] # "task_done"
    BY <1>0, <1>2 DEF Unfreeze
  <2>2. \A u \in Thread \ {t} : pc'[u] = pc[u]
    BY <1>0, <1>2 DEF Unfreeze
  <2>3. QED BY <1>0, <1>1, <1>2, <2>1, <2>2 DEF Unfreeze, CountInv, InProgress, Finishing
<1>3. CASE ResetCurrent(t)
  <2>1. current # NoIteration
    BY <1>3 DEF ResetCurrent, IInv, WorkerView, EngineView
  <2>2. pc[t] = "complete" /\ pc'[t] = "task_done"
    BY <1>0, <1>3 DEF ResetCurrent
  <2>3. \A u \in Thread \ {t} : pc'[u] = pc[u]
    BY <1>0, <1>3 DEF ResetCurrent
  <2>4. InProgress = 1 /\ InProgress' = 0
    BY <1>3, <2>1 DEF ResetCurrent, InProgress
  <2>5. Finishing(t) = 0 /\ Finishing(t)' = 1
    BY <2>2 DEF Finishing
  <2>6. \A u \in {w0, Engine} \ {t} : Finishing(u)' = Finishing(u)
    BY <1>0, <2>3 DEF Finishing
  <2>7. UNCHANGED <<queue, unfinished>>
    BY <1>3 DEF ResetCurrent
  <2>8. QED BY <1>0, <1>1, <2>4, <2>5, <2>6, <2>7, Shares DEF CountInv
<1>4. CASE TaskDone(t)
  <2>1. unfinished > 0
    <3>1. Finishing(t) = 1
      BY <1>4 DEF TaskDone, Finishing
    <3>2. QED BY <1>0, <3>1, Shares DEF CountInv
  <2>2. pc[t] = "task_done" /\ pc'[t] = "signal" /\ unfinished' = unfinished - 1
    BY <1>0, <1>4, <2>1 DEF TaskDone
  <2>3. \A u \in Thread \ {t} : pc'[u] = pc[u]
    BY <1>0, <1>4 DEF TaskDone
  <2>4. Finishing(t) = 1 /\ Finishing(t)' = 0
    BY <2>2 DEF Finishing
  <2>5. \A u \in {w0, Engine} \ {t} : Finishing(u)' = Finishing(u)
    BY <1>0, <2>3 DEF Finishing
  <2>6. UNCHANGED queue /\ InProgress' = InProgress
    BY <1>4 DEF TaskDone, InProgress
  <2>7. QED BY <1>0, <1>1, <2>2, <2>4, <2>5, <2>6, Shares DEF CountInv
<1>5. CASE SignalDone(t)
  <2>1. pc[t] = "signal" /\ pc'[t] # "task_done"
    BY <1>0, <1>5 DEF SignalDone, IInv, TypeOK
  <2>2. \A u \in Thread \ {t} : pc'[u] = pc[u]
    BY <1>0, <1>5 DEF SignalDone
  <2>3. QED BY <1>0, <1>1, <1>5, <2>1, <2>2 DEF SignalDone, CountInv, InProgress, Finishing
<1>6. QED BY <1>2, <1>3, <1>4, <1>5 DEF Complete

(* The worker takes one off the queue into its hands, and from its hands   *)
(* to _current_iteration.                                                  *)
LEMMA WorkerCounts ==
  ASSUME IInv, CountInv, NEW w \in Worker, WorkerStep(w)
  PROVE  CountInv'
<1> USE ConsumerAssumption
<1>0. /\ pc \in [Thread -> Place] /\ w \in Thread /\ w0 \in Thread /\ Engine \in Thread
      /\ w0 # Engine /\ Len(queue) \in Nat /\ queue \in Seq(Iteration)
  BY DEF IInv, TypeOK, Control, Thread
<1>1. w = w0
  BY OnlyFirstWorkerRuns DEF WorkerStep, WaitForDone, Get, AssertNoCurrent,
     AssignCurrent, Launch, ChainLaunched, Fire, ClearDone, Complete, Unfreeze,
     ResetCurrent, TaskDone, SignalDone
<1>2. CASE Complete(w)
  BY <1>1, <1>2, CompletionCounts
<1>3. CASE Get(w)
  <2>1. Len(queue') = Len(queue) - 1 /\ Head(queue) # StopItem
    BY <1>0, <1>3, QueueHead DEF Get
  <2>2. pc[w0] = "get" /\ pc'[w0] = "assert" /\ pc'[Engine] = pc[Engine]
    BY <1>0, <1>1, <1>3, <2>1 DEF Get
  <2>3. QED BY <1>0, <1>3, <2>1, <2>2 DEF Get, CountInv, Held, Holding, InProgress, Finishing
<1>4. CASE AssignCurrent(w)
  <2>1. current = NoIteration /\ current' # NoIteration
    BY <1>1, <1>4 DEF AssignCurrent, IInv, WorkerView, Control, Holding
  <2>2. pc[w0] = "assign" /\ pc'[w0] = "launch" /\ pc'[Engine] = pc[Engine]
    BY <1>0, <1>1, <1>4 DEF AssignCurrent
  <2>3. InProgress = 0 /\ InProgress' = 1 /\ Held = 1 /\ Held' = 0
    BY <2>1, <2>2 DEF InProgress, Held, Holding
  <2>4. Finishing(w0)' = Finishing(w0) /\ Finishing(Engine)' = Finishing(Engine)
    BY <2>2 DEF Finishing
  <2>5. UNCHANGED <<queue, unfinished>>
    BY <1>4 DEF AssignCurrent
  <2>6. QED BY <1>0, <2>3, <2>4, <2>5, Shares DEF CountInv
<1>5. CASE AssertNoCurrent(w)
  <2>1. Holding(w0) /\ Holding(w0)' /\ pc'[Engine] = pc[Engine]
    BY <1>0, <1>1, <1>5 DEF AssertNoCurrent, Holding
  <2>2. pc[w0] # "task_done" /\ pc'[w0] # "task_done"
    BY <1>0, <1>1, <1>5 DEF AssertNoCurrent
  <2>3. QED BY <1>5, <2>1, <2>2 DEF AssertNoCurrent, CountInv, Held, InProgress, Finishing
<1>6. CASE \/ WaitForDone(w) \/ Launch(w) \/ ChainLaunched(w) \/ Fire(w)
           \/ ClearDone(w)
  <2>1. UNCHANGED <<queue, current, unfinished>>
    BY <1>6 DEF WaitForDone, Launch, ChainLaunched, Fire, ClearDone
  <2>2. ~Holding(w0) /\ ~Holding(w0)'
    BY <1>0, <1>1, <1>6 DEF WaitForDone, Launch, ChainLaunched, Fire, ClearDone, Holding
  <2>3. /\ pc[w0] # "task_done" /\ pc'[w0] # "task_done" /\ pc'[Engine] = pc[Engine]
    BY <1>0, <1>1, <1>6 DEF WaitForDone, Launch, ChainLaunched, Fire, ClearDone
  <2>4. QED BY <2>1, <2>2, <2>3 DEF CountInv, Held, InProgress, Finishing
<1>7. QED BY <1>2, <1>3, <1>4, <1>5, <1>6 DEF WorkerStep

(* Every other step leaves the shares alone, or adds one to the queue.     *)
LEMMA NextCounts ==
  ASSUME Undisturbed, IInv, CountInv, [Next]_vars
  PROVE  CountInv'
<1> USE ConsumerAssumption
<1>0. /\ pc \in [Thread -> Place] /\ w0 \in Thread /\ Engine \in Thread /\ Caller \in Thread
      /\ w0 # Engine /\ w0 # Caller /\ Len(queue) \in Nat /\ queue \in Seq(Iteration)
      /\ after[Engine] = "idle" /\ after[Caller] = "idle"
  BY DEF IInv, TypeOK, Control, Thread
<1>1. CASE \E w \in Worker : WorkerStep(w)
  BY <1>1, WorkerCounts
<1>2. CASE Complete(Engine)
  BY <1>2, CompletionCounts
<1>3. ASSUME UNCHANGED <<queue, current, unfinished>>,
             \A t \in Thread \ {Engine, Caller} : pc'[t] = pc[t],
             \A t \in {Engine, Caller} : pc'[t] = pc[t] \/ {pc[t], pc'[t]} \cap {"task_done"} = {}
      PROVE  CountInv'
  BY <1>0, <1>3 DEF CountInv, Held, Holding, InProgress, Finishing
<1>4. ASSUME NEW i \in Iteration, HandleEvent(i) PROVE CountInv'
  BY <1>0, <1>3, <1>4 DEF HandleEvent
<1>5. CASE CheckCurrent \/ Wake
  BY <1>0, <1>3, <1>5 DEF CheckCurrent, Wake
<1>6. ASSUME NEW i \in Iteration, QueueIteration(i) PROVE CountInv'
  <2>1. Len(queue') = Len(queue) + 1 /\ unfinished' = unfinished + 1
    BY <1>0, <1>6 DEF QueueIteration
  <2>2. /\ pc'[w0] = pc[w0] /\ (pc'[Engine] = pc[Engine] \/ {pc[Engine], pc'[Engine]} \cap {"task_done"} = {})
    BY <1>0, <1>6 DEF QueueIteration
  <2>3. unfinished \in Nat
    BY DEF IInv, TypeOK
  <2>4. /\ Held' = Held /\ InProgress' = InProgress
        /\ Finishing(w0)' = Finishing(w0) /\ Finishing(Engine)' = Finishing(Engine)
    BY <1>0, <1>6, <2>2 DEF QueueIteration, Held, Holding, InProgress, Finishing
  <2>5. QED BY <1>0, <2>1, <2>3, <2>4, Shares DEF CountInv
<1>7. CASE UNCHANGED vars
  BY <1>7 DEF vars, CountInv, Held, Holding, InProgress, Finishing
<1>8. CASE CallerStep
  BY <1>2, <1>5, <1>8, CallerSteps
<1>9. CASE Request
  BY <1>6, <1>9 DEF Request, Stop, Reload, Undisturbed
<1>10. QED BY <1>1, <1>2, <1>4, <1>7, <1>8, <1>9 DEF Next, EngineStep

(* The shares are what the property counts.                                *)
LEMMA CountsAreCardinalities ==
  ASSUME IInv, CountInv
  PROVE  TasksAreAccountedFor
<1> USE ConsumerAssumption
<1> DEFINE holders == {w \in Worker : Holding(w)}
           finishers == {t \in Thread : pc[t] = "task_done"}
<1>1. Cardinality(holders) = Held
  <2>1. holders = IF Holding(w0) THEN {w0} ELSE {}
    BY DEF IInv, Control, Holding
  <2>2. QED BY <2>1, FS_EmptySet, FS_Singleton DEF Held
<1>2. Cardinality(finishers) = Finishing(w0) + Finishing(Engine)
  <2>1. \A t \in finishers : t \in {w0, Engine}
    BY DEF IInv, Control, Thread
  <2>2. w0 \in Thread /\ Engine \in Thread /\ w0 # Engine
    BY DEF Thread
  <2>3. IsFiniteSet({w0}) /\ Cardinality({w0}) = 1 /\ Cardinality({Engine}) = 1
    BY FS_Singleton
  <2>4. Cardinality({w0} \cup {Engine}) = 2
    BY <2>2, <2>3, FS_AddElement
  <2>5. finishers = (IF pc[w0] = "task_done" THEN {w0} ELSE {})
                    \cup (IF pc[Engine] = "task_done" THEN {Engine} ELSE {})
    BY <2>1, <2>2
  <2>6. CASE pc[w0] = "task_done" /\ pc[Engine] = "task_done"
    BY <2>4, <2>5, <2>6 DEF Finishing
  <2>7. CASE pc[w0] = "task_done" /\ pc[Engine] # "task_done"
    <3>1. finishers = {w0}
      BY <2>5, <2>7
    <3>2. QED BY <2>3, <2>7, <3>1 DEF Finishing
  <2>8. CASE pc[w0] # "task_done" /\ pc[Engine] = "task_done"
    <3>1. finishers = {Engine}
      BY <2>5, <2>8
    <3>2. QED BY <2>3, <2>8, <3>1 DEF Finishing
  <2>9. CASE pc[w0] # "task_done" /\ pc[Engine] # "task_done"
    <3>1. finishers = {}
      BY <2>5, <2>9
    <3>2. QED BY <2>9, <3>1, FS_EmptySet DEF Finishing
  <2>10. QED BY <2>6, <2>7, <2>8, <2>9
<1>3. Len(queue) \in Nat
  BY DEF IInv, TypeOK
<1> HIDE DEF holders, finishers
<1>4. QED
  <2>1. unfinished = Len(queue) + Cardinality(holders) + InProgress + Cardinality(finishers)
    BY <1>1, <1>2, <1>3, Shares DEF CountInv
  <2>2. QED BY <2>1 DEF TasksAreAccountedFor, InProgress, holders, finishers

(* The count stop() waits on is exact: no interleaving of submissions,     *)
(* completions and the worker loses a task or counts one twice.            *)
THEOREM TaskCountIsExact == Undisturbed => (Safe => []TasksAreAccountedFor)
<1> SUFFICES ASSUME Undisturbed PROVE Safe => []TasksAreAccountedFor
  OBVIOUS
<1>1. Init => CountInv
  BY ConsumerAssumption
     DEF Init, CountInv, Held, Holding, InProgress, Finishing, Thread
<1>2. IInv /\ CountInv /\ [Next]_vars => CountInv'
  BY NextCounts
<1>3. IInv /\ CountInv => TasksAreAccountedFor
  BY CountsAreCardinalities
<1>4. QED BY <1>1, <1>2, <1>3, InvariantHolds, PTL DEF Safe

-----------------------------------------------------------------------------
(* Types, also while clients stop the consumer and reload its model.       *)
(* A place a thread goes to when a method of the consumer returns or       *)
(* raises is one of the places there are.                                  *)
LEMMA PlacesAreKnown ==
  ASSUME TypeOK, NEW t \in Thread
  PROVE  /\ after[t] \in Place
         /\ \A p \in Place : Goto(t, p) => pc' \in [Thread -> Place]
         /\ Return(t) => pc' \in [Thread -> Place]
         /\ Raise(t) => pc' \in [Thread -> Place]
<1> USE DEF TypeOK
<1>1. after[t] \in {"idle", "fire", "join_queue", "set_stop"}
  OBVIOUS
<1>2. after[t] \in Place /\ "idle" \in Place /\ "failed" \in Place /\ "raised" \in Place
  BY <1>1 DEF Place, Terminated
<1>3. \A p \in Place : Goto(t, p) => pc' \in [Thread -> Place]
  OBVIOUS
<1>4. QED BY <1>2, <1>3

(* unfreeze_task_queue() and _complete_task(), on any thread: task_done()   *)
(* raises before the counter could become negative.                        *)
LEMMA CompleteTyped ==
  ASSUME TypeOK, NEW t \in Thread, Complete(t)
  PROVE  TypeOK'
<1>1. pc' \in [Thread -> Place]
  <2>1. {"complete", "task_done", "signal"} \subseteq Place
    BY DEF Place
  <2>2. QED
    BY <2>1, PlacesAreKnown DEF Complete, Unfreeze, ResetCurrent, TaskDone, SignalDone
<1>2. current' \in Iteration \cup {NoIteration} /\ ended' \subseteq Iteration
  BY DEF TypeOK, Complete, Unfreeze, ResetCurrent, TaskDone, SignalDone
<1>3. unfinished' \in Nat /\ doneEvent' \in BOOLEAN
  <2>1. unfinished \in Nat /\ doneEvent \in BOOLEAN
    BY DEF TypeOK
  <2>2. CASE TaskDone(t)
    <3>1. CASE unfinished > 0
      <4>1. unfinished' = unfinished - 1 /\ doneEvent' = doneEvent
        BY <2>2, <3>1 DEF TaskDone
      <4>2. \A n \in Nat : n > 0 => n - 1 \in Nat
        OBVIOUS
      <4>3. QED BY <2>1, <3>1, <4>1, <4>2
    <3>2. CASE ~(unfinished > 0)
      BY <2>1, <2>2, <3>2 DEF TaskDone
    <3>3. QED BY <3>1, <3>2
  <2>3. CASE Unfreeze(t) \/ ResetCurrent(t) \/ SignalDone(t)
    BY <2>1, <2>3 DEF Unfreeze, ResetCurrent, SignalDone
  <2>4. QED BY <2>2, <2>3 DEF Complete
<1>4. UNCHANGED <<queue, latest, after, item, opened, active, events, submitted>>
  BY DEF Complete, Unfreeze, ResetCurrent, TaskDone, SignalDone
<1>5. QED BY <1>1, <1>2, <1>3, <1>4 DEF TypeOK

(* Every statement of _worker(), also of a worker that finds no iteration  *)
(* to be the current one.                                                  *)
LEMMA WorkerTyped ==
  ASSUME TypeOK, NEW w \in Worker, WorkerStep(w)
  PROVE  TypeOK'
<1> USE ConsumerAssumption
<1>0. w \in Thread
  BY DEF Thread
<1>1. {"get", "returned", "assert", "assign", "asserted", "launch", "chain", "fire",
       "unfreeze", "clear", "wait"} \subseteq Place
  BY DEF Place, Terminated
<1>2. CASE WaitForDone(w)
  BY <1>0, <1>1, <1>2, PlacesAreKnown DEF WaitForDone, TypeOK
<1>3. CASE Get(w)
  <2>1. Head(queue) \in Iteration \cup {StopItem} /\ queue' \in Seq(Iteration \cup {StopItem})
    BY <1>3 DEF Get, TypeOK
  <2>2. pc' \in [Thread -> Place]
    BY <1>0, <1>1, <1>3, PlacesAreKnown DEF Get
  <2>3. item' \in [Worker -> Iteration \cup {NoIteration}]
    BY <1>3, <2>1 DEF Get, TypeOK
  <2>4. QED BY <1>3, <2>1, <2>2, <2>3 DEF Get, TypeOK
<1>4. CASE AssertNoCurrent(w)
  BY <1>0, <1>1, <1>4, PlacesAreKnown DEF AssertNoCurrent, TypeOK
<1>5. CASE AssignCurrent(w)
  BY <1>0, <1>1, <1>5, PlacesAreKnown DEF AssignCurrent, TypeOK
<1>6. CASE Launch(w)
  <2>1. pc' \in [Thread -> Place]
    BY <1>0, <1>1, <1>6, PlacesAreKnown DEF Launch
  <2>2. item' \in [Worker -> Iteration \cup {NoIteration}]
    BY <1>6 DEF Launch, TypeOK
  <2>3. opened' \in [Worker -> Nat] /\ active' \in [Iteration -> Nat]
    <3>1. opened \in [Worker -> Nat] /\ active \in [Iteration -> Nat]
      BY DEF TypeOK
    <3>2. CASE current = NoIteration
      BY <1>6, <3>1, <3>2 DEF Launch
    <3>3. CASE current # NoIteration
      <4>1. PICK n \in 0..MaxBranches :
              /\ opened' = [opened EXCEPT ![w] = n]
              /\ active' = [active EXCEPT ![current] = @ + n]
        BY <1>6, <3>3 DEF Launch
      <4>2. current \in Iteration /\ n \in Nat
        BY <3>3 DEF TypeOK
      <4>3. active[current] + n \in Nat
        BY <3>1, <4>2
      <4>4. QED BY <3>1, <4>1, <4>2, <4>3
    <3>4. QED BY <3>2, <3>3
  <2>4. QED BY <1>6, <2>1, <2>2, <2>3 DEF Launch, TypeOK
<1>7. CASE ChainLaunched(w)
  <2>1. pc' \in [Thread -> Place]
    BY <1>0, <1>1, <1>7, PlacesAreKnown DEF ChainLaunched
  <2>2. after' \in [Thread -> {"idle", "fire", "join_queue", "set_stop"}]
    BY <1>0, <1>7 DEF ChainLaunched, TypeOK
  <2>3. QED BY <1>7, <2>1, <2>2 DEF ChainLaunched, TypeOK
<1>8. CASE Fire(w)
  <2>1. pc' \in [Thread -> Place]
    BY <1>0, <1>1, <1>8, PlacesAreKnown DEF Fire
  <2>2. events' \in [Iteration -> Nat] /\ opened' \in [Worker -> Nat]
    <3>1. /\ events \in [Iteration -> Nat] /\ opened \in [Worker -> Nat]
          /\ opened[w] \in Nat
      BY DEF TypeOK
    <3>2. /\ events' = [events EXCEPT ![item[w]] = @ + opened[w]]
          /\ opened' = [opened EXCEPT ![w] = 0]
      BY <1>8 DEF Fire
    <3>3. \A i \in Iteration : events[i] + opened[w] \in Nat
      BY <3>1
    <3>4. events' \in [Iteration -> Nat]
      BY <3>1, <3>2, <3>3
    <3>5. QED BY <3>1, <3>2, <3>4
  <2>3. QED BY <1>8, <2>1, <2>2 DEF Fire, TypeOK
<1>9. CASE ClearDone(w)
  BY <1>0, <1>1, <1>9, PlacesAreKnown DEF ClearDone, TypeOK
<1>10. CASE Complete(w)
  BY <1>0, <1>10, CompleteTyped
<1>11. QED
  BY <1>2, <1>3, <1>4, <1>5, <1>6, <1>7, <1>8, <1>9, <1>10 DEF WorkerStep

(* An event handled counts down events and branches that there are.        *)
LEMMA HandleEventTyped ==
  ASSUME TypeOK, NEW i \in Iteration, HandleEvent(i)
  PROVE  TypeOK'
<1>0. Engine \in Thread /\ "unfreeze" \in Place
  BY DEF Thread, Place
<1>1. pc' \in [Thread -> Place]
  BY <1>0, PlacesAreKnown DEF HandleEvent, TypeOK
<1>2. after' \in [Thread -> {"idle", "fire", "join_queue", "set_stop"}]
  BY <1>0 DEF HandleEvent, TypeOK
<1>3. events' \in [Iteration -> Nat] /\ active' \in [Iteration -> Nat]
  <2>1. events \in [Iteration -> Nat] /\ active \in [Iteration -> Nat]
    BY DEF TypeOK
  <2>2. events[i] > 0 /\ events' = [events EXCEPT ![i] = @ - 1]
    BY DEF HandleEvent
  <2>3. events[i] - 1 \in Nat /\ (active[i] > 0 => active[i] - 1 \in Nat)
    BY <2>1, <2>2
  <2>4. \/ active' = active
        \/ active[i] > 0 /\ active' = [active EXCEPT ![i] = @ - 1]
    BY DEF HandleEvent
  <2>5. QED BY <2>1, <2>2, <2>3, <2>4
<1>4. QED BY <1>1, <1>2, <1>3 DEF HandleEvent, TypeOK

(* What a caller of queue_iteration() or stop() does once it is in there.  *)
LEMMA CallerTyped ==
  ASSUME TypeOK, CallerStep
  PROVE  TypeOK'
<1> USE ConsumerAssumption
<1>0. /\ Caller \in Thread
      /\ {"wake", "put_stop", "check", "join_worker", "stopped"} \subseteq Place
  BY DEF Thread, Place
<1>1. CASE CheckCurrent
  BY <1>0, <1>1, PlacesAreKnown DEF CheckCurrent, TypeOK
<1>2. CASE Wake
  BY <1>0, <1>2, PlacesAreKnown DEF Wake, TypeOK
<1>3. CASE JoinQueue
  BY <1>0, <1>3, PlacesAreKnown DEF JoinQueue, TypeOK
<1>4. CASE PutStop
  <2>1. queue' \in Seq(Iteration \cup {StopItem})
    BY <1>4 DEF PutStop, TypeOK
  <2>2. pc' \in [Thread -> Place]
    BY <1>0, <1>4, PlacesAreKnown DEF PutStop
  <2>3. QED BY <1>4, <2>1, <2>2 DEF PutStop, TypeOK
<1>5. CASE SetStop
  BY <1>0, <1>5, PlacesAreKnown DEF SetStop, TypeOK
<1>6. CASE JoinWorker
  BY <1>0, <1>6, PlacesAreKnown DEF JoinWorker, TypeOK
<1>7. CASE Complete(Caller)
  BY <1>0, <1>7, CompleteTyped
<1>8. QED BY <1>1, <1>2, <1>3, <1>4, <1>5, <1>6, <1>7 DEF CallerStep

(* A submission, a stop and a reload put known items in known places.      *)
LEMMA RequestTyped ==
  ASSUME TypeOK, Request
  PROVE  TypeOK'
<1> USE ConsumerAssumption
<1>0. /\ Caller \in Thread /\ Worker \subseteq Thread
      /\ {"check", "complete", "put_stop", "wait"} \subseteq Place
  BY DEF Thread, Place
<1>1. ASSUME NEW i \in Iteration, QueueIteration(i) PROVE TypeOK'
  <2>1. queue' \in Seq(Iteration \cup {StopItem}) /\ submitted' \subseteq Iteration
    BY <1>1 DEF QueueIteration, TypeOK
  <2>2. pc' \in [Thread -> Place]
    BY <1>0, <1>1, PlacesAreKnown DEF QueueIteration
  <2>3. after' \in [Thread -> {"idle", "fire", "join_queue", "set_stop"}]
    BY <1>0, <1>1 DEF QueueIteration, TypeOK
  <2>4. QED BY <1>1, <2>1, <2>2, <2>3 DEF QueueIteration, TypeOK
<1>2. CASE Stop
  BY <1>0, <1>2, PlacesAreKnown DEF Stop, TypeOK
<1>3. ASSUME NEW w \in Worker, Reload(w) PROVE TypeOK'
  BY <1>0, <1>3, PlacesAreKnown DEF Reload, TypeOK
<1>4. QED BY <1>1, <1>2, <1>3 DEF Request

(* The types are inductive by themselves.                                  *)
LEMMA NextTyped ==
  ASSUME TypeOK, [Next]_vars
  PROVE  TypeOK'
<1>1. CASE \E w \in Worker : WorkerStep(w)
  BY <1>1, WorkerTyped
<1>2. CASE EngineStep
  <2>1. Engine \in Thread
    BY DEF Thread
  <2>2. QED BY <1>2, <2>1, HandleEventTyped, CompleteTyped DEF EngineStep
<1>3. CASE CallerStep
  BY <1>3, CallerTyped
<1>4. CASE Request
  BY <1>4, RequestTyped
<1>5. CASE UNCHANGED vars
  BY <1>5 DEF vars, TypeOK
<1>6. QED BY <1>1, <1>2, <1>3, <1>4, <1>5 DEF Next

(* The variables of the consumer hold values of their kinds whatever its   *)
(* clients do: submit early, stop it at any moment, reload its model. In   *)
(* particular the queue's task counter never becomes negative.             *)
THEOREM TypeCorrect == Safe => []TypeOK
<1>1. Init => TypeOK
  BY ConsumerAssumption DEF Init, TypeOK, Place
<1>2. TypeOK /\ [Next]_vars => TypeOK'
  BY NextTyped
<1>3. QED BY <1>1, <1>2, PTL DEF Safe

-----------------------------------------------------------------------------
(* Without a reload there is one worker, and stop() has returned only when *)
(* that worker is gone.                                                    *)
OneStarted ==
  /\ latest = w0
  /\ \A w \in Worker \ {w0} : pc[w] = "unborn"
  /\ pc[Caller] = "stopped" => pc[w0] \in Terminated

(* The only worker that takes steps is the first, and it is not gone.      *)
LEMMA StartedWorkerSteps ==
  ASSUME OneStarted, NEW w \in Worker, WorkerStep(w)
  PROVE  w = w0 /\ pc[w] \notin Terminated
<1>1. pc[w] # "unborn" /\ pc[w] \notin Terminated
  BY DEF WorkerStep, WaitForDone, Get, AssertNoCurrent, AssignCurrent, Launch,
     ChainLaunched, Fire, ClearDone, Complete, Unfreeze, ResetCurrent, TaskDone,
     SignalDone, Terminated
<1>2. QED BY <1>1 DEF OneStarted

(* Only a reload would start another worker, and stop() passes its join()  *)
(* only when the worker it joins has terminated.                           *)
LEMMA OneStartedStays ==
  ASSUME ~MayReload, TypeOK, OneStarted, [Next]_vars
  PROVE  OneStarted'
<1> USE ConsumerAssumption
<1>0. /\ pc \in [Thread -> Place] /\ Worker \subseteq Thread
      /\ Engine \in Thread /\ Caller \in Thread /\ w0 \in Worker
      /\ \A w \in Worker : w # Caller /\ w # Engine
  BY DEF TypeOK, Thread
<1>1. ASSUME latest' = latest, \A w \in Worker : pc'[w] = pc[w],
             pc'[Caller] = "stopped" => pc[Caller] = "stopped"
      PROVE  OneStarted'
  BY <1>1 DEF OneStarted
<1>2. ASSUME NEW w \in Worker, WorkerStep(w) PROVE OneStarted'
  <2>1. w = w0 /\ pc[w0] \notin Terminated
    BY <1>2, StartedWorkerSteps
  <2>2. latest' = latest /\ \A t \in Thread \ {w} : pc'[t] = pc[t]
    BY <1>0, <1>2 DEF WorkerStep, WaitForDone, Get, AssertNoCurrent, AssignCurrent,
       Launch, ChainLaunched, Fire, ClearDone, Complete, Unfreeze, ResetCurrent,
       TaskDone, SignalDone
  <2>3. QED BY <1>0, <2>1, <2>2 DEF OneStarted
<1>3. ASSUME NEW t \in {Engine, Caller}, Complete(t) PROVE OneStarted'
  <2>1. after[t] # "stopped"
    BY DEF TypeOK, Thread
  <2>2. latest' = latest /\ \A w \in Worker : pc'[w] = pc[w]
    BY <1>0, <1>3 DEF Complete, Unfreeze, ResetCurrent, TaskDone, SignalDone
  <2>3. pc'[Caller] = "stopped" => pc[Caller] = "stopped"
    BY <1>0, <1>3, <2>1 DEF Complete, Unfreeze, ResetCurrent, TaskDone, SignalDone
  <2>4. QED BY <1>1, <2>2, <2>3
<1>4. ASSUME NEW i \in Iteration, HandleEvent(i) PROVE OneStarted'
  BY <1>0, <1>1, <1>4 DEF HandleEvent
<1>5. CASE CheckCurrent \/ Wake
  <2>1. after[Caller] # "stopped"
    BY <1>0 DEF TypeOK
  <2>2. QED BY <1>0, <1>1, <1>5, <2>1 DEF CheckCurrent, Wake
<1>6. CASE JoinQueue \/ PutStop \/ SetStop
  BY <1>0, <1>1, <1>6 DEF JoinQueue, PutStop, SetStop
<1>7. CASE JoinWorker
  BY <1>0, <1>7 DEF JoinWorker, OneStarted
<1>8. CASE Request
  BY <1>0, <1>1, <1>8 DEF Request, QueueIteration, Stop, Reload
<1>9. CASE UNCHANGED vars
  BY <1>1, <1>9 DEF vars
<1>10. QED
  BY <1>2, <1>3, <1>4, <1>5, <1>6, <1>7, <1>8, <1>9 DEF Next, EngineStep, CallerStep

(* A consumer that has just been created has started its first worker.     *)
LEMMA InitOneStarted == Init => OneStarted
BY ConsumerAssumption DEF Init, OneStarted, Thread

(* After stop() has returned only the event loop still acts.               *)
LEMMA StoppedStep ==
  ASSUME ~MayReload, TypeOK, OneStarted, pc[Caller] = "stopped", Next
  PROVE  (\E i \in Iteration : HandleEvent(i)) \/ Complete(Engine)
<1>1. ~ \E w \in Worker : WorkerStep(w)
  BY StartedWorkerSteps DEF OneStarted
<1>2. ~CallerStep
  BY DEF CallerStep, CheckCurrent, Wake, JoinQueue, PutStop, SetStop, JoinWorker,
     Complete, Unfreeze, ResetCurrent, TaskDone, SignalDone
<1>3. ~Request
  BY DEF Request, QueueIteration, Stop, Reload
<1>4. QED BY <1>1, <1>2, <1>3 DEF Next, EngineStep

(* Once stop() has returned no iteration begins and no event is fired, at  *)
(* whatever moment it was called and whatever was queued, as long as no    *)
(* model update has started a second worker: stop() joins only the latest. *)
THEOREM NothingBeginsOnceStopped == ~MayReload => (Safe => NothingBeginsAfterStop)
<1> SUFFICES ASSUME ~MayReload PROVE Safe => NothingBeginsAfterStop
  OBVIOUS
<1> DEFINE Ends ==
      pc[Caller] = "stopped" =>
        /\ current' \in {current, NoIteration}
        /\ \A i \in Iteration : events'[i] <= events[i]
<1>1. TypeOK /\ OneStarted /\ [Next]_vars => [Ends]_vars
  <2> SUFFICES ASSUME TypeOK, OneStarted, Next, pc[Caller] = "stopped"
               PROVE  /\ current' \in {current, NoIteration}
                      /\ \A i \in Iteration : events'[i] <= events[i]
    OBVIOUS
  <2>1. CASE \E i \in Iteration : HandleEvent(i)
    BY <2>1 DEF HandleEvent, TypeOK
  <2>2. CASE Complete(Engine)
    BY <2>2 DEF Complete, Unfreeze, ResetCurrent, TaskDone, SignalDone, TypeOK
  <2>3. QED BY <2>1, <2>2, StoppedStep
<1>2. Safe => []OneStarted
  <2>1. TypeOK /\ OneStarted /\ [Next]_vars => OneStarted'
    BY OneStartedStays
  <2>2. QED BY <2>1, InitOneStarted, TypeCorrect, PTL DEF Safe
<1>3. QED BY <1>1, <1>2, TypeCorrect, PTL DEF Safe, NothingBeginsAfterStop

-----------------------------------------------------------------------------
(* The worker's assertion, for clients that wait for the announcement (or  *)
(* longer) and may stop the consumer: at most one iteration is on its way  *)
(* to the worker, and the one in progress, if any, is being completed by   *)
(* the worker itself, which may fail in it or leave at the stop item.      *)
Waiting(i) == i \in submitted /\ i \notin ended /\ i # current

LettingGo == {"unfreeze", "complete", "raised", "returned"}

OneOnItsWay ==
  /\ ended \subseteq submitted
  /\ current # NoIteration => current \in submitted /\ current \notin ended
  /\ \A k \in 1 .. Len(queue) : queue[k] # StopItem =>
       /\ Waiting(queue[k]) /\ ~Holding(w0)
       /\ current = NoIteration \/ pc[w0] \in LettingGo
       /\ \A j \in 1 .. Len(queue) : queue[j] # StopItem => j = k
  /\ Holding(w0) => Waiting(item[w0]) /\ current = NoIteration
  /\ pc[w0] # "asserted"

(* A step that submits and completes nothing, and after which the worker   *)
(* is no less on its way out.                                              *)
LEMMA StaysAlone ==
  ASSUME OneOnItsWay, UNCHANGED <<queue, current, ended, submitted, item>>,
         \/ pc'[w0] = pc[w0]
         \/ /\ ~Holding(w0) /\ ~Holding(w0)'
            /\ pc[w0] \in LettingGo => pc'[w0] \in LettingGo
  PROVE  OneOnItsWay'
BY DEF OneOnItsWay, Waiting, Holding

(* A client that waits submits when no other iteration is queued or in the *)
(* worker's hands.                                                         *)
LEMMA SubmissionIsAlone ==
  ASSUME Patience # "none", TypeOK, OneStarted, OneOnItsWay,
         NEW i \in Iteration, QueueIteration(i)
  PROVE  OneOnItsWay'
<1> USE ConsumerAssumption
<1>0. /\ pc \in [Thread -> Place] /\ w0 \in Thread /\ Caller \in Thread /\ w0 # Caller
      /\ queue \in Seq(Iteration \cup {StopItem}) /\ Len(queue) \in Nat
  BY DEF TypeOK, Thread
<1>1. /\ \A k \in 1 .. Len(queue) : queue[k] = StopItem
      /\ ~Holding(w0)
      /\ current = NoIteration \/ pc[w0] \in LettingGo
  <2>1. CASE Patience = "rest"
    <3>1. queue = <<>> /\ current = NoIteration /\ pc[w0] \in {"unborn", "wait", "get"}
      BY <2>1 DEF QueueIteration, MaySubmit, AtRest
    <3>2. QED BY <3>1 DEF Holding
  <2>2. CASE Patience = "announced"
    <3>1. \A j \in submitted :
             j \in ended \/ (j = current /\ \E w \in Worker : pc[w] \in {"unfreeze", "complete"})
      BY <2>2 DEF QueueIteration, MaySubmit, Announced
    <3>2. \A k \in 1 .. Len(queue) : queue[k] = StopItem
      BY <3>1 DEF OneOnItsWay, Waiting
    <3>3. ~Holding(w0)
      BY <3>1 DEF OneOnItsWay, Waiting
    <3>4. \A w \in Worker : pc[w] \in {"unfreeze", "complete"} => w = w0
      BY DEF OneStarted
    <3>5. current = NoIteration \/ pc[w0] \in LettingGo
      BY <3>1, <3>4 DEF OneOnItsWay, LettingGo
    <3>6. QED BY <3>2, <3>3, <3>5
  <2>3. QED BY <2>1, <2>2
<1>2. /\ queue' = Append(queue, i) /\ i \notin submitted
      /\ submitted' = submitted \cup {i}
  BY DEF QueueIteration
<1>3. pc'[w0] = pc[w0] /\ UNCHANGED <<current, ended, item>>
  BY <1>0 DEF QueueIteration
<1>4. i \notin ended /\ i # current
  BY <1>2 DEF OneOnItsWay
<1>5. /\ Len(queue') = Len(queue) + 1
      /\ \A k \in 1 .. Len(queue') : queue'[k] # StopItem => k = Len(queue') /\ queue'[k] = i
  BY <1>0, <1>1, <1>2
<1>6. ended' \subseteq submitted'
  BY <1>2, <1>3 DEF OneOnItsWay
<1>7. Waiting(i)'
  BY <1>2, <1>3, <1>4 DEF Waiting
<1>8. ~Holding(w0)'
  BY <1>1, <1>3 DEF Holding
<1>9. current # NoIteration => current' \in submitted' /\ current' \notin ended'
  BY <1>2, <1>3 DEF OneOnItsWay
<1>10. \A k \in 1 .. Len(queue') : queue'[k] # StopItem =>
         /\ Waiting(queue[k])' /\ ~Holding(w0)'
         /\ current' = NoIteration \/ pc'[w0] \in LettingGo
         /\ \A j \in 1 .. Len(queue') : queue'[j] # StopItem => j = k
  BY <1>1, <1>3, <1>5, <1>7, <1>8
<1>11. QED BY <1>3, <1>6, <1>8, <1>9, <1>10 DEF OneOnItsWay, Holding

(* The item that stops the worker queues no iteration.                     *)
LEMMA StopItemIsNone ==
  ASSUME TypeOK, OneOnItsWay, PutStop
  PROVE  OneOnItsWay'
<1> USE ConsumerAssumption
<1>1. /\ pc \in [Thread -> Place] /\ w0 \in Thread /\ Caller \in Thread /\ w0 # Caller
      /\ queue \in Seq(Iteration \cup {StopItem}) /\ Len(queue) \in Nat
  BY DEF TypeOK, Thread
<1>2. pc'[w0] = pc[w0] /\ UNCHANGED <<current, ended, item, submitted>>
  BY <1>1 DEF PutStop
<1>3. \A k \in 1 .. Len(queue') : queue'[k] # StopItem =>
         k \in 1 .. Len(queue) /\ queue'[k] = queue[k]
  BY <1>1 DEF PutStop
<1>4. QED BY <1>2, <1>3 DEF OneOnItsWay, Waiting, Holding

(* A thread that completes the iteration in progress adds it to those that *)
(* have ended, and leaves the one on its way alone.                        *)
LEMMA CompletionIsAlone ==
  ASSUME TypeOK, OneOnItsWay, NEW t \in {w0, Engine, Caller}, Complete(t)
  PROVE  OneOnItsWay'
<1> USE ConsumerAssumption
<1>0. /\ pc \in [Thread -> Place] /\ t \in Thread /\ w0 \in Thread
      /\ w0 # Engine /\ w0 # Caller
      /\ after[t] \in {"idle", "fire", "join_queue", "set_stop"}
      /\ submitted \subseteq Iteration
  BY DEF TypeOK, Thread
<1>1. \/ pc'[w0] = pc[w0]
      \/ ~Holding(w0) /\ ~Holding(w0)'
  <2>1. CASE t = w0
    BY <1>0, <2>1 DEF Complete, Unfreeze, ResetCurrent, TaskDone, SignalDone, Holding
  <2>2. CASE t # w0
    BY <1>0, <2>2 DEF Complete, Unfreeze, ResetCurrent, TaskDone, SignalDone
  <2>3. QED BY <2>1, <2>2
<1>2. CASE ResetCurrent(t)
  <2>1. /\ current' = NoIteration /\ UNCHANGED <<queue, item, submitted>>
        /\ ended' = IF current = NoIteration THEN ended ELSE ended \cup {current}
    BY <1>2 DEF ResetCurrent
  <2>2. \A i : Waiting(i) => Waiting(i)'
    BY <1>0, <2>1 DEF Waiting
  <2>3. ended' \subseteq submitted'
    BY <2>1 DEF OneOnItsWay
  <2>4. (Holding(w0)' <=> Holding(w0)) /\ pc'[w0] # "asserted"
    BY <1>1 DEF OneOnItsWay, Holding
  <2>5. Holding(w0)' => Waiting(item[w0])'
    BY <2>1, <2>2, <2>4 DEF OneOnItsWay
  <2>6. \A k \in 1 .. Len(queue') : queue'[k] # StopItem =>
          /\ Waiting(queue[k])' /\ ~Holding(w0)'
          /\ \A j \in 1 .. Len(queue') : queue'[j] # StopItem => j = k
    BY <2>1, <2>2, <2>4 DEF OneOnItsWay
  <2>7. QED BY <2>1, <2>3, <2>4, <2>5, <2>6 DEF OneOnItsWay
<1>3. CASE Unfreeze(t)
  <2>1. pc[w0] \in LettingGo => pc'[w0] \in LettingGo
    BY <1>0, <1>3 DEF Unfreeze, LettingGo
  <2>2. UNCHANGED <<queue, current, ended, submitted, item>>
    BY <1>3 DEF Unfreeze
  <2>3. QED BY <1>1, <2>1, <2>2, StaysAlone
<1>4. CASE TaskDone(t) \/ SignalDone(t)
  <2>1. pc[w0] \in LettingGo => pc'[w0] \in LettingGo
    BY <1>0, <1>4 DEF TaskDone, SignalDone, LettingGo
  <2>2. UNCHANGED <<queue, current, ended, submitted, item>>
    BY <1>4 DEF TaskDone, SignalDone
  <2>3. QED BY <1>1, <2>1, <2>2, StaysAlone
<1>5. QED BY <1>2, <1>3, <1>4 DEF Complete

(* The worker takes the only iteration there is, or the stop item, and     *)
(* finds no iteration in progress: the one that kept the other waiting was *)
(* its own.                                                                *)
LEMMA GetIsAlone ==
  ASSUME TypeOK, OneOnItsWay, Get(w0)
  PROVE  OneOnItsWay'
<1> USE ConsumerAssumption
<1>0. /\ pc \in [Thread -> Place] /\ w0 \in Thread /\ pc[w0] = "get"
      /\ queue \in Seq(Iteration \cup {StopItem}) /\ Len(queue) \in Nat
      /\ item \in [Worker -> Iteration \cup {NoIteration}]
  BY DEF TypeOK, Thread, Get
<1>1. /\ Len(queue) > 0 /\ Head(queue) = queue[1] /\ Len(queue') = Len(queue) - 1
      /\ \A k \in 1 .. Len(queue') : k + 1 \in 1 .. Len(queue) /\ queue'[k] = queue[k + 1]
  BY <1>0 DEF Get
<1>2. ~Holding(w0) /\ pc[w0] \notin LettingGo /\ UNCHANGED <<current, ended, submitted>>
  BY <1>0 DEF Get, Holding, LettingGo
<1>3. \A i : Waiting(i)' <=> Waiting(i)
  BY <1>2 DEF Waiting
<1>4. CASE Head(queue) = StopItem
  <2>1. pc'[w0] = "returned" /\ item' = item
    BY <1>0, <1>4 DEF Get
  <2>2. \A k \in 1 .. Len(queue') : queue'[k] # StopItem =>
           /\ Waiting(queue'[k])
           /\ \A j \in 1 .. Len(queue') : queue'[j] # StopItem => j = k
    <3>1. TAKE k \in 1 .. Len(queue')
    <3>2. HAVE queue'[k] # StopItem
    <3>3. k + 1 \in 1 .. Len(queue) /\ queue[k + 1] # StopItem /\ queue'[k] = queue[k + 1]
      BY <1>1, <3>2
    <3>4. /\ Waiting(queue[k + 1])
          /\ \A m \in 1 .. Len(queue) : queue[m] # StopItem => m = k + 1
      BY <3>3 DEF OneOnItsWay
    <3>5. \A j \in 1 .. Len(queue') : queue'[j] # StopItem => j + 1 = k + 1
      BY <1>1, <3>4
    <3>6. \A j \in 1 .. Len(queue') : j + 1 = k + 1 => j = k
      BY <1>0, <1>1
    <3>7. QED BY <3>3, <3>4, <3>5, <3>6
  <2>3. QED BY <1>2, <1>3, <2>1, <2>2 DEF OneOnItsWay, LettingGo, Holding
<1>5. CASE Head(queue) # StopItem
  <2>1. pc'[w0] = "assert" /\ item'[w0] = Head(queue)
    BY <1>0, <1>5 DEF Get
  <2>2. 1 \in 1 .. Len(queue)
    BY <1>0, <1>1
  <2>3. /\ Waiting(Head(queue)) /\ current = NoIteration
        /\ \A m \in 1 .. Len(queue) : queue[m] # StopItem => m = 1
    BY <1>1, <1>2, <1>5, <2>2 DEF OneOnItsWay
  <2>4. \A k \in 1 .. Len(queue') : queue'[k] = StopItem
    <3>1. TAKE k \in 1 .. Len(queue')
    <3>2. k + 1 # 1
      BY <1>0, <1>1
    <3>3. QED BY <1>1, <2>3, <3>2
  <2>5. QED BY <1>2, <1>3, <2>1, <2>3, <2>4 DEF OneOnItsWay, Holding
<1>6. QED BY <1>4, <1>5

(* The worker only moves the one on its way from the queue to its hands    *)
(* and makes it the current one.                                           *)
LEMMA WorkerIsAlone ==
  ASSUME TypeOK, OneOnItsWay, WorkerStep(w0)
  PROVE  OneOnItsWay'
<1> USE ConsumerAssumption
<1>0. /\ pc \in [Thread -> Place] /\ w0 \in Thread
      /\ item \in [Worker -> Iteration \cup {NoIteration}]
  BY DEF TypeOK, Thread
<1>1. CASE Complete(w0)
  BY <1>1, CompletionIsAlone
<1>2. CASE Get(w0)
  BY <1>2, GetIsAlone
<1>3. CASE AssertNoCurrent(w0)
  <2>1. Holding(w0) /\ current = NoIteration
    BY <1>3 DEF AssertNoCurrent, OneOnItsWay, Holding
  <2>2. pc'[w0] = "assign" /\ UNCHANGED <<queue, current, ended, submitted, item>>
    BY <1>0, <1>3, <2>1 DEF AssertNoCurrent
  <2>3. QED BY <2>1, <2>2 DEF OneOnItsWay, Waiting, Holding
<1>4. CASE AssignCurrent(w0)
  <2>1. Holding(w0)
    BY <1>4 DEF AssignCurrent, Holding
  <2>2. Waiting(item[w0]) /\ \A k \in 1 .. Len(queue) : queue[k] = StopItem
    BY <2>1 DEF OneOnItsWay
  <2>3. /\ current' = item[w0] /\ pc'[w0] = "launch"
        /\ UNCHANGED <<queue, ended, submitted, item>>
    BY <1>0, <1>4 DEF AssignCurrent
  <2>4. QED BY <2>2, <2>3 DEF OneOnItsWay, Waiting, Holding
<1>5. CASE Launch(w0)
  <2>1. UNCHANGED <<queue, current, ended, submitted>> /\ pc[w0] = "launch"
    BY <1>5 DEF Launch
  <2>2. pc'[w0] \in {"raised", "chain"}
    BY <1>0, <1>5 DEF Launch
  <2>3. ~Holding(w0) /\ ~Holding(w0)' /\ pc'[w0] # "asserted" /\ pc[w0] \notin LettingGo
    BY <2>1, <2>2 DEF Holding, LettingGo
  <2>4. QED BY <2>1, <2>3 DEF OneOnItsWay, Waiting
<1>6. CASE ClearDone(w0)
  <2>1. UNCHANGED <<queue, current, ended, submitted>> /\ pc[w0] = "clear" /\ pc'[w0] = "wait"
    BY <1>0, <1>6 DEF ClearDone
  <2>2. ~Holding(w0) /\ ~Holding(w0)' /\ pc'[w0] # "asserted" /\ pc[w0] \notin LettingGo
    BY <2>1 DEF Holding, LettingGo
  <2>3. QED BY <2>1, <2>2 DEF OneOnItsWay, Waiting
<1>7. CASE WaitForDone(w0) \/ ChainLaunched(w0) \/ Fire(w0)
  <2>1. UNCHANGED <<queue, current, ended, submitted, item>>
    BY <1>7 DEF WaitForDone, ChainLaunched, Fire
  <2>2. /\ pc[w0] \in {"wait", "chain", "fire"}
        /\ pc'[w0] \in {"get", "raised", "unfreeze", "fire", "clear"}
    BY <1>0, <1>7 DEF WaitForDone, ChainLaunched, Fire
  <2>3. ~Holding(w0) /\ ~Holding(w0)' /\ pc[w0] \notin LettingGo
    BY <2>2 DEF Holding, LettingGo
  <2>4. QED BY <2>1, <2>3, StaysAlone
<1>8. QED BY <1>1, <1>2, <1>3, <1>4, <1>5, <1>6, <1>7 DEF WorkerStep

(* Every step keeps at most one iteration on its way.                      *)
LEMMA NextIsAlone ==
  ASSUME ~MayReload, Patience # "none", TypeOK, OneStarted, OneOnItsWay, [Next]_vars
  PROVE  OneOnItsWay'
<1> USE ConsumerAssumption
<1>0. /\ pc \in [Thread -> Place] /\ w0 \in Thread /\ Engine \in Thread /\ Caller \in Thread
      /\ w0 # Engine /\ w0 # Caller
  BY DEF TypeOK, Thread
<1>1. ASSUME NEW w \in Worker, WorkerStep(w) PROVE OneOnItsWay'
  <2>1. w = w0
    BY <1>1, StartedWorkerSteps
  <2>2. QED BY <1>1, <2>1, WorkerIsAlone
<1>2. CASE Complete(Engine) \/ Complete(Caller)
  BY <1>2, CompletionIsAlone
<1>3. ASSUME NEW i \in Iteration, HandleEvent(i) PROVE OneOnItsWay'
  <2>1. UNCHANGED <<queue, current, ended, submitted, item>> /\ pc'[w0] = pc[w0]
    BY <1>0, <1>3 DEF HandleEvent
  <2>2. QED BY <2>1, StaysAlone
<1>4. CASE CheckCurrent \/ Wake \/ JoinQueue \/ SetStop \/ JoinWorker
  <2>1. UNCHANGED <<queue, current, ended, submitted, item>> /\ pc'[w0] = pc[w0]
    BY <1>0, <1>4 DEF CheckCurrent, Wake, JoinQueue, SetStop, JoinWorker
  <2>2. QED BY <2>1, StaysAlone
<1>5. CASE Stop
  <2>1. UNCHANGED <<queue, current, ended, submitted, item>> /\ pc'[w0] = pc[w0]
    BY <1>0, <1>5 DEF Stop
  <2>2. QED BY <2>1, StaysAlone
<1>6. CASE UNCHANGED vars
  BY <1>6, StaysAlone DEF vars
<1>7. CASE Request
  BY <1>5, <1>7, SubmissionIsAlone DEF Request, Reload
<1>8. QED
  BY <1>1, <1>2, <1>3, <1>4, <1>6, <1>7, StopItemIsNone DEF Next, EngineStep, CallerStep

(* The assertion of the worker, iteration_consumer.py:92, never fails for  *)
(* clients that wait for the announcement, or for the consumer to rest,    *)
(* between two submissions, and that may stop it at any moment.            *)
THEOREM AssertionNeverFails ==
  ~MayReload /\ Patience # "none" => (Safe => []AssertionHolds)
<1> SUFFICES ASSUME ~MayReload, Patience # "none" PROVE Safe => []AssertionHolds
  OBVIOUS
<1>1. Init => OneOnItsWay
  BY ConsumerAssumption DEF Init, OneOnItsWay, Holding, Thread
<1>2. TypeOK /\ OneStarted /\ [Next]_vars => OneStarted'
  BY OneStartedStays
<1>3. TypeOK /\ OneStarted /\ OneOnItsWay /\ [Next]_vars => OneOnItsWay'
  BY NextIsAlone
<1>4. OneStarted /\ OneOnItsWay => AssertionHolds
  BY DEF OneStarted, OneOnItsWay, AssertionHolds
<1>5. QED BY <1>1, <1>2, <1>3, <1>4, InitOneStarted, TypeCorrect, PTL DEF Safe
=============================================================================
