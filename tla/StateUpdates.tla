----------------------------- MODULE StateUpdates -----------------------------
(***************************************************************************)
(* How a change reaches the engine and its clients: whoever changes the    *)
(* environment writes redis and publishes old and new value                *)
(* (api/environment.py, api/state.py); a timer of the StateListener        *)
(* (redis_state_listener.py) takes one message at a time and fires it as   *)
(* an event; RedisStateHandler (redis_state_handler.py) hands it to the    *)
(* engine (engine.py), which notifies its trackers and queues an           *)
(* iteration, and then waits for one to be completed; the web socket       *)
(* server (net/ws_server.py), a tracker, passes the news on.               *)
(*                                                                         *)
(* One thread, the circuits loop, runs every handler: while one waits, no  *)
(* other is run.  The writes to the clients' sockets keep the order of the *)
(* news and are folded into it.  An iteration is here one event of the     *)
(* loop (PowerIteration.tla and IterationConsumer.tla have the rest).      *)
(***************************************************************************)
EXTENDS Integers, Sequences, FiniteSets, SequencesExt

CONSTANTS
  Client,      \* web socket clients
  Volts,       \* values of the mains voltage; 0 is an outage
  Temps,       \* values of the ambient temperature
  Standard,    \* wallpower_volt_standard()
  Warm         \* the ambient temperature the engine starts with

VARIABLES
  env,         \* redis: "voltage", "ambient", and the "status" of an asset
  stream,      \* published messages each pubsub stream has not delivered
  loop,        \* events fired and not yet handled
  waiting,     \* wait_load_queue() blocks the loop
  loadDone,    \* completions in _load_done_queue
  iterations,  \* power iterations: the current one first
  running,     \* the current one was launched
  subscribers, \* _data_subscribers
  told,        \* what each client shows
  reloaded     \* the model was reloaded (history)

flow == <<env, stream, loop, waiting, loadDone, iterations, running,
          subscribers, told, reloaded>>

Quantity == {"voltage", "ambient", "status"}
Values == [voltage |-> Volts, ambient |-> Temps, status |-> {0, 1}]
Stream == {"power", "thermal", "snmp"}

\* The pubsub stream that listens to a quantity's channel.
StreamOf == [voltage |-> "power", ambient |-> "thermal", status |-> "power"]

\* mains_status(): clients see the mains, not its voltage.
Shown(q, v) == IF q = "voltage" THEN IF v = 0 THEN 0 ELSE 1 ELSE v
ShownEnv == [q \in Quantity |-> Shown(q, env[q])]

Update(q, old, new) == [kind |-> q, old |-> old, new |-> new]
News(q, v) == [kind |-> "news", about |-> q, value |-> v]
Plain(kind) == [kind |-> kind]

FlowTypeOK ==
  /\ \A q \in Quantity : env[q] \in Values[q]
  /\ DOMAIN stream = Stream
  /\ waiting \in BOOLEAN /\ running \in BOOLEAN /\ loadDone \in Nat
  /\ subscribers \subseteq Client /\ reloaded \in BOOLEAN
  /\ running => iterations # <<>>

\* The engine is up: ServerRoom restored the mains, reload_model() set 21
\* degrees, and what they published was handled.
FlowInit ==
  /\ env = [voltage |-> Standard, ambient |-> Warm, status |-> 1]
  /\ stream = [s \in Stream |-> <<>>]
  /\ loop = <<>> /\ waiting = FALSE /\ loadDone = 0
  /\ iterations = <<>> /\ running = FALSE
  /\ subscribers = {} /\ reloaded = FALSE
  /\ told = [c \in Client |-> ShownEnv]

-----------------------------------------------------------------------------
(* Writers: read the old value (Daemon.tla), write the new, publish both.  *)

WriteEnv(q, v) ==
  /\ env' = [env EXCEPT ![q] = v]
  /\ UNCHANGED <<stream, loop, waiting, loadDone, iterations, running, subscribers, told, reloaded>>

Publish(s, m) ==
  /\ stream' = [stream EXCEPT ![s] = Append(@, m)]
  /\ UNCHANGED <<env, loop, waiting, loadDone, iterations, running, subscribers, told, reloaded>>

-----------------------------------------------------------------------------
(* The loop.  busy: a handler that was begun has more to do.               *)

\* A timer's event: monitor_redis() fires the stream's next message.
Listen(busy) ==
  /\ ~waiting /\ ~busy
  /\ \E s \in Stream :
       /\ stream[s] # <<>>
       /\ loop' = Append(loop, Head(stream[s]))
       /\ stream' = [stream EXCEPT ![s] = Tail(@)]
  /\ UNCHANGED <<env, waiting, loadDone, iterations, running, subscribers, told, reloaded>>

\* The loop dispatches the event e; what it fires comes after the others.
Dispatch(busy, kind) == ~waiting /\ ~busy /\ loop # <<>> /\ Head(loop).kind = kind

\* wait_load_queue(): take a completion, or block.
WaitLoadQueue ==
  /\ loadDone' = IF loadDone > 0 THEN loadDone - 1 ELSE 0
  /\ waiting' = (loadDone = 0)

\* FAULT.  get() without a timeout.
GiveUpNever ==
  /\ waiting /\ loadDone > 0
  /\ waiting' = FALSE
  /\ UNCHANGED <<env, stream, loop, loadDone, iterations, running, subscribers, told, reloaded>>

\* The queue's get() gives up after EngineStateTracker.timeout.
GiveUp ==
  /\ waiting
  /\ waiting' = FALSE
  /\ UNCHANGED <<env, stream, loop, loadDone, iterations, running, subscribers, told, reloaded>>

\* FAULT.  Clients hear of an outage and not of its end.
MainsNewsOnOutage(old, new) == IF new = 0 THEN <<News("voltage", 0)>> ELSE <<>>

\* MainsPowerEvent: the mains failed or came back.
MainsNews(old, new) ==
  IF old = 0 \/ new = 0 THEN <<News("voltage", IF old = 0 THEN 1 ELSE 0)>> ELSE <<>>

HandleVoltageUpdate(busy) ==
  /\ Dispatch(busy, "voltage")
  /\ LET m == Head(loop) IN
     IF m.old = m.new
     THEN loop' = Tail(loop) /\ UNCHANGED <<waiting, loadDone, iterations>>
     ELSE /\ loop' = Tail(loop) \o MainsNews(m.old, m.new)
          /\ iterations' = Append(iterations, Plain("voltage"))
          /\ WaitLoadQueue
  /\ UNCHANGED <<env, stream, running, subscribers, told, reloaded>>

HandleStateUpdate(busy) ==
  /\ Dispatch(busy, "status")
  /\ LET m == Head(loop) IN
     IF m.old = m.new
     THEN UNCHANGED <<waiting, loadDone, iterations>>
     ELSE /\ iterations' = Append(iterations, News("status", m.new))
          /\ WaitLoadQueue
  /\ loop' = Tail(loop)
  /\ UNCHANGED <<env, stream, running, subscribers, told, reloaded>>

\* The thermal iteration it queues: Thermal.tla.
HandleAmbientUpdate(busy) ==
  /\ Dispatch(busy, "ambient")
  /\ LET m == Head(loop) IN
     loop' = Tail(loop) \o (IF m.old = m.new THEN <<>> ELSE <<News("ambient", m.new)>>)
  /\ UNCHANGED <<env, stream, waiting, loadDone, iterations, running, subscribers, told, reloaded>>

\* Nobody waits for this iteration.
HandleOidUpdate(busy) ==
  /\ Dispatch(busy, "oid")
  /\ loop' = Tail(loop)
  /\ iterations' = Append(iterations, Plain("oid"))
  /\ UNCHANGED <<env, stream, waiting, loadDone, running, subscribers, told, reloaded>>

\* The worker thread launches the next iteration, also while the loop waits.
Launch ==
  /\ ~running /\ iterations # <<>>
  /\ running' = TRUE
  /\ loop' = Append(loop, Plain("iteration"))
  /\ UNCHANGED <<env, stream, waiting, loadDone, iterations, subscribers, told, reloaded>>

\* FAULT.  The trackers hear of the end and the worker does not.
HandleIterationFrozen(busy) ==
  /\ Dispatch(busy, "iteration")
  /\ loop' = Append(Tail(loop), Plain("done"))
  /\ iterations' = Tail(iterations)
  /\ UNCHANGED <<env, stream, waiting, loadDone, running, subscribers, told, reloaded>>

\* The iteration ends: AllLoadBranchesDone is fired at the trackers.
HandleIteration(busy) ==
  /\ Dispatch(busy, "iteration")
  /\ LET it == Head(iterations)
         press == it.kind = "news" IN
     /\ env' = IF press THEN [env EXCEPT !.status = it.value] ELSE env
     /\ loop' = Tail(loop) \o (IF press THEN <<it>> ELSE <<>>) \o <<Plain("done")>>
  /\ iterations' = Tail(iterations) /\ running' = FALSE
  /\ UNCHANGED <<stream, waiting, loadDone, subscribers, told, reloaded>>

\* on_load_branch_done() of the EngineStateTracker.
HandleLoadBranchDone(busy) ==
  /\ Dispatch(busy, "done")
  /\ loop' = Tail(loop)
  /\ loadDone' = loadDone + 1
  /\ UNCHANGED <<env, stream, waiting, iterations, running, subscribers, told, reloaded>>

-----------------------------------------------------------------------------
(* The web socket server.                                                  *)

\* on_mains_change(), on_ambient_change(), on_asset_power_change().
NotifyClients(busy) ==
  /\ Dispatch(busy, "news")
  /\ LET e == Head(loop) IN
     told' = [c \in Client |->
                IF c \in subscribers THEN [told[c] EXCEPT ![e.about] = e.value] ELSE told[c]]
  /\ loop' = Tail(loop)
  /\ UNCHANGED <<env, stream, waiting, loadDone, iterations, running, subscribers, reloaded>>

\* get_sys_status: assets, ambient and mains, as redis has them now.
HandleStatusRequest(busy) ==
  /\ Dispatch(busy, "get_sys_status")
  /\ LET c == Head(loop).client IN
     told' = [told EXCEPT ![c] = ShownEnv]
  /\ loop' = Tail(loop)
  /\ UNCHANGED <<env, stream, waiting, loadDone, iterations, running, subscribers, reloaded>>

HandleSubscribeRequest(busy) ==
  /\ Dispatch(busy, "subscribe")
  /\ subscribers' = subscribers \cup {Head(loop).client}
  /\ loop' = Tail(loop)
  /\ UNCHANGED <<env, stream, waiting, loadDone, iterations, running, told, reloaded>>

HandleDisconnect(busy) ==
  /\ Dispatch(busy, "disconnect")
  /\ subscribers' = subscribers \ {Head(loop).client}
  /\ loop' = Tail(loop)
  /\ UNCHANGED <<env, stream, waiting, loadDone, iterations, running, told, reloaded>>

FlowNext(busy) ==
  \/ Listen(busy) \/ GiveUp \/ Launch
  \/ HandleVoltageUpdate(busy) \/ HandleStateUpdate(busy) \/ HandleAmbientUpdate(busy)
  \/ HandleOidUpdate(busy) \/ HandleIteration(busy) \/ HandleLoadBranchDone(busy)
  \/ NotifyClients(busy) \/ HandleStatusRequest(busy) \/ HandleSubscribeRequest(busy)
  \/ HandleDisconnect(busy)

Delivered ==
  /\ \A s \in Stream : stream[s] = <<>>
  /\ loop = <<>> /\ iterations = <<>> /\ ~waiting
=============================================================================
