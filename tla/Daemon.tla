-------------------------------- MODULE Daemon --------------------------------
(***************************************************************************)
(* The simengine daemon around the power engine: clients' requests, the    *)
(* threads the web socket server starts for them, the recorder and the way *)
(* of every update to the engine and back to the clients.                  *)
(*                                                                         *)
(* A handler of the loop, a replay thread and a randomizer thread are each *)
(* a program, a sequence of operations that others may come between: what  *)
(* the three do is the same calls on the same state.                       *)
(***************************************************************************)
EXTENDS StateUpdates, Recorder

CONSTANTS
  Replayer,     \* replay threads (daemon threads, one for each request)
  Slice,        \* ranges <<start, stop>> of actions clients ask for
  MaxRequests,  \* bound: requests of all kinds
  Patient       \* see Alone and Settled

ASSUME DaemonAssumption ==
  /\ 0 \in Volts /\ Standard \in Volts \ {0} /\ Volts \subseteq Nat
  /\ {0, Warm} \subseteq Temps /\ Temps \subseteq Nat
  /\ Slice \subseteq Nat \X Nat /\ MaxRequests \in Nat /\ MaxHistory \in Nat
  /\ Patient \in BOOLEAN
  /\ {"loop", "random"} \cap Replayer = {}

VARIABLES
  todo,         \* what is left of each actor's program
  saved,        \* pre_replay_enabled_status of each replay thread
  wanted,       \* the status clients last gave the recorder (history)
  asked         \* requests so far

daemon == <<todo, saved, wanted, asked>>
vars == <<flow, recorder, daemon>>

Actor == {"loop", "random"} \cup Replayer
Busy == todo["loop"] # <<>>

\* Operations: a decorated call, the function under the decorator, its last
\* two steps; and what the recorder and reload_model() do besides.
DoCall(q, v) == [op |-> "call", about |-> q, value |-> v]
DoWork(c) == [op |-> "work", about |-> c.about, value |-> c.value]
DoWrite(q, v) == [op |-> "write", about |-> q, value |-> v]
DoPublish(q, old, v) == [op |-> "publish", about |-> q, old |-> old, value |-> v]
DoSet(op, b) == [op |-> op, on |-> b]
DoReplay(slc) == [op |-> "replay", slice |-> slc]
Do(op) == [op |-> op]

Calls == UNION {{[about |-> q, value |-> v] : v \in Values[q]} : q \in Quantity}

\* Every one of them may be recorded.
ASSUME CallAssumption == Calls \subseteq Call

\* Engine.reload_model().
ReloadProgram ==
  << DoSet("enabled", FALSE), DoCall("ambient", 0), Do("initialize"),
     DoCall("ambient", Warm), DoSet("enabled", TRUE) >>

\* FAULT.  The status is given back while the replay still counts as running.
ReplayProgramSwapped(slc) ==
  << Do("save"), DoSet("enabled", FALSE), DoSet("replaying", TRUE), DoReplay(slc),
     Do("restore"), DoSet("replaying", FALSE) >>

\* Recorder.replay_range().
ReplayProgram(slc) ==
  << Do("save"), DoSet("enabled", FALSE), DoSet("replaying", TRUE), DoReplay(slc),
     DoSet("replaying", FALSE), Do("restore") >>

TypeOK ==
  /\ FlowTypeOK /\ RecorderTypeOK
  /\ DOMAIN todo = Actor /\ saved \in [Replayer -> BOOLEAN]
  /\ wanted \in BOOLEAN /\ asked \in 0..MaxRequests

Init ==
  /\ FlowInit /\ RecorderInit
  /\ todo = [a \in Actor |-> <<>>]
  /\ saved = [r \in Replayer |-> TRUE]
  /\ wanted = TRUE /\ asked = 0

-----------------------------------------------------------------------------
(* Programs.                                                               *)

Next_op(a, op) == todo[a] # <<>> /\ Head(todo[a]).op = op
Continue(a) == todo' = [todo EXCEPT ![a] = Tail(@)]
Become(a, ops) == todo' = [todo EXCEPT ![a] = ops \o Tail(@)]

\* When Patient: no two writers are between reading a value and publishing it.
Alone(a) ==
  Patient => \A b \in Actor \ {a} : ~Next_op(b, "write") /\ ~Next_op(b, "publish")

\* When Patient: no other replay or reload has changed the recorder's status
\* and is yet to say so, or to put it back.
Settled(a) ==
  Patient =>
    /\ a # "loop" /\ todo["loop"] # <<>> => Last(todo["loop"]) # DoSet("enabled", TRUE)
    /\ \A r \in Replayer \ {a} :
         todo[r] # <<>> /\ ~Next_op(r, "save") => replaying /\ a = "loop"

\* The function reads the old value.  power_up(), shut_down() and power_off()
\* do nothing to an asset that is that way already, and leave it to the engine
\* to store the status.
Enter(a, o) ==
  LET q == o.about
      publish == DoPublish(q, env[q], o.value) IN
  IF q # "status" THEN Become(a, <<DoWrite(q, o.value), publish>>)
  ELSE Become(a, IF env.status = o.value THEN <<>> ELSE <<publish>>)

CallRecorded(a) ==
  /\ Next_op(a, "call") /\ Alone(a)
  /\ LET o == Head(todo[a]) IN
     Record([about |-> o.about, value |-> o.value]) /\ Enter(a, o)
  /\ UNCHANGED <<flow, saved, wanted, asked>>

CallReplayed(a) ==
  /\ Next_op(a, "work") /\ Alone(a)
  /\ Enter(a, Head(todo[a]))
  /\ UNCHANGED <<flow, recorder, saved, wanted, asked>>

Write(a) ==
  /\ Next_op(a, "write")
  /\ WriteEnv(Head(todo[a]).about, Head(todo[a]).value)
  /\ Continue(a)
  /\ UNCHANGED <<recorder, saved, wanted, asked>>

PublishUpdate(a) ==
  /\ Next_op(a, "publish")
  /\ LET o == Head(todo[a]) IN Publish(StreamOf[o.about], Update(o.about, o.old, o.value))
  /\ Continue(a)
  /\ UNCHANGED <<recorder, saved, wanted, asked>>

SetStatus(a) ==
  /\ Next_op(a, "enabled") /\ (a = "loop" => Settled(a))
  /\ SetEnabled(Head(todo[a]).on)
  /\ wanted' = IF a = "loop" /\ ~replaying THEN Head(todo[a]).on ELSE wanted
  /\ Continue(a)
  /\ UNCHANGED <<flow, saved, asked>>

\* initialize() switches every asset on, and clients are not told.
Initialize ==
  /\ Next_op("loop", "initialize")
  /\ env' = [env EXCEPT !.status = 1]
  /\ reloaded' = TRUE
  /\ Continue("loop")
  /\ UNCHANGED <<stream, loop, waiting, loadDone, iterations, running, subscribers, told>>
  /\ UNCHANGED <<recorder, saved, wanted, asked>>

SaveStatus(r) ==
  /\ Next_op(r, "save") /\ Settled(r)
  /\ saved' = [saved EXCEPT ![r] = enabled]
  /\ Continue(r)
  /\ UNCHANGED <<flow, recorder, wanted, asked>>

RestoreStatus(r) ==
  /\ Next_op(r, "restore")
  /\ SetEnabled(saved[r])
  /\ Continue(r)
  /\ UNCHANGED <<flow, saved, wanted, asked>>

SetReplayStatus(r) ==
  /\ Next_op(r, "replaying")
  /\ SetReplaying(Head(todo[r]).on)
  /\ Continue(r)
  /\ UNCHANGED <<flow, saved, wanted, asked>>

\* actions_iter(): the actions as they are now, whatever comes later.
ReplayActions(r) ==
  /\ Next_op(r, "replay")
  /\ LET slice == InSlice(actions, Head(todo[r]).slice) IN
     Become(r, [i \in 1..Len(slice) |-> DoWork(slice[i])])
  /\ UNCHANGED <<flow, recorder, saved, wanted, asked>>

Step(a) ==
  \/ CallRecorded(a) \/ CallReplayed(a) \/ Write(a) \/ PublishUpdate(a) \/ SetStatus(a)
  \/ (a = "loop" /\ Initialize)
  \/ (a \in Replayer /\ (SaveStatus(a) \/ RestoreStatus(a) \/ SetReplayStatus(a) \/ ReplayActions(a)))

-----------------------------------------------------------------------------
(* Requests.  Ask: a client sends one; the loop fires it as an event.      *)

Ask(e) ==
  /\ asked < MaxRequests
  /\ asked' = asked + 1
  /\ loop' = Append(loop, e)
  /\ UNCHANGED <<env, stream, waiting, loadDone, iterations, running, subscribers, told, reloaded>>
  /\ UNCHANGED <<recorder, todo, saved, wanted>>

Unasked(kind) == \A i \in DOMAIN loop : loop[i].kind # kind
Free(a, kind) == todo[a] = <<>> /\ Unasked(kind)

AskForCall == \E c \in Calls : Ask([kind |-> "set", call |-> c])
AskForStatus == \E b \in BOOLEAN : Ask([kind |-> "set_recorder_status", on |-> b])
AskForReplay ==
  /\ \E r \in Replayer : Free(r, "replay_actions")
  /\ \E slc \in Slice : Ask([kind |-> "replay_actions", slice |-> slc])
AskForActions ==
  \E slc \in Slice, kind \in {"clear_actions", "save_actions", "load_actions"} :
    Ask([kind |-> kind, slice |-> slc])
AskForRandom == Free("random", "exec_rand_actions") /\ Ask(Plain("exec_rand_actions"))

\* The dashboard asks for the state of the system, and for updates, in one go:
\* nothing comes between its two requests.
Connect(c) ==
  /\ asked < MaxRequests /\ c \notin subscribers
  /\ \A i \in DOMAIN loop :
       loop[i].kind \in {"get_sys_status", "subscribe"} => loop[i].client # c
  /\ asked' = asked + 1
  /\ loop' = loop \o << [kind |-> "get_sys_status", client |-> c], [kind |-> "subscribe", client |-> c] >>
  /\ UNCHANGED <<env, stream, waiting, loadDone, iterations, running, subscribers, told, reloaded>>
  /\ UNCHANGED <<recorder, todo, saved, wanted>>

Disconnect(c) ==
  c \in subscribers /\ Unasked("disconnect") /\ Ask([kind |-> "disconnect", client |-> c])

\* Other processes publish: the SNMP agent of an asset, the command line.
PublishPlain(s, kind) ==
  /\ asked < MaxRequests
  /\ asked' = asked + 1
  /\ Publish(s, Plain(kind))
  /\ UNCHANGED <<recorder, todo, saved, wanted>>

UpdateOid == PublishPlain("snmp", "oid")
ReloadModel == PublishPlain("power", "model")

-----------------------------------------------------------------------------
(* Handlers of requests.                                                   *)

\* The handler of a kind gives an actor its program.
Handle(kind, a, ops) ==
  /\ Dispatch(Busy, kind)
  /\ todo[a] = <<>>
  /\ todo' = [todo EXCEPT ![a] = ops]
  /\ loop' = Tail(loop)
  /\ UNCHANGED <<env, stream, waiting, loadDone, iterations, running, subscribers, told, reloaded>>
  /\ UNCHANGED <<recorder, saved, wanted, asked>>

Request == Head(loop)

HandleCall == Handle("set", "loop", <<DoCall(Request.call.about, Request.call.value)>>)
HandleSetRecorder == Handle("set_recorder_status", "loop", <<DoSet("enabled", Request.on)>>)
HandleReload == Handle("model", "loop", ReloadProgram)
HandleReplay == \E r \in Replayer : Handle("replay_actions", r, ReplayProgram(Request.slice))
HandleRandom ==
  \E c \in Calls : Handle("exec_rand_actions", "random", <<DoCall(c.about, c.value)>>)

HandleActions ==
  /\ \/ Dispatch(Busy, "clear_actions") /\ EraseRange(Request.slice)
     \/ Dispatch(Busy, "save_actions") /\ SaveActions(Request.slice)
     \/ Dispatch(Busy, "load_actions") /\ LoadActions(Request.slice)
  /\ loop' = Tail(loop)
  /\ UNCHANGED <<env, stream, waiting, loadDone, iterations, running, subscribers, told, reloaded>>
  /\ UNCHANGED daemon

Serve ==
  HandleCall \/ HandleSetRecorder \/ HandleReload \/ HandleReplay \/ HandleRandom \/ HandleActions

Flow == FlowNext(Busy) /\ UNCHANGED <<recorder, daemon>>

Next ==
  \/ AskForCall \/ AskForStatus \/ AskForReplay \/ AskForActions \/ AskForRandom
  \/ UpdateOid \/ ReloadModel
  \/ \E c \in Client : Connect(c) \/ Disconnect(c)
  \/ Serve \/ Flow
  \/ \E a \in Actor : Step(a)

\* The loop, its timers and the threads run; nobody has to ask for anything.
Fairness ==
  /\ WF_vars(Serve) /\ WF_vars(Flow)
  /\ \A a \in Actor : WF_vars(Step(a))

Spec == Init /\ [][Next]_vars /\ Fairness

-----------------------------------------------------------------------------
(* Properties.                                                             *)

AtRest == Delivered /\ \A a \in Actor : todo[a] = <<>>

\* When nothing is under way, a subscribed client shows the mains and the
\* ambient temperature redis has, and, as long as the model is not reloaded
\* (which tells nobody), the status of the asset: no update was lost, overtaken or
\* reported by halves on the way from its writer through the channels, the
\* handlers and the trackers (environment.py:72-103, engine.py:185-244,
\* ws_server.py:131-165 and 351-406).
ViewIsCurrent ==
  AtRest => \A c \in subscribers, q \in Quantity :
    (reloaded /\ q = "status") \/ told[c][q] = ShownEnv[q]

\* When nothing is under way the recorder does what clients last asked of it,
\* whatever was replayed in between (recorder.py:70-73 and 237-256).
RecorderRestored == AtRest => ~replaying /\ enabled = wanted

\* Every update is delivered and handled and every program ends, though the
\* handlers wait for iterations that cannot end before they give up
\* (redis_state_handler.py:30-35, redis_state_listener.py:85-112).
EveryoneIsServed == []<>AtRest
=============================================================================
