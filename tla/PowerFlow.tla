------------------------------ MODULE PowerFlow ------------------------------
(***************************************************************************)
(* Voltage down and load up the power graph: what outlets, PDUs, lamps,    *)
(* PSUs and servers (hardware/asset.py, outlet_asset.py, pdu_asset.py,     *)
(* static_asset.py, server_asset.py) do with an engine event (events.py)   *)
(* to the state they keep in redis (api/state.py, api/static.py,           *)
(* api/server.py), and what PowerIteration and Engine fire next.           *)
(* PowerIteration.tla leaves the values open and looks at the branches;    *)
(* here the values count and a branch is only an event in the queue.       *)
(*                                                                         *)
(* The engine handles the events of one iteration in the order they were   *)
(* fired (the circuits queue is first in first out) and begins the next    *)
(* iteration when none is left (SerialIterations).  A handler and the      *)
(* success callback that chains its event are one step: the callback reads *)
(* nothing but the event.                                                  *)
(*                                                                         *)
(* Amperes and volts are whole numbers; the constants are chosen so that   *)
(* every division comes out even.  UPS: see UpsBattery.tla.                *)
(*                                                                         *)
(* Operators marked FAULT are not part of the specification: each is the   *)
(* definition below it with a mistake, and shows which property would tell.*)
(***************************************************************************)
EXTENDS Integers, Sequences, FiniteSets, SequencesExt

CONSTANTS
  Asset,        \* keys of the hardware assets
  Kind,         \* "outlet", "pdu", "static" (lamps), "psu" or "server"
  Parents,      \* the assets each one is POWERED_BY
  Consumption,  \* powerConsumption
  MinVoltage,   \* minVoltage
  Draw,         \* draw of a PSU, in parts of Whole
  Whole,        \* the parts that make 100 %
  OnAc,         \* assets that power up when AC is restored (powerOnAc)
  Switched,     \* outlets with an OID for their state, at the parent
  Volts,        \* voltages the mains may have
  Nominal,      \* its voltage at start
  Pressable,    \* assets clients may switch by hand
  MaxRequests,  \* bound: requests that wait for the engine
  Patient,      \* clients ask for something only when the engine is at rest
  Apart         \* and switch nothing above or below what is switched off

Children(a) == {c \in Asset : a \in Parents[c]}
Mains == {a \in Asset : Parents[a] = {}}
Servers == {a \in Asset : Kind[a] = "server"}

\* What an asset is powered through.
Above ==
  [a \in Asset |->
     {u \in Asset \ {a} :
        \A S \in SUBSET Asset :
          (Parents[a] \subseteq S /\ \A s \in S : Parents[s] \subseteq S) => u \in S}]

\* The order in which the database lists assets.
Ordered(S) == SetToSeq(S)

ASSUME FlowAssumption ==
  /\ IsFiniteSet(Asset)
  /\ Kind \in [Asset -> {"outlet", "pdu", "static", "psu", "server"}]
  /\ Parents \in [Asset -> SUBSET Asset]
  /\ \A a \in Asset : Cardinality(Parents[a]) > 1 => Kind[a] = "server"
  /\ \A a \in Asset : Kind[a] = "psu" <=> \E s \in Servers : a \in Parents[s]
  /\ Consumption \in [Asset -> Nat] /\ MinVoltage \in [Asset -> Nat]
  /\ Draw \in [Asset -> Nat] /\ Whole \in Nat \ {0}
  /\ OnAc \subseteq Asset /\ Switched \subseteq Asset /\ Pressable \subseteq Asset
  /\ Volts \subseteq Nat /\ Nominal \in Volts /\ MaxRequests \in Nat \ {0}
  /\ Patient \in BOOLEAN /\ Apart \in BOOLEAN

VARIABLES
  status,     \* redis :state, 1 on and 0 off
  volt,       \* redis :in-voltage
  load,       \* redis :load
  vm,         \* the servers whose VM is active
  userOff,    \* assets whose _state_reason is turned_off
  oidOff,     \* switched outlets whose OID says off
  wall,       \* redis "voltage", the mains
  requests,   \* published updates the engine has not begun to handle
  queue,      \* fired events, the circuits queue
  dead        \* an event's handler raised: its iteration never ends

redis == <<status, volt, load>>
vars == <<status, volt, load, vm, userOff, oidOff, wall, requests, queue, dead>>

-----------------------------------------------------------------------------
(* State managers (api) *)

Pair(old, new) == [old |-> old, new |-> new]
Same(p) == p.old = p.new
\* FAULT: the setters do not keep a value from going below 0.
Unchecked(x) == x

NotBelow0(x) == IF x < 0 THEN 0 ELSE x
Larger(x, y) == IF x > y THEN x ELSE y

\* calculate_load
Amps(watts, volts) == IF volts = 0 THEN 0 ELSE watts \div volts
Share(x, part) == (x * part) \div Whole

OutVolt(a) == volt[a] * status[a]

\* _parents_available: wall power, or a parent that is on, one that gives
\* enough voltage, and an OID that does not say off.
ParentsAvailable(a) ==
  IF Parents[a] = {} THEN wall # 0
  ELSE /\ \E p \in Parents[a] : status[p] = 1
       /\ \E p \in Parents[a] : OutVolt(p) > MinVoltage[a]
       /\ a \notin oidOff

\* The load power_up() leaves, asset a being off before: a static asset's load
\* is its usage, a PSU adds its own to what it carries, a server's is its usage
\* if its VM has to be started.
PsuLoadOnPowerUp(a) == load[a] + Amps(Consumption[a], volt[a])

LoadOnPowerUp(a) ==
  IF Kind[a] = "static" THEN Amps(Consumption[a], volt[a])
  ELSE IF Kind[a] = "psu" THEN PsuLoadOnPowerUp(a) ELSE load[a]

ServerLoadOnPowerUp(s) ==
  IF s \in vm THEN load[s] ELSE Amps(Consumption[s], volt[s])

VmDestroyed(a) == vm \ {a}

LoadOnPowerOff(a) == IF Kind[a] \in {"static", "server"} THEN 0 ELSE load[a]

-----------------------------------------------------------------------------
(* Events (events.py) and what they are answered with.  An answer is the   *)
(* AssetPowerEvent of asset a: its output voltage and load before and      *)
(* after, the load updates streamed to the PSUs of a server, and the new   *)
(* values of a's own state.                                                *)

VoltEvent(a, src, p) == [kind |-> "volt", asset |-> a, src |-> src, upd |-> p]
LoadEvent(a, p) == [kind |-> "load", asset |-> a, src |-> a, upd |-> p]
PressEvent(a, p) == [kind |-> "press", asset |-> a, src |-> a, upd |-> p]
SignalEvent(a, p) == [kind |-> "signal", asset |-> a, src |-> a, upd |-> p]

NoStreams == <<>>

Answer(out, upd, streams, st, v, l) ==
  [out |-> out, upd |-> upd, streams |-> streams,
   status |-> st, volt |-> v, load |-> l]

(* FAULT: the lower threshold itself is taken to be enough.                 *)
OnInputVoltageLenient(a, new) ==
  LET down == new < MinVoltage[a] /\ status[a] = 1
      st == IF down THEN 0 ELSE status[a]
  IN  Answer(Pair(OutVolt(a), new * st), Pair(0, 0), NoStreams, st, new,
             IF down THEN LoadOnPowerOff(a) ELSE load[a])

(* _process_parent_volt_e and detect_input_voltage of any asset but a       *)
(* server.  An asset that neither powers up nor off hands the new voltage   *)
(* on, whether it is on or off.                                             *)
OnInputVoltage(a, new) ==
  LET down == new <= MinVoltage[a] /\ status[a] = 1
      up == new > MinVoltage[a] /\ status[a] = 0 /\ a \notin userOff /\ a \in OnAc
      starts == up /\ ParentsAvailable(a)
      st == IF down THEN 0 ELSE IF starts THEN 1 ELSE status[a]
      out == IF down \/ up THEN Pair(OutVolt(a) * status[a], new * st)
             ELSE Pair(OutVolt(a), new)
      base == IF down THEN LoadOnPowerOff(a)
              ELSE IF starts THEN LoadOnPowerUp(a) ELSE load[a]
      counted == st = 1 \/ st # status[a]
      upd == IF counted THEN Pair(Amps(Consumption[a], out.old),
                                  Amps(Consumption[a], out.new))
             ELSE Pair(0, 0)
  IN  Answer(out, upd, NoStreams, st, new,
             IF Same(upd) THEN base ELSE NotBelow0(base - upd.old + upd.new))

(* set_redis_state_on_btn_press, then on_power_button_press.                *)
OnPress(a, st) ==
  LET out == Pair((1 - st) * volt[a], st * volt[a])
      upd == Pair(Amps(Consumption[a], out.old), Amps(Consumption[a], out.new))
  IN  Answer(out, upd, NoStreams, st, volt[a], load[a])

(* on_power_off_request_received, on_power_up_request_received: the outlet  *)
(* is switched by its OID.                                                  *)
OnSignal(a, st) ==
  LET on == IF st = 0 THEN 0
            ELSE IF ParentsAvailable(a) THEN 1 ELSE status[a]
  IN  Answer(Pair(OutVolt(a), st * volt[a]), Pair(0, 0), NoStreams,
             on, volt[a], load[a])

(* on_child_load_update *)
NewLoad(a, upd) == NotBelow0(load[a] + upd.new - upd.old)

-----------------------------------------------------------------------------
(* A server, fed by its PSUs *)

Psus(s) == Parents[s]

\* _psu_out_voltage: of the first PSU that is on.
PsuOutVoltage(s) ==
  LET psu == Ordered(Psus(s))
      on == {i \in DOMAIN psu : status[psu[i]] = 1}
  IN  IF on = {} THEN 0 ELSE OutVolt(psu[Min(on)])

\* _psu_drawing_extra
DrawingExtra(s, p) ==
  Share(Amps(Consumption[s], volt[p]), Draw[p]) + Amps(Consumption[p], volt[p])
    < load[p]


\* Server.on_power_button_off: every PSU that is fed goes back to its own load.
ServerOff(s) ==
  LET streams == [p \in Psus(s) |->
        Pair(load[p], IF status[p] = 1 /\ volt[p] # 0
                      THEN Amps(Consumption[p], volt[p]) ELSE load[p])]
  IN  Answer(Pair(volt[s], 0), Pair(Amps(Consumption[s], volt[s]), 0),
             streams, 0, volt[s], load[s])

\* Server.on_power_button_on: PSUs that are on share what the others would draw.
OnlinePsus(s) == {p \in Psus(s) : status[p] = 1}

ServerOn(s) ==
  LET needed == Amps(Consumption[s], volt[s])
      missing == SumFunctionOnSet(Draw, Psus(s) \ OnlinePsus(s))
      extra == Share(needed, missing) \div Cardinality(OnlinePsus(s))
      streams == [p \in Psus(s) |->
        Pair(load[p], IF status[p] = 1
                      THEN load[p] + Share(needed, Draw[p]) + extra
                      ELSE load[p])]
  IN  Answer(Pair(0, volt[s]), Pair(0, needed), streams, 1, volt[s], load[s])

\* Server.on_input_voltage_up, for the output voltage of PSU src.
ServerVoltageUp(s, src, in) ==
  LET v == Larger(PsuOutVoltage(s), in.new)
      starting == (status[s] = 0 \/ s \notin vm) /\ in.new # 0
      newLoad == Amps(Consumption[s], in.new)
      oldLoad == Amps(Consumption[s], in.old)
      others == Psus(s) \ {src}
      overdrawn == {p \in others : status[p] = 1 /\ in.old = 0 /\ DrawingExtra(s, p)}
      drawn == Draw[src] + SumFunctionOnSet(Draw, others \ OnlinePsus(s))
      streams == [p \in Psus(s) |->
        IF p = src THEN Pair(Share(oldLoad, drawn), Share(newLoad, drawn))
        ELSE IF p \in overdrawn
             THEN Pair(load[p], NotBelow0(load[p] - Share(newLoad, Draw[src])))
        ELSE IF status[p] = 1 /\ starting
             THEN Pair(0, Share(newLoad, Draw[p]))
        ELSE Pair(0, 0)]
      boots == starting /\ s \in OnAc
      up == boots /\ status[s] = 0 /\ \E p \in Psus(s) : OutVolt(p) > MinVoltage[s]
      settles == ~starting /\ overdrawn = {}
      out == Pair(v * status[s], in.new)
  IN  IF boots \/ settles
      THEN Answer(out, Pair(oldLoad, newLoad), streams,
                  IF up THEN 1 ELSE status[s], v, newLoad)
      ELSE Answer(out, Pair(0, 0),
                  IF status[s] = 0 /\ s \notin OnAc THEN NoStreams ELSE streams,
                  status[s], v, load[s])

\* FAULT: the PSU that takes over counts the lost PSU's own load as well.
ServerVoltageDownAll(s, src, in) ==
  LET lost == in.new = 0
      alternative == OnlinePsus(s) \ {src} # {}
      newLoad == Amps(Consumption[s], in.new)
      kept == Share(newLoad, Draw[src])
      streams == [p \in Psus(s) |->
        IF p = src THEN Pair(load[p], kept)
        ELSE IF status[p] = 1
             THEN Pair(load[p], load[p] + load[src] - kept)
        ELSE Pair(load[p], load[p])]
  IN  Answer(Pair(volt[s], in.new), Pair(0, 0), streams,
             IF lost /\ ~alternative THEN 0 ELSE status[s],
             Larger(PsuOutVoltage(s), in.new),
             IF lost /\ alternative THEN load[s] ELSE newLoad)

\* Server.on_input_voltage_down: a PSU that is still on takes over.
ServerVoltageDown(s, src, in) ==
  LET v == Larger(PsuOutVoltage(s), in.new)
      own == IF load[src] = Share(load[s], Draw[src]) THEN 0
             ELSE Amps(Consumption[src], in.old)
      newLoad == Amps(Consumption[s], in.new)
      oldLoad == Amps(Consumption[s], in.old)
      kept == Share(newLoad, Draw[src])
      lost == in.new = 0
      alternative == OnlinePsus(s) \ {src} # {}
      streams == [p \in Psus(s) |->
        IF p = src THEN Pair(load[p], kept)
        ELSE IF status[p] = 1 /\ lost
             THEN Pair(load[p], NotBelow0(load[p] + load[src] - kept - own))
        ELSE Pair(load[p], load[p])]
      off == lost /\ ~alternative
      out == Pair(v * status[s], in.new)
  IN  IF lost /\ alternative
      THEN Answer(out, Pair(0, 0), streams, status[s], v, load[s])
      ELSE Answer(out, Pair(oldLoad, newLoad), streams,
                  IF off THEN 0 ELSE status[s], v, newLoad)

-----------------------------------------------------------------------------
(* PowerIteration and Engine: what is fired next *)

\* get_next_voltage_event for the assets in S, in the database's order; the
\* event is a drop or a spike by InputVoltage.
ToChildren(a, out) ==
  LET c == Ordered(Children(a))
  IN  [i \in 1 .. Len(c) |-> VoltEvent(c[i], a, out)]

InputVoltageDrops(upd) == upd.old > upd.new \/ upd.new = 0

\* One load event for each PSU whose load changes, or one for the parents.
ToParents(a, streams, upd) ==
  IF streams # NoStreams
  THEN LET p == Ordered({q \in DOMAIN streams : ~Same(streams[q])})
       IN  [i \in 1 .. Len(p) |-> LoadEvent(p[i], streams[p[i]])]
  ELSE IF Same(upd) THEN <<>>
  ELSE LET p == Ordered(Parents[a])
       IN  [i \in 1 .. Len(p) |-> LoadEvent(p[i], upd)]

\* _process_hardware_asset_event and _chain_power_events
Fired(a, r) ==
  (IF Same(r.out) THEN <<>> ELSE ToChildren(a, r.out))
    \o ToParents(a, r.streams, r.upd)

Settle(a, r) ==
  /\ status' = [status EXCEPT ![a] = r.status]
  /\ volt' = [volt EXCEPT ![a] = r.volt]
  /\ load' = [load EXCEPT ![a] = r.load]
  /\ queue' = Tail(queue) \o Fired(a, r)

-----------------------------------------------------------------------------
(* The event loop *)

Busy == queue # <<>> \/ dead

\* A voltage event reaches an asset that is no server ...
HandleVoltage ==
  /\ queue # <<>> /\ Head(queue).kind = "volt"
  /\ LET a == Head(queue).asset
         in == Head(queue).upd
         r == OnInputVoltage(a, in.new)
     IN  /\ Kind[a] # "server"
         /\ Settle(a, r)
         /\ userOff' = IF r.status # status[a] THEN userOff \ {a} ELSE userOff
  /\ UNCHANGED <<vm, oidOff, wall, requests, dead>>

\* ... or a server, whose VM follows its status.
HandleServerVoltage ==
  /\ queue # <<>> /\ Head(queue).kind = "volt"
  /\ LET s == Head(queue).asset
         in == Head(queue).upd
         r == IF InputVoltageDrops(in) THEN ServerVoltageDown(s, Head(queue).src, in)
              ELSE ServerVoltageUp(s, Head(queue).src, in)
     IN  /\ Kind[s] = "server"
         /\ Settle(s, r)
         /\ vm' = IF r.status = 0 /\ status[s] = 1 THEN vm \ {s}
                  ELSE IF r.status = 1 /\ ~InputVoltageDrops(in) /\ s \in OnAc /\ in.new # 0
                       THEN vm \cup {s} ELSE vm
         /\ userOff' = IF r.status # status[s] THEN userOff \ {s} ELSE userOff
  /\ UNCHANGED <<oidOff, wall, requests, dead>>

HandleLoad ==
  /\ queue # <<>> /\ Head(queue).kind = "load"
  /\ LET a == Head(queue).asset
         new == NewLoad(a, Head(queue).upd)
         p == Ordered(Parents[a])
     IN  /\ load' = [load EXCEPT ![a] = new]
         /\ queue' = Tail(queue)
              \o [i \in 1 .. Len(p) |-> LoadEvent(p[i], Pair(load[a], new))]
  /\ UNCHANGED <<status, volt, vm, userOff, oidOff, wall, requests, dead>>

HandlePress ==
  /\ queue # <<>> /\ Head(queue).kind = "press"
  /\ LET a == Head(queue).asset
         st == Head(queue).upd.new
         fails == Kind[a] = "server" /\ st = 1 /\ OnlinePsus(a) = {}
     IN  /\ userOff' = IF st = 0 THEN userOff \cup {a} ELSE userOff \ {a}
         /\ IF fails
            THEN /\ dead' = TRUE
                 /\ status' = [status EXCEPT ![a] = st]
                 /\ queue' = Tail(queue)
                 /\ UNCHANGED <<volt, load>>
            ELSE /\ Settle(a, IF Kind[a] # "server" THEN OnPress(a, st)
                              ELSE IF st = 1 THEN ServerOn(a) ELSE ServerOff(a))
                 /\ UNCHANGED dead
  /\ UNCHANGED <<vm, oidOff, wall, requests>>

HandleSignal ==
  /\ queue # <<>> /\ Head(queue).kind = "signal"
  /\ LET a == Head(queue).asset
         r == OnSignal(a, Head(queue).upd.new)
     IN  /\ Settle(a, r)
         /\ userOff' = userOff \ {a}
  /\ UNCHANGED <<vm, oidOff, wall, requests, dead>>

\* The next iteration is launched: its source event makes the first events.
Begin ==
  /\ ~Busy /\ requests # <<>>
  /\ LET r == Head(requests)
     IN  queue' = IF r.kind = "wall"
                  THEN LET m == Ordered(Mains)
                       IN  [i \in 1 .. Len(m) |-> VoltEvent(m[i], m[i], r.upd)]
                  ELSE <<r>>
  /\ requests' = Tail(requests)
  /\ UNCHANGED <<redis, vm, userOff, oidOff, wall, dead>>

-----------------------------------------------------------------------------
(* Clients: the web socket, the command line and SNMP managers write redis  *)
(* and publish the change.                                                  *)

AtRest == ~Busy /\ requests = <<>>

Publish(r) ==
  /\ Patient => AtRest
  /\ Len(requests) < MaxRequests
  /\ requests' = Append(requests, r)

\* No asset above or below a is switched off by hand or by its OID.
Clear(a) ==
  Apart => /\ wall # 0
           /\ \A o \in (userOff \cup oidOff) \ {a} : o \notin Above[a] /\ a \notin Above[o]

\* shut_down() or power_off() through the API
SwitchOff(a) ==
  /\ a \in Pressable /\ status[a] = 1 /\ Clear(a)
  /\ Publish(PressEvent(a, Pair(1, 0)))
  /\ load' = [load EXCEPT ![a] = LoadOnPowerOff(a)]
  /\ vm' = VmDestroyed(a)
  /\ UNCHANGED <<status, volt, userOff, oidOff, wall, queue, dead>>

\* power_up() through the API
SwitchOn(a) ==
  /\ a \in Pressable /\ status[a] = 0 /\ ParentsAvailable(a) /\ Clear(a)
  /\ Kind[a] = "server" => volt[a] # 0
  /\ Publish(PressEvent(a, Pair(0, 1)))
  /\ load' = [load EXCEPT ![a] =
       IF Kind[a] = "server" THEN ServerLoadOnPowerUp(a) ELSE LoadOnPowerUp(a)]
  /\ vm' = IF Kind[a] = "server" THEN vm \cup {a} ELSE vm
  /\ UNCHANGED <<status, volt, userOff, oidOff, wall, queue, dead>>

\* ISystemEnvironment.set_voltage and Engine.handle_voltage_update
SetVoltage(v) ==
  /\ v # wall
  /\ Apart => userOff \cup oidOff = {}
  /\ Publish([kind |-> "wall", upd |-> Pair(wall, v)])
  /\ wall' = v
  /\ UNCHANGED <<redis, vm, userOff, oidOff, queue, dead>>

\* An SNMP manager sets the state OID of an outlet (SNMPEvent).
SetOid(a, st) ==
  /\ a \in Switched /\ Clear(a)
  /\ (a \in oidOff) = (st = 1)
  /\ Publish(SignalEvent(a, Pair(status[a], st)))
  /\ oidOff' = IF st = 0 THEN oidOff \cup {a} ELSE oidOff \ {a}
  /\ UNCHANGED <<redis, vm, userOff, wall, queue, dead>>

-----------------------------------------------------------------------------
\* Registered assets are on (state_initializer.py) without voltage or load; a
\* server started its VM.  The mains has been switched on.
Init ==
  /\ status = [a \in Asset |-> 1]
  /\ volt = [a \in Asset |-> 0] /\ load = [a \in Asset |-> 0]
  /\ vm = Servers
  /\ userOff = {} /\ oidOff = {}
  /\ wall = Nominal
  /\ requests = <<[kind |-> "wall", upd |-> Pair(0, Nominal)]>>
  /\ queue = <<>> /\ dead = FALSE

Client ==
  \/ \E a \in Asset : SwitchOff(a) \/ SwitchOn(a)
  \/ \E v \in Volts : SetVoltage(v)
  \/ \E a \in Switched, st \in {0, 1} : SetOid(a, st)

Loop ==
  \/ HandleVoltage \/ HandleServerVoltage \/ HandleLoad
  \/ HandlePress \/ HandleSignal \/ Begin

Next == Client \/ Loop

Spec == Init /\ [][Next]_vars /\ WF_vars(Loop)

-----------------------------------------------------------------------------
(* Properties *)

Update == [old : Nat, new : Nat]

(* Every variable holds a value of its kind: voltages and loads never go    *)
(* below 0, neither stored nor on the way.                                  *)
TypeOK ==
  /\ status \in [Asset -> {0, 1}]
  /\ volt \in [Asset -> Nat] /\ load \in [Asset -> Nat]
  /\ vm \subseteq Servers /\ userOff \subseteq Asset /\ oidOff \subseteq Switched
  /\ wall \in Volts /\ dead \in BOOLEAN
  /\ \A i \in 1 .. Len(queue) :
       /\ queue[i].kind \in {"volt", "load", "press", "signal"}
       /\ queue[i].asset \in Asset /\ queue[i].upd \in Update

OwnLoad(a) == Amps(Consumption[a], OutVolt(a))

CarriedBy(a) ==
  IF Kind[a] = "psu" THEN load[a] - OwnLoad(a)
  ELSE OwnLoad(a) + SumFunctionOnSet(load, Children(a))

(* Load is neither lost nor counted twice: once the engine is at rest, each  *)
(* asset carries what it draws and what the assets it powers carry ("Load   *)
(* for a parent device that has multiple child nodes powered by it is the   *)
(* sum of all the child nodes load", features/load_pdu.feature:6).          *)
ParentsCarryTheirChildren ==
  AtRest => \A a \in Asset : Kind[a] \notin {"psu", "server"} => load[a] = CarriedBy(a)

(* And what the PSUs of a server carry on top of their own load is the      *)
(* server's load, whichever of them are on.                                 *)
PsusCarryTheServer ==
  AtRest => \A s \in Servers :
    load[s] = SumFunctionOnSet([p \in Psus(s) |-> CarriedBy(p)], Psus(s))

Supply(a) == IF Parents[a] = {} THEN {wall} ELSE {OutVolt(p) : p \in Parents[a]}

(* Once the engine is at rest the voltage of an asset is what one of its    *)
(* parents (or the mains) puts out, an asset that is on has enough of it,   *)
(* and a server's VM runs exactly when the server is on.                    *)
StateFollowsSupply ==
  AtRest => \A a \in Asset :
    /\ volt[a] \in Supply(a) /\ \A v \in Supply(a) : v <= volt[a]
    /\ status[a] = 1 => volt[a] > MinVoltage[a]
    /\ a \in Servers => (a \in vm <=> status[a] = 1)
=============================================================================
