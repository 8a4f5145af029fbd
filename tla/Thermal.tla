------------------------------- MODULE Thermal -------------------------------
(***************************************************************************)
(* Room temperature and the sensors of one server with a BMC.  The room's  *)
(* threads and clients change the ambient temperature; each change reaches *)
(* the server as an event of a thermal iteration, whose handler moves every *)
(* temperature sensor by as much.  Meanwhile a thread per thermal relation *)
(* heats or cools a target sensor as long as its source (a fan) is down or *)
(* up, and a thread per CPU relation adds the heat of the CPU load.  A lock *)
(* per sensor keeps the writers of its file apart.  The command line sets  *)
(* and deletes relations in the graph database and tells the engine of new *)
(* ones through redis.                                                     *)
(*                                                                         *)
(* set_ambient() is one step: Daemon.tla has its parts.  All sensors are   *)
(* started: nobody configures a relation before the first update.          *)
(***************************************************************************)
EXTENDS Integers, Sequences, FiniteSets, Functions

CONSTANTS
  Sensors,      \* the temperature sensors, in the order of the repository
  Hot,          \* the one the CPU load may heat
  Fan,          \* the source of the sensor relations
  FanSpeed,     \* defaultValue of the fan
  Link,         \* relations one may set, by name
  Target, Event, Heats, PauseAt, Degrees,   \* their attributes
  Impact,       \* the CPU model: degrees for each load
  Configured,   \* relations the graph database starts with
  Warm,         \* the temperature the engine sets when it starts
  RoomLimit,    \* pauseAt of the room's warming and cooling
  Temps,        \* temperatures clients set
  CpuThread,    \* names for the threads of the CPU relation
  MaxRequests,  \* bound on what users do
  Patient       \* nobody sets a relation again while its thread is ending

Temperature == Range(Sensors)
RoomThread == {"warming", "cooling"}

ASSUME ThermalAssumption ==
  /\ Sensors \in Seq(Temperature) /\ Hot \in Temperature
  /\ \A i, j \in DOMAIN Sensors : Sensors[i] = Sensors[j] => i = j
  /\ Fan \notin Temperature /\ FanSpeed \in Nat
  /\ Target \in [Link -> Temperature] /\ Event \in [Link -> {"down", "up"}]
  /\ Heats \in [Link -> BOOLEAN]
  /\ PauseAt \in [Link -> Nat] /\ Degrees \in [Link -> Nat]
  /\ 0 \in DOMAIN Impact /\ Impact \in [DOMAIN Impact -> Nat]
  /\ Configured \subseteq Link
  /\ Warm \in Nat \ {0} /\ Temps \subseteq Nat /\ RoomLimit \in [RoomThread -> Nat]
  /\ CpuThread # {} /\ {"nothing", "loop", "down", "up"} \cap CpuThread = {}
  /\ MaxRequests \in Nat /\ Patient \in BOOLEAN

VARIABLES
  ambient,      \* redis "ambient"
  mains,        \* mains_status()
  room,         \* what each room thread has computed and not yet set
  news,         \* published on the thermal channels, not yet heard
  updates,      \* thermal iterations queued
  current,      \* the update the server is handling
  pending,      \* sensors it has still to adjust, in order
  value,        \* the sensor files
  lock,         \* who holds a sensor's lock, and what it has read
  links,        \* relations in the graph database
  thread,       \* the thread of each (target, event)
  cpuLink,      \* the CPU relation exists
  cpu,          \* the threads of the CPU relation
  load,         \* cpu_load of the server
  power,        \* the server is on
  started,      \* _load_thermal was consumed
  enabled,      \* the sensors' thermal event is set
  given,        \* degrees the threads have added to each sensor (history)
  requests      \* what users did so far (bound)

airVars == <<ambient, mains, room, updates, current, pending>>
threadVars == <<links, thread, cpuLink, cpu>>
serverVars == <<load, power, started, enabled>>
vars == <<ambient, mains, room, news, updates, current, pending, value, lock, links,
          thread, cpuLink, cpu, load, power, started, enabled, given, requests>>

Nothing == "nothing"
Free == [by |-> Nothing, read |-> 0]
Key == {<<Target[l], Event[l]>> : l \in Link}

\* thread: "none", "asleep", "checked" (relation looked up), "gone" (not found)
NoThread == [at |-> "none", limit |-> 0]
Asleep == [at |-> "asleep", limit |-> 0]
NoCpuThread == [at |-> "none", impact |-> 0]

\* What is published on the thermal channels; what a thermal iteration is for.
Message ==
  [kind : {"ambient"}, old : Nat, new : Nat]
    \cup [kind : {"link"}, link : Link] \cup [kind : {"cpu"}]
Change == {u \in [old : Nat, new : Nat] : u.old # u.new}

\* Besides kinds: an iteration is only queued for a temperature that changes,
\* and the handler adjusts sensors only in an iteration.
TypeOK ==
  /\ ambient \in Nat /\ mains \in BOOLEAN /\ room \in [RoomThread -> Nat]
  /\ news \in Seq(Message)
  /\ updates \in Seq(Change) /\ current \in Seq(Change) /\ Len(current) <= 1
  /\ pending \in Seq(Temperature) /\ (pending # <<>> => current # <<>>)
  /\ value \in [Temperature \cup {Fan} -> Int] /\ given \in [Temperature -> Int]
  /\ value[Fan] \in {0, FanSpeed}
  /\ lock \in [Temperature -> [by : {Nothing, "loop", "down", "up"} \cup CpuThread, read : Int]]
  /\ links \subseteq Link /\ cpuLink \in BOOLEAN
  /\ thread \in [Key -> [at : {"none", "asleep", "checked", "gone"}, limit : Nat]]
  /\ cpu \in [CpuThread -> [at : {"none", "ready", "checked", "holding"}, impact : Nat]]
  /\ load \in DOMAIN Impact /\ power \in BOOLEAN
  /\ started \in BOOLEAN /\ enabled \in BOOLEAN
  /\ requests \in 0 .. MaxRequests

\* reload_model() set ambient to 0 and then to Warm; the sensor files hold
\* their defaults, 0 for a temperature; relations were configured before.
Init ==
  /\ ambient = Warm /\ mains = TRUE /\ room = [t \in RoomThread |-> 0]
  /\ news = <<[kind |-> "ambient", old |-> 0, new |-> Warm]>>
  /\ updates = <<>> /\ current = <<>> /\ pending = <<>>
  /\ value = [s \in Temperature \cup {Fan} |-> IF s = Fan THEN FanSpeed ELSE 0]
  /\ lock = [s \in Temperature |-> Free]
  /\ links = Configured /\ cpuLink = TRUE
  /\ thread = [k \in Key |-> NoThread]
  /\ cpu = [c \in CpuThread |-> NoCpuThread]
  /\ load = 0 /\ power = TRUE /\ started = FALSE /\ enabled = FALSE
  /\ given = [s \in Temperature |-> 0] /\ requests = 0

Ask == requests < MaxRequests /\ requests' = requests + 1

-----------------------------------------------------------------------------
(* The room.                                                               *)

\* set_ambient().
SetAmbient(new) ==
  /\ ambient' = new
  /\ news' = Append(news, [kind |-> "ambient", old |-> ambient, new |-> new])

\* Where _keep_changing_temp() wants the temperature; 0: where it is.
NextTemp(t) ==
  LET limit == RoomLimit[t] IN
  IF t = "warming"
  THEN IF ambient + 1 < limit THEN ambient + 1 ELSE IF ambient < limit THEN limit ELSE 0
  ELSE IF ambient - 1 > limit THEN ambient - 1 ELSE IF ambient > limit THEN limit ELSE 0

\* A room thread wakes, finds the mains as it needs them, and computes.
RoomReads(t) ==
  /\ room[t] = 0
  /\ mains = (t = "cooling")
  /\ NextTemp(t) # 0
  /\ room' = [room EXCEPT ![t] = NextTemp(t)]
  /\ UNCHANGED <<ambient, mains, news, updates, current, pending, value, lock, given, requests>>
  /\ UNCHANGED threadVars /\ UNCHANGED serverVars

\* ... and sets what it computed.
RoomSets(t) ==
  /\ room[t] # 0
  /\ SetAmbient(room[t])
  /\ room' = [room EXCEPT ![t] = 0]
  /\ UNCHANGED <<mains, updates, current, pending, value, lock, given, requests>>
  /\ UNCHANGED threadVars /\ UNCHANGED serverVars

ClientSetsAmbient(new) ==
  /\ Ask
  /\ SetAmbient(new)
  /\ UNCHANGED <<mains, room, updates, current, pending, value, lock, given>>
  /\ UNCHANGED threadVars /\ UNCHANGED serverVars

MainsChange ==
  /\ Ask
  /\ mains' = ~mains
  /\ UNCHANGED <<ambient, room, news, updates, current, pending, value, lock, given>>
  /\ UNCHANGED threadVars /\ UNCHANGED serverVars

-----------------------------------------------------------------------------
(* The loop: an update of the ambient temperature, handled by the server.  *)

Idle == current = <<>>

\* FAULT.  An iteration for a change that is none.
HearAmbientAlways ==
  /\ pending = <<>> /\ news # <<>> /\ Head(news).kind = "ambient"
  /\ updates' = Append(updates, [old |-> Head(news).old, new |-> Head(news).new])
  /\ news' = Tail(news)
  /\ UNCHANGED <<ambient, mains, room, current, pending, value, lock, given, requests>>
  /\ UNCHANGED threadVars /\ UNCHANGED serverVars

\* handle_ambient_update(): queue a thermal iteration.
HearAmbient ==
  /\ pending = <<>> /\ news # <<>> /\ Head(news).kind = "ambient"
  /\ LET m == Head(news) IN
     updates' = IF m.old = m.new THEN updates
                ELSE Append(updates, [old |-> m.old, new |-> m.new])
  /\ news' = Tail(news)
  /\ UNCHANGED <<ambient, mains, room, current, pending, value, lock, given, requests>>
  /\ UNCHANGED threadVars /\ UNCHANGED serverVars

\* The worker launches the iteration; its event reaches the server.
LaunchUpdate ==
  /\ Idle /\ updates # <<>>
  /\ current' = <<Head(updates)>> /\ updates' = Tail(updates)
  /\ pending' = Sensors
  /\ UNCHANGED <<ambient, mains, room, news, value, lock, given, requests>>
  /\ UNCHANGED threadVars /\ UNCHANGED serverVars

\* adjust_thermal_sensors(): the lock of one sensor, and its old value ...
AdjustReads(s) ==
  /\ pending # <<>> /\ s = Head(pending) /\ lock[s] = Free
  /\ lock' = [lock EXCEPT ![s] = [by |-> "loop", read |-> value[s]]]
  /\ UNCHANGED <<ambient, mains, room, news, updates, current, pending, value, given, requests>>
  /\ UNCHANGED threadVars /\ UNCHANGED serverVars

\* ... and its new one.
AdjustWrites(s) ==
  /\ lock[s].by = "loop"
  /\ LET old == lock[s].read
         u == current[1] IN
     value' = [value EXCEPT ![s] = IF old = 0 THEN u.new ELSE old - u.old + u.new]
  /\ lock' = [lock EXCEPT ![s] = Free]
  /\ pending' = Tail(pending)
  /\ UNCHANGED <<ambient, mains, room, news, updates, current, given, requests>>
  /\ UNCHANGED threadVars /\ UNCHANGED serverVars

\* start_thermal_impact(): a thread for every relation there is.
Launched == [k \in Key |-> IF \E l \in links : <<Target[l], Event[l]>> = k THEN Asleep ELSE thread[k]]
LaunchedCpu ==
  LET c == CHOOSE c \in CpuThread : cpu[c].at = "none" IN
  [cpu EXCEPT ![c] = [at |-> "ready", impact |-> 0]]

\* The handler returns and the iteration is done; the first one has started
\* the threads.
UpdateEnds ==
  /\ current # <<>> /\ pending = <<>>
  /\ current' = <<>>
  /\ started' = TRUE
  /\ enabled' = (enabled \/ ~started)
  /\ thread' = IF started THEN thread ELSE Launched
  /\ cpu' = IF started THEN cpu ELSE LaunchedCpu
  /\ UNCHANGED <<ambient, mains, room, news, updates, pending, value, lock, given, requests>>
  /\ UNCHANGED <<links, cpuLink, load, power>>

-----------------------------------------------------------------------------
(* Power and load of the server.                                           *)

\* power_off(), a server without input: shut_down_sensors().
PowerOff ==
  /\ Ask /\ Idle /\ power
  /\ power' = FALSE /\ enabled' = FALSE
  /\ value' = [value EXCEPT ![Fan] = 0]
  /\ UNCHANGED airVars /\ UNCHANGED threadVars
  /\ UNCHANGED <<news, lock, load, started, given>>

\* power_up_sensors().
PowerOn ==
  /\ Ask /\ Idle /\ ~power
  /\ power' = TRUE /\ enabled' = TRUE
  /\ value' = [value EXCEPT ![Fan] = FanSpeed]
  /\ UNCHANGED airVars /\ UNCHANGED threadVars
  /\ UNCHANGED <<news, lock, load, started, given>>

\* A user stops or starts the fan by writing its file.
SetFan ==
  /\ Ask
  /\ value' = [value EXCEPT ![Fan] = IF @ = 0 THEN FanSpeed ELSE 0]
  /\ UNCHANGED airVars /\ UNCHANGED threadVars /\ UNCHANGED serverVars
  /\ UNCHANGED <<news, lock, given>>

\* _monitor_vm() takes a sample.
SampleLoad(l) ==
  /\ l # load /\ (l # 0 => power)
  /\ load' = l
  /\ UNCHANGED airVars /\ UNCHANGED threadVars
  /\ UNCHANGED <<news, value, lock, power, started, enabled, given, requests>>

-----------------------------------------------------------------------------
(* Relations, as the command line configures them.                         *)

\* update_thermal_sensor_target(): MERGE, and tell the engine if it is new.
SetLink(l) ==
  /\ Ask /\ started
  /\ Patient => thread[<<Target[l], Event[l]>>].at # "gone"
  /\ links' = links \cup {l}
  /\ news' = IF l \in links THEN news ELSE Append(news, [kind |-> "link", link |-> l])
  /\ UNCHANGED airVars /\ UNCHANGED serverVars
  /\ UNCHANGED <<value, lock, thread, cpuLink, cpu, given>>

\* delete_thermal_sensor_target(): nobody is told.
DeleteLink(l) ==
  /\ Ask /\ started /\ l \in links
  /\ links' = links \ {l}
  /\ UNCHANGED airVars /\ UNCHANGED serverVars
  /\ UNCHANGED <<news, value, lock, thread, cpuLink, cpu, given>>

\* update_thermal_cpu_target(), delete_thermal_cpu_target().
SetCpuLink ==
  /\ Ask /\ started /\ ~cpuLink
  /\ cpuLink' = TRUE
  /\ news' = Append(news, [kind |-> "cpu"])
  /\ UNCHANGED airVars /\ UNCHANGED serverVars
  /\ UNCHANGED <<value, lock, links, thread, cpu, given>>

DeleteCpuLink ==
  /\ Ask /\ started /\ cpuLink
  /\ cpuLink' = FALSE
  /\ UNCHANGED airVars /\ UNCHANGED serverVars
  /\ UNCHANGED <<news, value, lock, links, thread, cpu, given>>

\* FAULT.  The thread of the target's other event is taken for this one's.
HearLinkOfTarget ==
  /\ pending = <<>> /\ news # <<>> /\ Head(news).kind = "link"
  /\ LET l == Head(news).link
         k == <<Target[l], Event[l]>> IN
     thread' = IF (\A o \in Key : o[1] = k[1] => thread[o].at = "none") /\ l \in links
               THEN [thread EXCEPT ![k] = Asleep] ELSE thread
  /\ news' = Tail(news)
  /\ UNCHANGED airVars /\ UNCHANGED serverVars
  /\ UNCHANGED <<value, lock, links, cpuLink, cpu, given, requests>>

\* on_new_sensor_thermal_impact(): a thread, unless one is there (it raises)
\* or the relation was deleted meanwhile.
HearLink ==
  /\ pending = <<>> /\ news # <<>> /\ Head(news).kind = "link"
  /\ LET l == Head(news).link
         k == <<Target[l], Event[l]>> IN
     thread' = IF thread[k].at = "none" /\ l \in links
               THEN [thread EXCEPT ![k] = Asleep] ELSE thread
  /\ news' = Tail(news)
  /\ UNCHANGED airVars /\ UNCHANGED serverVars
  /\ UNCHANGED <<value, lock, links, cpuLink, cpu, given, requests>>

\* on_new_cpu_thermal_impact(): a thread, always.
HearCpuLink ==
  /\ pending = <<>> /\ news # <<>> /\ Head(news).kind = "cpu"
  /\ \E c \in CpuThread : cpu[c].at = "none"
  /\ cpu' = LaunchedCpu
  /\ news' = Tail(news)
  /\ UNCHANGED airVars /\ UNCHANGED serverVars
  /\ UNCHANGED <<value, lock, links, thread, cpuLink, given, requests>>

-----------------------------------------------------------------------------
(* _target_sensor(): the thread of a relation.                             *)

Present(k) == {l \in links : <<Target[l], Event[l]>> = k}
LinkOf(k) == CHOOSE l \in Link : <<Target[l], Event[l]>> = k

\* It wakes while impact is enabled, and looks the relation up; a target is
\* not cooled below the ambient temperature of now.
ThreadWakes(k) ==
  /\ thread[k].at = "asleep" /\ enabled
  /\ LET l == LinkOf(k)
         limit == IF Heats[l] \/ PauseAt[l] > ambient THEN PauseAt[l] ELSE ambient IN
     thread' = [thread EXCEPT ![k] =
                  [at |-> IF Present(k) # {} THEN "checked" ELSE "gone", limit |-> limit]]
  /\ UNCHANGED airVars /\ UNCHANGED serverVars
  /\ UNCHANGED <<news, value, lock, links, cpuLink, cpu, given, requests>>

\* The relation was deleted: forget the thread and return.
ThreadEnds(k) ==
  /\ thread[k].at = "gone"
  /\ thread' = [thread EXCEPT ![k] = NoThread]
  /\ UNCHANGED airVars /\ UNCHANGED serverVars
  /\ UNCHANGED <<news, value, lock, links, cpuLink, cpu, given, requests>>

\* Under the target's lock: read it.
ThreadReads(k) ==
  /\ thread[k].at = "checked" /\ lock[k[1]] = Free
  /\ lock' = [lock EXCEPT ![k[1]] = [by |-> k[2], read |-> value[k[1]]]]
  /\ UNCHANGED airVars /\ UNCHANGED threadVars /\ UNCHANGED serverVars
  /\ UNCHANGED <<news, value, given, requests>>

\* One step towards the limit, if the source is as the event wants it.
Stepped(old, l, limit) ==
  LET new == IF Heats[l] THEN old + Degrees[l] ELSE old - Degrees[l]
      Below(a, b) == IF Heats[l] THEN a < b ELSE a > b IN
  IF Below(new, limit) THEN new ELSE IF Below(old, limit) THEN limit ELSE old

ThreadWrites(k) ==
  LET s == k[1] IN
  /\ thread[k].at = "checked" /\ lock[s].by = k[2]
  /\ LET active == (Event[LinkOf(k)] = "down") = (value[Fan] = 0)
         new == IF active THEN Stepped(lock[s].read, LinkOf(k), thread[k].limit)
                ELSE value[s] IN
     /\ value' = [value EXCEPT ![s] = new]
     /\ given' = [given EXCEPT ![s] = IF active THEN @ + (new - lock[s].read) ELSE @]
  /\ lock' = [lock EXCEPT ![s] = Free]
  /\ thread' = [thread EXCEPT ![k] = Asleep]
  /\ UNCHANGED airVars /\ UNCHANGED serverVars
  /\ UNCHANGED <<news, links, cpuLink, cpu, requests>>

-----------------------------------------------------------------------------
(* _cpu_impact(): it sleeps with the sensor's lock in its hands.           *)

\* It wakes while impact is enabled, and ends if the relation was deleted.
CpuWakes(c) ==
  /\ cpu[c].at = "ready" /\ enabled
  /\ cpu' = [cpu EXCEPT ![c] = IF cpuLink THEN [@ EXCEPT !.at = "checked"] ELSE NoCpuThread]
  /\ UNCHANGED airVars /\ UNCHANGED serverVars
  /\ UNCHANGED <<news, value, lock, links, thread, cpuLink, given, requests>>

\* The sensor takes the change of the impact since the last time, but is not
\* set below the ambient temperature.
AddImpact(c) ==
  LET impact == Impact[load]
      sum == value[Hot] + impact - cpu[c].impact
      new == IF impact = cpu[c].impact THEN value[Hot]
             ELSE IF sum > ambient THEN sum ELSE ambient IN
  /\ value' = [value EXCEPT ![Hot] = new]
  /\ given' = [given EXCEPT ![Hot] = @ + (new - value[Hot])]
  /\ cpu' = [cpu EXCEPT ![c] = [at |-> "holding", impact |-> impact]]

\* FAULT.  The lock is not waited for.
CpuHeatsUnlocked(c) ==
  /\ cpu[c].at = "checked"
  /\ AddImpact(c)
  /\ UNCHANGED airVars /\ UNCHANGED serverVars
  /\ UNCHANGED <<news, lock, links, thread, cpuLink, requests>>

CpuHeats(c) ==
  /\ cpu[c].at = "checked" /\ lock[Hot] = Free
  /\ AddImpact(c)
  /\ lock' = [lock EXCEPT ![Hot] = [by |-> c, read |-> 0]]
  /\ UNCHANGED airVars /\ UNCHANGED serverVars
  /\ UNCHANGED <<news, links, thread, cpuLink, requests>>

\* FAULT.  It waits for impact to be enabled before it lets go of the lock.
CpuReleasesEnabled(c) ==
  /\ cpu[c].at = "holding" /\ enabled
  /\ cpu' = [cpu EXCEPT ![c].at = "ready"]
  /\ lock' = [lock EXCEPT ![Hot] = Free]
  /\ UNCHANGED airVars /\ UNCHANGED serverVars
  /\ UNCHANGED <<news, value, links, thread, cpuLink, given, requests>>

CpuReleases(c) ==
  /\ cpu[c].at = "holding"
  /\ cpu' = [cpu EXCEPT ![c].at = "ready"]
  /\ lock' = [lock EXCEPT ![Hot] = Free]
  /\ UNCHANGED airVars /\ UNCHANGED serverVars
  /\ UNCHANGED <<news, value, links, thread, cpuLink, given, requests>>

-----------------------------------------------------------------------------
Loop ==
  \/ HearAmbient \/ LaunchUpdate \/ UpdateEnds \/ HearLink \/ HearCpuLink
  \/ \E s \in Temperature : AdjustWrites(s)

Threads ==
  \/ \E k \in Key : ThreadWakes(k) \/ ThreadEnds(k) \/ ThreadReads(k) \/ ThreadWrites(k)
  \/ \E c \in CpuThread : CpuWakes(c) \/ CpuHeats(c) \/ CpuReleases(c)

Room == \E t \in RoomThread : RoomReads(t) \/ RoomSets(t)

Users ==
  \/ MainsChange \/ PowerOff \/ PowerOn \/ SetFan \/ SetCpuLink \/ DeleteCpuLink
  \/ \E new \in Temps : ClientSetsAmbient(new)
  \/ \E l \in Link : SetLink(l) \/ DeleteLink(l)
  \/ \E l \in DOMAIN Impact : SampleLoad(l)

Next == Loop \/ Threads \/ Room \/ Users \/ \E s \in Temperature : AdjustReads(s)

\* The loop and the threads run.  A lock that is released again and again is
\* eventually had (the CPU thread sleeps between two).
Fairness ==
  /\ WF_vars(Loop)
  /\ \A s \in Temperature : SF_vars(AdjustReads(s))
  /\ \A c \in CpuThread : WF_vars(CpuReleases(c))
  /\ \A k \in Key : WF_vars(ThreadWrites(k))

Spec == Init /\ [][Next]_vars /\ Fairness

-----------------------------------------------------------------------------
Quiet == news = <<>> /\ updates = <<>> /\ current = <<>>

\* Every change of the ambient temperature moves each temperature sensor by
\* as much, however the changes of the room, of clients and of the impact
\* threads interleave (set_ambient, adjust_thermal_sensors, the sensor
\* locks): once all were handled, a sensor is as warm as the room, plus what
\* the threads added to it.
SensorsFollowAmbient ==
  Quiet => \A s \in Temperature : value[s] = ambient + given[s]

Announced(m) == \E i \in 1 .. Len(news) : news[i] = m

\* A relation of the graph database that the engine was told of has a thread
\* working for it, also when it was deleted and set again while that thread
\* slept (_target_sensor, add_sensor_thermal_impact, _cpu_impact).
RelationsHaveTheirThread ==
  started =>
    /\ \A l \in links : Announced([kind |-> "link", link |-> l])
                        \/ thread[<<Target[l], Event[l]>>].at \in {"asleep", "checked"}
    /\ cpuLink => \/ Announced([kind |-> "cpu"])
                  \/ \E c \in CpuThread : cpu[c].at # "none"

\* Every update of the ambient temperature is handled to its end, also while
\* threads hold the locks of the sensors it adjusts (the CPU thread sleeps
\* with one).
UpdatesAreApplied == []<>Quiet

\* sensor.py:394 "verify that sensor value doesn't go below room temp": a
\* sensor that no CPU load heats is never colder than the room.
NotBelowRoom ==
  Quiet => \A s \in Temperature : value[s] >= ambient
=============================================================================
