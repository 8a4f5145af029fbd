----------------------------- MODULE ThermalProofs -----------------------------
(***************************************************************************)
(* Proofs about Thermal for any sensors, relations, CPU model and limits,  *)
(* and any number of requests: its types; that the relations of the graph  *)
(* database keep their threads; and that sensors follow the ambient        *)
(* temperature, in rooms whose temperatures stay within a factor of two.   *)
(***************************************************************************)
EXTENDS Thermal, TLAPS

\* The loop holds the lock of the sensor it is adjusting, and no other.
LoopAdjusts ==
  \A s \in Temperature : lock[s].by = "loop" => pending # <<>> /\ s = Head(pending)

TInv == TypeOK /\ LoopAdjusts

\* A thread that found its relation deleted has none until it has ended.
GoneForGood == \A k \in Key : thread[k].at = "gone" => Present(k) = {}

RInv == TInv /\ GoneForGood /\ RelationsHaveTheirThread

-----------------------------------------------------------------------------
USE DEF airVars, threadVars, serverVars

\* The keys of the relations name a sensor and an event.
LEMMA KeysNameSensors ==
  /\ \A k \in Key : k[1] \in Temperature /\ k[2] \in {"down", "up"}
  /\ \A l \in Link : <<Target[l], Event[l]>> \in Key
  /\ \A k \in Key : LinkOf(k) \in Link
<1> USE ThermalAssumption DEF ThermalAssumption
<1>1. \A k \in Key : k[1] \in Temperature /\ k[2] \in {"down", "up"}
  BY DEF Key
<1>2. \A l \in Link : <<Target[l], Event[l]>> \in Key
  BY DEF Key
<1>3. ASSUME NEW k \in Key PROVE LinkOf(k) \in Link
  <2>1. \E l \in Link : <<Target[l], Event[l]>> = k
    BY DEF Key
  <2>2. QED BY <2>1 DEF LinkOf
<1>4. QED BY <1>1, <1>2, <1>3

\* set_ambient() announces the change it makes.
LEMMA SetAmbientKeepsTypes ==
  ASSUME TypeOK, NEW t \in Nat, SetAmbient(t)
  PROVE  ambient' \in Nat /\ news' \in Seq(Message)
<1>1. [kind |-> "ambient", old |-> ambient, new |-> t] \in Message
  BY DEF TypeOK, Message
<1>2. QED BY <1>1 DEF SetAmbient, TypeOK

\* A request is counted while there are any left.
LEMMA AskIsBounded ==
  ASSUME TypeOK, Ask
  PROVE  requests' \in 0 .. MaxRequests
<1>1. requests \in 0 .. MaxRequests /\ MaxRequests \in Nat
  BY ThermalAssumption DEF ThermalAssumption, TypeOK
<1>2. requests < MaxRequests /\ requests' = requests + 1
  BY DEF Ask
<1>3. QED BY <1>1, <1>2

\* A lock that is not given to the loop does not disturb it.
LEMMA OthersLock ==
  ASSUME TInv, NEW s \in Temperature, NEW b, lock' = [lock EXCEPT ![s] = b],
         b.by # "loop", UNCHANGED pending
  PROVE  LoopAdjusts'
<1>1. lock'[s].by # "loop" /\ \A o \in Temperature \ {s} : lock'[o] = lock[o]
  BY DEF TInv, TypeOK
<1>2. QED BY <1>1 DEF TInv, LoopAdjusts

\* The steps of the room.
LEMMA RoomTypes ==
  ASSUME TInv, Room
  PROVE  TInv'
<1> USE ThermalAssumption DEF ThermalAssumption
<1>1. ASSUME NEW t \in RoomThread, RoomReads(t) PROVE TInv'
  <2>1. NextTemp(t) \in Nat
    <3>1. ambient \in Nat /\ RoomLimit[t] \in Nat
      BY DEF TInv, TypeOK
    <3>2. CASE t = "warming"
      BY <3>1, <3>2 DEF NextTemp
    <3>3. CASE t # "warming"
      BY <3>1, <3>3 DEF NextTemp
    <3>4. QED BY <3>2, <3>3
  <2>2. room' \in [RoomThread -> Nat]
    BY <1>1, <2>1 DEF RoomReads, TInv, TypeOK
  <2>3. QED BY <1>1, <2>2 DEF RoomReads, TInv, TypeOK, LoopAdjusts
<1>2. ASSUME NEW t \in RoomThread, RoomSets(t) PROVE TInv'
  <2>1. ambient' \in Nat /\ news' \in Seq(Message)
    BY <1>2, SetAmbientKeepsTypes DEF RoomSets, TInv, TypeOK
  <2>2. room' \in [RoomThread -> Nat]
    BY <1>2 DEF RoomSets, TInv, TypeOK
  <2>3. QED BY <1>2, <2>1, <2>2 DEF RoomSets, TInv, TypeOK, LoopAdjusts
<1>3. QED BY <1>1, <1>2 DEF Room

\* A thread in a new state, and everything else as it was.
LEMMA ThreadSteps ==
  ASSUME TInv, NEW k \in Key, ThreadWakes(k) \/ ThreadEnds(k)
  PROVE  TInv'
<1> USE ThermalAssumption, KeysNameSensors DEF ThermalAssumption
<1>1. thread' \in [Key -> [at : {"none", "asleep", "checked", "gone"}, limit : Nat]]
  <2>1. CASE ThreadWakes(k)
    BY <2>1 DEF ThreadWakes, TInv, TypeOK
  <2>2. CASE ThreadEnds(k)
    BY <2>2 DEF ThreadEnds, NoThread, TInv, TypeOK
  <2>3. QED BY <2>1, <2>2
<1>2. UNCHANGED <<ambient, mains, room, news, updates, current, pending, value, lock,
                  links, cpuLink, cpu, load, power, started, enabled, given, requests>>
  BY DEF ThreadWakes, ThreadEnds
<1>3. QED BY <1>1, <1>2 DEF TInv, TypeOK, LoopAdjusts

\* A thread takes the lock of its target, which is then not the loop's.
LEMMA ThreadReadsTypes ==
  ASSUME TInv, NEW k \in Key, ThreadReads(k)
  PROVE  TInv'
<1> USE ThermalAssumption, KeysNameSensors DEF ThermalAssumption
<1>1. lock' = [lock EXCEPT ![k[1]] = [by |-> k[2], read |-> value[k[1]]]] /\ k[2] # "loop"
  BY DEF ThreadReads
<1>2. value[k[1]] \in Int
  BY DEF TInv, TypeOK
<1>3. lock' \in [Temperature -> [by : {Nothing, "loop", "down", "up"} \cup CpuThread, read : Int]]
  BY <1>1, <1>2 DEF TInv, TypeOK
<1>4. LoopAdjusts'
  <2>1. [by |-> k[2], read |-> value[k[1]]].by # "loop" /\ UNCHANGED pending
    BY <1>1 DEF ThreadReads
  <2>2. QED BY <1>1, <2>1, OthersLock
<1>5. QED BY <1>3, <1>4 DEF ThreadReads, TInv, TypeOK

\* ... and gives it back with a new temperature.
LEMMA ThreadWritesTypes ==
  ASSUME TInv, NEW k \in Key, ThreadWrites(k)
  PROVE  TInv'
<1> USE ThermalAssumption, KeysNameSensors DEF ThermalAssumption
<1>1. /\ k[1] \in Temperature /\ lock[k[1]].read \in Int /\ value[k[1]] \in Int
      /\ thread[k].limit \in Nat /\ LinkOf(k) \in Link
  BY DEF TInv, TypeOK
<1>2. Stepped(lock[k[1]].read, LinkOf(k), thread[k].limit) \in Int
  BY <1>1 DEF Stepped
<1>3. /\ value \in [Temperature \cup {Fan} -> Int] /\ given \in [Temperature -> Int]
      /\ Fan # k[1]
  BY <1>1 DEF TInv, TypeOK
<1>4. /\ value' \in [Temperature \cup {Fan} -> Int] /\ given' \in [Temperature -> Int]
      /\ value'[Fan] = value[Fan]
  <2> DEFINE active == (Event[LinkOf(k)] = "down") = (value[Fan] = 0)
             step == Stepped(lock[k[1]].read, LinkOf(k), thread[k].limit)
  <2>1. CASE active
    <3>1. /\ value' = [value EXCEPT ![k[1]] = step]
          /\ given' = [given EXCEPT ![k[1]] = @ + (step - lock[k[1]].read)]
      BY <2>1 DEF ThreadWrites
    <3>2. step \in Int
      BY <1>2
    <3> HIDE DEF step
    <3>3. given[k[1]] + (step - lock[k[1]].read) \in Int
      <4>1. given[k[1]] \in Int /\ lock[k[1]].read \in Int
        BY <1>1, <1>3
      <4>2. \A a, b, c \in Int : a + (b - c) \in Int
        OBVIOUS
      <4>3. QED BY <3>2, <4>1, <4>2
    <3>4. QED BY <1>1, <1>3, <3>1, <3>2, <3>3
  <2>2. CASE ~active
    <3>1. /\ value' = [value EXCEPT ![k[1]] = value[k[1]]]
          /\ given' = [given EXCEPT ![k[1]] = given[k[1]]]
      BY <2>2 DEF ThreadWrites
    <3>2. QED BY <1>1, <1>3, <3>1
  <2>3. QED BY <2>1, <2>2
<1>5. lock' = [lock EXCEPT ![k[1]] = Free] /\ Free.by # "loop"
  BY DEF ThreadWrites, Free, Nothing
<1>6. lock' \in [Temperature -> [by : {Nothing, "loop", "down", "up"} \cup CpuThread, read : Int]]
  BY <1>1, <1>5 DEF TInv, TypeOK, Free
<1>7. LoopAdjusts'
  BY <1>1, <1>5, OthersLock DEF ThreadWrites
<1>8. thread' \in [Key -> [at : {"none", "asleep", "checked", "gone"}, limit : Nat]]
  BY DEF ThreadWrites, TInv, TypeOK, Asleep
<1>9. QED BY <1>4, <1>6, <1>7, <1>8 DEF ThreadWrites, TInv, TypeOK

\* The threads of the CPU relation.
LEMMA CpuTypes ==
  ASSUME TInv, NEW c \in CpuThread, CpuWakes(c) \/ CpuHeats(c) \/ CpuReleases(c)
  PROVE  TInv'
<1> USE ThermalAssumption DEF ThermalAssumption
<1>0. cpu[c] \in [at : {"none", "ready", "checked", "holding"}, impact : Nat]
  BY DEF TInv, TypeOK
<1>1. CASE CpuWakes(c)
  <2>1. cpu' \in [CpuThread -> [at : {"none", "ready", "checked", "holding"}, impact : Nat]]
    BY <1>0, <1>1 DEF CpuWakes, NoCpuThread, TInv, TypeOK
  <2>2. QED BY <1>1, <2>1 DEF CpuWakes, TInv, TypeOK, LoopAdjusts
<1>2. CASE CpuHeats(c)
  <2>1. Impact[load] \in Nat /\ cpu[c].impact \in Nat /\ value[Hot] \in Int /\ ambient \in Nat
    BY <1>0 DEF TInv, TypeOK
  <2> DEFINE sum == value[Hot] + Impact[load] - cpu[c].impact
             new == IF Impact[load] = cpu[c].impact THEN value[Hot]
                    ELSE IF sum > ambient THEN sum ELSE ambient
  <2>2. new \in Int
    BY <2>1
  <2>3. /\ value' = [value EXCEPT ![Hot] = new]
        /\ given' = [given EXCEPT ![Hot] = @ + (new - value[Hot])]
        /\ cpu' = [cpu EXCEPT ![c] = [at |-> "holding", impact |-> Impact[load]]]
    BY <1>2 DEF CpuHeats, AddImpact
  <2> HIDE DEF new
  <2>4. /\ value' \in [Temperature \cup {Fan} -> Int] /\ value'[Fan] = value[Fan]
        /\ given' \in [Temperature -> Int]
    <3>1. /\ value \in [Temperature \cup {Fan} -> Int] /\ given \in [Temperature -> Int]
          /\ Fan # Hot
      BY DEF TInv, TypeOK
    <3>2. QED BY <2>1, <2>2, <2>3, <3>1
  <2>5. cpu' \in [CpuThread -> [at : {"none", "ready", "checked", "holding"}, impact : Nat]]
    BY <2>1, <2>3 DEF TInv, TypeOK
  <2>6. lock' = [lock EXCEPT ![Hot] = [by |-> c, read |-> 0]] /\ c # "loop"
    BY <1>2 DEF CpuHeats
  <2>7. lock' \in [Temperature -> [by : {Nothing, "loop", "down", "up"} \cup CpuThread, read : Int]]
    BY <2>6 DEF TInv, TypeOK
  <2>8. LoopAdjusts'
    <3>1. [by |-> c, read |-> 0].by # "loop" /\ UNCHANGED pending
      BY <1>2, <2>6 DEF CpuHeats
    <3>2. QED BY <2>6, <3>1, OthersLock
  <2>9. QED BY <1>2, <2>4, <2>5, <2>7, <2>8 DEF CpuHeats, TInv, TypeOK
<1>3. CASE CpuReleases(c)
  <2>1. cpu' \in [CpuThread -> [at : {"none", "ready", "checked", "holding"}, impact : Nat]]
    BY <1>0, <1>3 DEF CpuReleases, TInv, TypeOK
  <2>2. lock' = [lock EXCEPT ![Hot] = Free] /\ Free.by # "loop"
    BY <1>3 DEF CpuReleases, Free, Nothing
  <2>3. lock' \in [Temperature -> [by : {Nothing, "loop", "down", "up"} \cup CpuThread, read : Int]]
    BY <2>2 DEF TInv, TypeOK, Free
  <2>4. LoopAdjusts'
    BY <1>3, <2>2, OthersLock DEF CpuReleases
  <2>5. QED BY <1>3, <2>1, <2>3, <2>4 DEF CpuReleases, TInv, TypeOK
<1>4. QED BY <1>1, <1>2, <1>3

\* A new thread of the CPU relation.
LEMMA LaunchedCpuIsTyped ==
  ASSUME TypeOK
  PROVE  LaunchedCpu \in [CpuThread -> [at : {"none", "ready", "checked", "holding"}, impact : Nat]]
BY DEF LaunchedCpu, TypeOK

\* The handlers of the loop that hear what was published.
LEMMA HearTypes ==
  ASSUME TInv, HearAmbient \/ HearLink \/ HearCpuLink
  PROVE  TInv'
<1> USE ThermalAssumption, KeysNameSensors DEF ThermalAssumption
<1>0. /\ news \in Seq(Message) /\ news # <<>>
      /\ Head(news) \in Message /\ news' = Tail(news) /\ news' \in Seq(Message)
  <2>1. news \in Seq(Message)
    BY DEF TInv, TypeOK
  <2>2. news # <<>> /\ news' = Tail(news)
    BY DEF HearAmbient, HearLink, HearCpuLink
  <2>3. QED BY <2>1, <2>2
<1>1. CASE HearAmbient
  <2>1. Head(news).old \in Nat /\ Head(news).new \in Nat
    BY <1>0, <1>1 DEF HearAmbient, Message
  <2>2. updates' \in Seq(Change)
    <3>1. CASE Head(news).old = Head(news).new
      BY <1>1, <3>1 DEF HearAmbient, TInv, TypeOK
    <3>2. CASE Head(news).old # Head(news).new
      <4>1. [old |-> Head(news).old, new |-> Head(news).new] \in Change
        BY <2>1, <3>2 DEF Change
      <4>2. QED BY <1>1, <3>2, <4>1 DEF HearAmbient, TInv, TypeOK
    <3>3. QED BY <3>1, <3>2
  <2>3. QED BY <1>0, <1>1, <2>2 DEF HearAmbient, TInv, TypeOK, LoopAdjusts
<1>2. CASE HearLink
  <2>1. Head(news).link \in Link
    BY <1>0, <1>2 DEF HearLink, Message
  <2>2. thread' \in [Key -> [at : {"none", "asleep", "checked", "gone"}, limit : Nat]]
    BY <1>2, <2>1 DEF HearLink, Asleep, TInv, TypeOK
  <2>3. QED BY <1>0, <1>2, <2>2 DEF HearLink, TInv, TypeOK, LoopAdjusts
<1>3. CASE HearCpuLink
  BY <1>0, <1>3, LaunchedCpuIsTyped DEF HearCpuLink, TInv, TypeOK, LoopAdjusts
<1>4. QED BY <1>1, <1>2, <1>3

\* The steps of a thermal iteration.
LEMMA UpdateTypes ==
  ASSUME TInv, LaunchUpdate \/ UpdateEnds
  PROVE  TInv'
<1> USE ThermalAssumption, KeysNameSensors DEF ThermalAssumption
<1>0. /\ updates \in Seq(Change) /\ current \in Seq(Change)
      /\ pending \in Seq(Temperature) /\ (pending # <<>> => current # <<>>)
  BY DEF TInv, TypeOK
<1>1. CASE LaunchUpdate
  <2>1. current' \in Seq(Change) /\ Len(current') <= 1 /\ updates' \in Seq(Change) /\ current' # <<>>
    BY <1>0, <1>1 DEF LaunchUpdate
  <2>2. pending = <<>>
    BY <1>0, <1>1 DEF LaunchUpdate, Idle
  <2>3. LoopAdjusts'
    BY <1>1, <2>2 DEF LaunchUpdate, TInv, LoopAdjusts
  <2>4. pending' \in Seq(Temperature)
    BY <1>1 DEF LaunchUpdate
  <2>5. QED BY <1>1, <2>1, <2>3, <2>4 DEF LaunchUpdate, TInv, TypeOK
<1>2. CASE UpdateEnds
  <2>1. current' = <<>> /\ current' \in Seq(Change) /\ Len(current') <= 1
    BY <1>2 DEF UpdateEnds
  <2>2. thread' \in [Key -> [at : {"none", "asleep", "checked", "gone"}, limit : Nat]]
    BY <1>2 DEF UpdateEnds, Launched, Asleep, TInv, TypeOK
  <2>3. cpu' \in [CpuThread -> [at : {"none", "ready", "checked", "holding"}, impact : Nat]]
    BY <1>2, LaunchedCpuIsTyped DEF UpdateEnds, TInv, TypeOK
  <2>4. started' \in BOOLEAN /\ enabled' \in BOOLEAN
    BY <1>2 DEF UpdateEnds, TInv, TypeOK
  <2>5. QED BY <1>0, <1>2, <2>1, <2>2, <2>3, <2>4 DEF UpdateEnds, TInv, TypeOK, LoopAdjusts
<1>3. QED BY <1>1, <1>2

\* adjust_thermal_sensors() with one sensor.
LEMMA AdjustTypes ==
  ASSUME TInv, NEW s \in Temperature, AdjustReads(s) \/ AdjustWrites(s)
  PROVE  TInv'
<1> USE ThermalAssumption DEF ThermalAssumption
<1>0. /\ current \in Seq(Change) /\ pending \in Seq(Temperature)
      /\ (pending # <<>> => current # <<>>)
      /\ value \in [Temperature \cup {Fan} -> Int] /\ lock[s].read \in Int
  BY DEF TInv, TypeOK
<1>1. CASE AdjustReads(s)
  <2>1. lock' = [lock EXCEPT ![s] = [by |-> "loop", read |-> value[s]]]
    BY <1>1 DEF AdjustReads
  <2>2. lock' \in [Temperature -> [by : {Nothing, "loop", "down", "up"} \cup CpuThread, read : Int]]
    BY <1>0, <2>1 DEF TInv, TypeOK
  <2>3. LoopAdjusts'
    BY <1>1, <2>1 DEF AdjustReads, TInv, TypeOK, LoopAdjusts
  <2>4. QED BY <1>1, <2>2, <2>3 DEF AdjustReads, TInv, TypeOK
<1>2. CASE AdjustWrites(s)
  <2>1. pending # <<>> /\ s = Head(pending)
    BY <1>2 DEF AdjustWrites, TInv, LoopAdjusts
  <2>2. current[1] \in Change
    BY <1>0, <2>1
  <2>3. current[1].old \in Nat /\ current[1].new \in Nat
    BY <2>2 DEF Change
  <2>4. value' \in [Temperature \cup {Fan} -> Int] /\ value'[Fan] = value[Fan]
    <3> DEFINE new == IF lock[s].read = 0 THEN current[1].new
                      ELSE lock[s].read - current[1].old + current[1].new
    <3>1. value' = [value EXCEPT ![s] = new]
      BY <1>2 DEF AdjustWrites
    <3>2. new \in Int
      <4>1. lock[s].read - current[1].old + current[1].new \in Int
        BY <1>0, <2>3
      <4>2. current[1].new \in Int
        BY <2>3
      <4>3. QED BY <4>1, <4>2
    <3> HIDE DEF new
    <3>3. Fan # s
      OBVIOUS
    <3>4. QED BY <1>0, <3>1, <3>2, <3>3
  <2>5. lock' = [lock EXCEPT ![s] = Free] /\ Free.by # "loop"
    BY <1>2 DEF AdjustWrites, Free, Nothing
  <2>6. lock' \in [Temperature -> [by : {Nothing, "loop", "down", "up"} \cup CpuThread, read : Int]]
    BY <2>5 DEF TInv, TypeOK, Free
  <2>7. LoopAdjusts'
    BY <2>1, <2>5 DEF TInv, TypeOK, LoopAdjusts
  <2>8. pending' \in Seq(Temperature)
    BY <1>0, <1>2, <2>1 DEF AdjustWrites
  <2>9. QED BY <1>0, <1>2, <2>1, <2>4, <2>6, <2>7, <2>8 DEF AdjustWrites, TInv, TypeOK
<1>3. QED BY <1>1, <1>2

\* What users do to the air and to the server.
LEMMA ServerTypes ==
  ASSUME TInv,
         \/ MainsChange \/ PowerOff \/ PowerOn \/ SetFan
         \/ \E new \in Temps : ClientSetsAmbient(new)
         \/ \E l \in DOMAIN Impact : SampleLoad(l)
  PROVE  TInv'
<1> USE ThermalAssumption DEF ThermalAssumption
<1>0. /\ requests \in 0 .. MaxRequests /\ MaxRequests \in Nat
      /\ value \in [Temperature \cup {Fan} -> Int] /\ given \in [Temperature -> Int]
  BY DEF TInv, TypeOK
<1>1. CASE MainsChange
  BY <1>1, AskIsBounded DEF MainsChange, TInv, TypeOK, LoopAdjusts
<1>2. CASE PowerOff \/ PowerOn \/ SetFan
  <2>1. /\ value' \in [Temperature \cup {Fan} -> Int]
        /\ value'[Fan] \in {0, FanSpeed} /\ requests' \in 0 .. MaxRequests
        /\ power' \in BOOLEAN /\ enabled' \in BOOLEAN
    <3>1. requests' \in 0 .. MaxRequests
      BY <1>2, AskIsBounded DEF PowerOff, PowerOn, SetFan, TInv
    <3>2. power' \in BOOLEAN /\ enabled' \in BOOLEAN
      BY <1>2 DEF PowerOff, PowerOn, SetFan, TInv, TypeOK
    <3>3. \E v \in {0, FanSpeed} : value' = [value EXCEPT ![Fan] = v]
      BY <1>2 DEF PowerOff, PowerOn, SetFan
    <3>4. QED BY <1>0, <3>1, <3>2, <3>3
  <2>2. UNCHANGED <<ambient, mains, room, news, updates, current, pending, lock,
                    links, thread, cpuLink, cpu, load, started, given>>
    BY <1>2 DEF PowerOff, PowerOn, SetFan
  <2>3. QED BY <2>1, <2>2 DEF TInv, TypeOK, LoopAdjusts
<1>3. ASSUME NEW new \in Temps, ClientSetsAmbient(new) PROVE TInv'
  <2>1. ambient' \in Nat /\ news' \in Seq(Message)
    BY <1>3, SetAmbientKeepsTypes DEF ClientSetsAmbient, TInv
  <2>2. requests' \in 0 .. MaxRequests
    BY <1>3, AskIsBounded DEF ClientSetsAmbient, TInv
  <2>3. QED BY <1>3, <2>1, <2>2 DEF ClientSetsAmbient, TInv, TypeOK, LoopAdjusts
<1>4. ASSUME NEW l \in DOMAIN Impact, SampleLoad(l) PROVE TInv'
  BY <1>4 DEF SampleLoad, TInv, TypeOK, LoopAdjusts
<1>5. QED BY <1>1, <1>2, <1>3, <1>4

\* What the command line does to the relations.
LEMMA RelationTypes ==
  ASSUME TInv,
         \/ SetCpuLink \/ DeleteCpuLink
         \/ \E l \in Link : SetLink(l) \/ DeleteLink(l)
  PROVE  TInv'
<1> USE ThermalAssumption DEF ThermalAssumption
<1>1. requests' \in 0 .. MaxRequests
  BY AskIsBounded DEF SetCpuLink, DeleteCpuLink, SetLink, DeleteLink, TInv
<1>2. links' \subseteq Link /\ cpuLink' \in BOOLEAN
  BY DEF SetCpuLink, DeleteCpuLink, SetLink, DeleteLink, TInv, TypeOK
<1>3. news' \in Seq(Message)
  <2>1. [kind |-> "cpu"] \in Message /\ \A l \in Link : [kind |-> "link", link |-> l] \in Message
    BY DEF Message
  <2>2. news \in Seq(Message)
    BY DEF TInv, TypeOK
  <2>3. CASE SetCpuLink
    BY <2>1, <2>2, <2>3 DEF SetCpuLink
  <2>4. CASE DeleteCpuLink
    BY <2>2, <2>4 DEF DeleteCpuLink
  <2>5. ASSUME NEW l \in Link, SetLink(l) PROVE news' \in Seq(Message)
    BY <2>1, <2>2, <2>5 DEF SetLink
  <2>6. ASSUME NEW l \in Link, DeleteLink(l) PROVE news' \in Seq(Message)
    BY <2>2, <2>6 DEF DeleteLink
  <2>7. QED BY <2>3, <2>4, <2>5, <2>6
<1>4. UNCHANGED <<ambient, mains, room, updates, current, pending, value, lock,
                  thread, cpu, load, power, started, enabled, given>>
  BY DEF SetCpuLink, DeleteCpuLink, SetLink, DeleteLink
<1>5. QED BY <1>1, <1>2, <1>3, <1>4 DEF TInv, TypeOK, LoopAdjusts

\* Every step keeps the types.
LEMMA NextTypes ==
  ASSUME TInv, [Next]_vars
  PROVE  TInv'
<1>1. CASE Loop
  BY <1>1, HearTypes, UpdateTypes, AdjustTypes DEF Loop
<1>2. CASE Threads
  BY <1>2, ThreadSteps, ThreadReadsTypes, ThreadWritesTypes, CpuTypes DEF Threads
<1>3. CASE Room
  BY <1>3, RoomTypes
<1>4. CASE Users
  BY <1>4, ServerTypes, RelationTypes DEF Users
<1>5. CASE \E s \in Temperature : AdjustReads(s)
  BY <1>5, AdjustTypes
<1>6. CASE UNCHANGED vars
  BY <1>6 DEF vars, TInv, TypeOK, LoopAdjusts
<1>7. QED BY <1>1, <1>2, <1>3, <1>4, <1>5, <1>6 DEF Next

\* The engine starts with typed values.
LEMMA InitTypes == Init => TInv
<1> SUFFICES ASSUME Init PROVE TInv
  OBVIOUS
<1> USE ThermalAssumption DEF ThermalAssumption, Init
<1>1. news \in Seq(Message)
  <2>1. [kind |-> "ambient", old |-> 0, new |-> Warm] \in Message
    BY DEF Message
  <2>2. QED BY <2>1
<1>2. /\ lock \in [Temperature -> [by : {Nothing, "loop", "down", "up"} \cup CpuThread, read : Int]]
      /\ thread \in [Key -> [at : {"none", "asleep", "checked", "gone"}, limit : Nat]]
      /\ cpu \in [CpuThread -> [at : {"none", "ready", "checked", "holding"}, impact : Nat]]
  BY DEF Free, NoThread, NoCpuThread
<1>3. /\ value \in [Temperature \cup {Fan} -> Int] /\ value[Fan] = FanSpeed
      /\ given \in [Temperature -> Int] /\ room \in [RoomThread -> Nat]
  OBVIOUS
<1>4. TypeOK
  <2>1. /\ updates \in Seq(Change) /\ current \in Seq(Change) /\ Len(current) <= 1
        /\ pending \in Seq(Temperature) /\ pending = <<>>
    OBVIOUS
  <2>2. ambient \in Nat /\ mains \in BOOLEAN /\ requests \in 0 .. MaxRequests
    OBVIOUS
  <2>3. /\ links \subseteq Link /\ cpuLink \in BOOLEAN /\ load \in DOMAIN Impact
        /\ power \in BOOLEAN /\ started \in BOOLEAN /\ enabled \in BOOLEAN
    OBVIOUS
  <2>4. QED BY <1>1, <1>2, <1>3, <2>1, <2>2, <2>3 DEF TypeOK
<1>5. LoopAdjusts
  BY DEF LoopAdjusts, Free, Nothing
<1>6. QED BY <1>4, <1>5 DEF TInv

\* Whatever the room, clients, the command line and the threads do, updates
\* are for temperatures that change, and the loop adjusts sensors only in an
\* iteration: TypeOK holds for any sensors and relations.
THEOREM ThermalTypeCorrect == Spec => []TypeOK
<1>1. TInv /\ [Next]_vars => TInv'
  BY NextTypes
<1>2. TInv => TypeOK
  BY DEF TInv
<1>3. QED BY <1>1, <1>2, InitTypes, PTL DEF Spec

-----------------------------------------------------------------------------
\* The relations and their threads.

LinkMessage(l) == [kind |-> "link", link |-> l]
CpuMessage == [kind |-> "cpu"]

\* What is published stays announced until it is heard.
LEMMA AnnouncedLonger ==
  ASSUME TInv, NEW m, Announced(m), NEW n \in Message, news' = Append(news, n)
  PROVE  Announced(m)'
<1>1. news \in Seq(Message)
  BY DEF TInv, TypeOK
<1>2. PICK i \in 1 .. Len(news) : news[i] = m
  BY DEF Announced
<1>3. i \in 1 .. Len(news') /\ news'[i] = m
  BY <1>1, <1>2
<1>4. QED BY <1>3 DEF Announced

\* A message just sent is announced.
LEMMA AnnouncedNow ==
  ASSUME TInv, NEW m \in Message, news' = Append(news, m)
  PROVE  Announced(m)'
<1>1. news \in Seq(Message)
  BY DEF TInv, TypeOK
<1>2. Len(news') \in 1 .. Len(news') /\ news'[Len(news')] = m
  BY <1>1
<1>3. QED BY <1>2 DEF Announced

\* Hearing one message leaves the others announced.
LEMMA AnnouncedStill ==
  ASSUME TInv, NEW m, Announced(m), news # <<>>, m # Head(news), news' = Tail(news)
  PROVE  Announced(m)'
<1>1. news \in Seq(Message)
  BY DEF TInv, TypeOK
<1>2. PICK i \in 1 .. Len(news) : news[i] = m
  BY DEF Announced
<1>3. i # 1
  BY <1>1, <1>2
<1>4. i - 1 \in 1 .. Len(news') /\ news'[i - 1] = m
  BY <1>1, <1>2, <1>3
<1>5. QED BY <1>4 DEF Announced

\* The two halves of the property.
LinksHaveThreads ==
  started => \A l \in links :
    Announced(LinkMessage(l)) \/ thread[<<Target[l], Event[l]>>].at \in {"asleep", "checked"}
CpuLinkHasThread ==
  started /\ cpuLink => Announced(CpuMessage) \/ \E c \in CpuThread : cpu[c].at # "none"

\* The property is the two halves.
\* The property is the two halves.
LEMMA Halves == RelationsHaveTheirThread <=> LinksHaveThreads /\ CpuLinkHasThread
BY DEF RelationsHaveTheirThread, LinksHaveThreads, CpuLinkHasThread, LinkMessage, CpuMessage

\* A step that only adds news, and leaves relations and threads alone.
LEMMA NewsOnly ==
  ASSUME RInv, UNCHANGED <<links, thread, cpuLink, cpu, started>>,
         news' = news \/ \E n \in Message : news' = Append(news, n)
  PROVE  (GoneForGood /\ RelationsHaveTheirThread)'
<1>1. \A m : Announced(m) => Announced(m)'
  <2>1. CASE news' = news
    BY <2>1 DEF Announced
  <2>2. CASE \E n \in Message : news' = Append(news, n)
    BY <2>2, AnnouncedLonger DEF RInv
  <2>3. QED BY <2>1, <2>2
<1>2. GoneForGood'
  BY DEF RInv, GoneForGood, Present
<1>3. LinksHaveThreads'
  BY <1>1, Halves DEF RInv, LinksHaveThreads, LinkMessage
<1>4. CpuLinkHasThread'
  BY <1>1, Halves DEF RInv, CpuLinkHasThread, CpuMessage
<1>5. QED
  BY <1>2, <1>3, <1>4 DEF RelationsHaveTheirThread, LinksHaveThreads, CpuLinkHasThread, LinkMessage, CpuMessage

\* A new thread of the CPU relation leaves some thread running.
LEMMA LaunchedCpuRuns ==
  ASSUME TypeOK
  PROVE  \E c \in CpuThread : LaunchedCpu[c].at # "none"
<1> USE ThermalAssumption DEF ThermalAssumption
<1> DEFINE free == CHOOSE c \in CpuThread : cpu[c].at = "none"
<1>1. LaunchedCpu = [cpu EXCEPT ![free] = [at |-> "ready", impact |-> 0]]
  BY DEF LaunchedCpu
<1>2. CASE \E c \in CpuThread : cpu[c].at = "none"
  <2>1. free \in CpuThread
    BY <1>2
  <2> HIDE DEF free
  <2>2. LaunchedCpu[free].at = "ready"
    BY <1>1, <2>1 DEF TypeOK
  <2>3. QED BY <2>1, <2>2
<1>3. CASE \A c \in CpuThread : cpu[c].at # "none"
  <2>1. PICK c \in CpuThread : TRUE
    OBVIOUS
  <2> HIDE DEF free
  <2>2. LaunchedCpu[c].at # "none"
    BY <1>1, <1>3, <2>1 DEF TypeOK
  <2>3. QED BY <2>2
<1>4. QED BY <1>2, <1>3

\* The threads of the relations: one that finds its relation goes on, one that
\* does not ends.
LEMMA ThreadsKeepRelations ==
  ASSUME RInv, Threads
  PROVE  (GoneForGood /\ RelationsHaveTheirThread)'
<1> USE KeysNameSensors
<1>0. /\ links \subseteq Link
      /\ thread \in [Key -> [at : {"none", "asleep", "checked", "gone"}, limit : Nat]]
  BY DEF RInv, TInv, TypeOK
<1>1. ASSUME NEW k \in Key, ThreadReads(k) PROVE (GoneForGood /\ RelationsHaveTheirThread)'
  BY <1>1, NewsOnly DEF ThreadReads
<1>2. ASSUME NEW k \in Key, ThreadWakes(k) \/ ThreadEnds(k) \/ ThreadWrites(k)
      PROVE  (GoneForGood /\ RelationsHaveTheirThread)'
  <2>1. UNCHANGED <<links, cpuLink, cpu, started, news>>
    BY <1>2 DEF ThreadWakes, ThreadEnds, ThreadWrites
  <2>2. \A o \in Key \ {k} : thread'[o] = thread[o]
    BY <1>0, <1>2 DEF ThreadWakes, ThreadEnds, ThreadWrites
  <2>3. \/ thread'[k].at \in {"asleep", "checked"}
        \/ thread'[k].at \in {"gone", "none"} /\ Present(k) = {}
    <3>1. CASE ThreadWakes(k)
      BY <1>0, <3>1 DEF ThreadWakes
    <3>2. CASE ThreadEnds(k)
      BY <1>0, <3>2 DEF ThreadEnds, RInv, GoneForGood, NoThread
    <3>3. CASE ThreadWrites(k)
      BY <1>0, <3>3 DEF ThreadWrites, Asleep
    <3>4. QED BY <1>2, <3>1, <3>2, <3>3
  <2>4. GoneForGood'
    BY <2>1, <2>2, <2>3 DEF RInv, GoneForGood, Present
  <2>5. LinksHaveThreads'
    <3> SUFFICES ASSUME started, NEW l \in links
                 PROVE  \/ Announced(LinkMessage(l))
                        \/ thread'[<<Target[l], Event[l]>>].at \in {"asleep", "checked"}
      BY <2>1 DEF LinksHaveThreads, Announced, LinkMessage
    <3>1. CASE <<Target[l], Event[l]>> = k
      BY <2>3, <3>1 DEF Present
    <3>2. CASE <<Target[l], Event[l]>> # k
      BY <1>0, <2>2, <3>2, Halves DEF RInv, LinksHaveThreads
    <3>3. QED BY <3>1, <3>2
  <2>6. CpuLinkHasThread'
    BY <2>1, Halves DEF RInv, CpuLinkHasThread, Announced, CpuMessage
  <2>7. QED BY <2>4, <2>5, <2>6
            DEF RelationsHaveTheirThread, LinksHaveThreads, CpuLinkHasThread, LinkMessage, CpuMessage
<1>3. ASSUME NEW c \in CpuThread, CpuWakes(c) \/ CpuHeats(c) \/ CpuReleases(c)
      PROVE  (GoneForGood /\ RelationsHaveTheirThread)'
  <2>1. UNCHANGED <<links, thread, cpuLink, started, news>>
    BY <1>3 DEF CpuWakes, CpuHeats, CpuReleases
  <2>2. cpu \in [CpuThread -> [at : {"none", "ready", "checked", "holding"}, impact : Nat]]
    BY DEF RInv, TInv, TypeOK
  <2>3. cpuLink => cpu'[c].at # "none" /\ \A o \in CpuThread \ {c} : cpu'[o] = cpu[o]
    <3>1. CASE CpuWakes(c)
      <4>1. cpuLink => cpu' = [cpu EXCEPT ![c] = [@ EXCEPT !.at = "checked"]]
        BY <3>1 DEF CpuWakes
      <4>2. QED BY <2>2, <4>1
    <3>2. CASE CpuHeats(c)
      <4>1. cpu' = [cpu EXCEPT ![c] = [at |-> "holding", impact |-> Impact[load]]]
        BY <3>2 DEF CpuHeats, AddImpact
      <4>2. QED BY <2>2, <4>1
    <3>3. CASE CpuReleases(c)
      BY <2>2, <3>3 DEF CpuReleases
    <3>4. QED BY <1>3, <3>1, <3>2, <3>3
  <2>4. GoneForGood'
    BY <2>1 DEF RInv, GoneForGood, Present
  <2>5. LinksHaveThreads'
    BY <2>1, Halves DEF RInv, LinksHaveThreads, Announced, LinkMessage
  <2>6. CpuLinkHasThread'
    BY <2>1, <2>3 DEF CpuLinkHasThread
  <2>7. QED BY <2>4, <2>5, <2>6
            DEF RelationsHaveTheirThread, LinksHaveThreads, CpuLinkHasThread, LinkMessage, CpuMessage
<1>4. QED BY <1>1, <1>2, <1>3 DEF Threads

\* The loop starts the threads when the first update ends, and one for each
\* relation it hears of.
LEMMA LoopKeepsRelations ==
  ASSUME RInv, Loop
  PROVE  (GoneForGood /\ RelationsHaveTheirThread)'
<1> USE KeysNameSensors
<1>0. /\ links \subseteq Link /\ TypeOK /\ news \in Seq(Message)
      /\ thread \in [Key -> [at : {"none", "asleep", "checked", "gone"}, limit : Nat]]
  BY DEF RInv, TInv, TypeOK
<1>1. CASE LaunchUpdate \/ \E s \in Temperature : AdjustWrites(s)
  BY <1>1, NewsOnly DEF LaunchUpdate, AdjustWrites
<1>2. CASE UpdateEnds
  <2>1. CASE started
    <3>1. UNCHANGED <<links, thread, cpuLink, cpu, started, news>>
      BY <1>2, <2>1, <1>0 DEF UpdateEnds, TypeOK
    <3>2. QED BY <3>1, NewsOnly
  <2>2. CASE ~started
    <3>1. /\ thread' = Launched /\ cpu' = LaunchedCpu
          /\ UNCHANGED <<links, cpuLink, news>>
      BY <1>2, <2>2 DEF UpdateEnds
    <3>2. \A k \in Key : \/ thread'[k] = thread[k] /\ Present(k) = {}
                         \/ thread'[k].at = "asleep"
      BY <3>1 DEF Launched, Asleep, Present
    <3>3. \A l \in links : thread'[<<Target[l], Event[l]>>].at = "asleep"
      BY <1>0, <3>2 DEF Present
    <3>4. GoneForGood'
      BY <3>1, <3>2 DEF GoneForGood, Present
    <3>5. LinksHaveThreads'
      BY <3>1, <3>3 DEF LinksHaveThreads
    <3>6. CpuLinkHasThread'
      BY <1>0, <3>1, LaunchedCpuRuns DEF CpuLinkHasThread
    <3>7. QED BY <3>4, <3>5, <3>6
              DEF RelationsHaveTheirThread, LinksHaveThreads, CpuLinkHasThread, LinkMessage, CpuMessage
  <2>3. QED BY <2>1, <2>2
<1>3. CASE HearAmbient \/ HearLink \/ HearCpuLink
  <2>1. /\ news # <<>> /\ news' = Tail(news) /\ Head(news) \in Message
        /\ UNCHANGED <<links, cpuLink, started>>
    <3>1. news # <<>> /\ news' = Tail(news) /\ UNCHANGED <<links, cpuLink, started>>
      BY <1>3 DEF HearAmbient, HearLink, HearCpuLink
    <3>2. QED BY <1>0, <3>1
  <2>2. \A m : Announced(m) /\ m # Head(news) => Announced(m)'
    BY <2>1, AnnouncedStill DEF RInv
  <2>3. CASE HearAmbient
    <3>1. \A l : LinkMessage(l) # Head(news)
      BY <2>3 DEF HearAmbient, LinkMessage
    <3>2. CpuMessage # Head(news)
      BY <2>3 DEF HearAmbient, CpuMessage
    <3>3. UNCHANGED <<thread, cpu>>
      BY <2>3 DEF HearAmbient
    <3>4. GoneForGood'
      BY <2>1, <3>3 DEF RInv, GoneForGood, Present
    <3>5. LinksHaveThreads'
      BY <2>1, <2>2, <3>1, <3>3, Halves DEF RInv, LinksHaveThreads, LinkMessage
    <3>6. CpuLinkHasThread'
      BY <2>1, <2>2, <3>2, <3>3, Halves DEF RInv, CpuLinkHasThread, CpuMessage
    <3>7. QED BY <3>4, <3>5, <3>6
              DEF RelationsHaveTheirThread, LinksHaveThreads, CpuLinkHasThread, LinkMessage, CpuMessage
  <2>4. CASE HearCpuLink
    <3>1. \A l : LinkMessage(l) # Head(news)
      BY <2>4 DEF HearCpuLink, LinkMessage
    <3>2. UNCHANGED thread /\ cpu' = LaunchedCpu
      BY <2>4 DEF HearCpuLink
    <3>3. GoneForGood'
      BY <2>1, <3>2 DEF RInv, GoneForGood, Present
    <3>4. LinksHaveThreads'
      BY <2>1, <2>2, <3>1, <3>2, Halves DEF RInv, LinksHaveThreads, LinkMessage
    <3>5. CpuLinkHasThread'
      BY <1>0, <3>2, LaunchedCpuRuns DEF CpuLinkHasThread
    <3>6. QED BY <3>3, <3>4, <3>5
              DEF RelationsHaveTheirThread, LinksHaveThreads, CpuLinkHasThread, LinkMessage, CpuMessage
  <2>5. CASE HearLink
    <3> DEFINE h == Head(news).link
               k == <<Target[h], Event[h]>>
    <3>1. h \in Link /\ k \in Key
      BY <2>1, <2>5 DEF HearLink, Message
    <3>2. CpuMessage # Head(news) /\ UNCHANGED cpu
      BY <2>5 DEF HearLink, CpuMessage
    <3>3. /\ thread[k].at = "none" /\ h \in links => thread' = [thread EXCEPT ![k] = Asleep]
          /\ ~(thread[k].at = "none" /\ h \in links) => thread' = thread
      BY <2>5 DEF HearLink
    <3> HIDE DEF k, h
    <3>4. /\ \A o \in Key : thread'[o] = thread[o] \/ thread'[o].at = "asleep"
          /\ thread[k].at = "none" /\ h \in links => thread'[k].at = "asleep"
      BY <1>0, <3>1, <3>3 DEF Asleep
    <3>5. GoneForGood'
      BY <2>1, <3>4 DEF RInv, GoneForGood, Present
    <3>6. LinksHaveThreads'
      <4> SUFFICES ASSUME started, NEW l \in links
                   PROVE  \/ Announced(LinkMessage(l))'
                          \/ thread'[<<Target[l], Event[l]>>].at \in {"asleep", "checked"}
        BY <2>1 DEF LinksHaveThreads, LinkMessage
      <4>1. l \in Link /\ <<Target[l], Event[l]>> \in Key
        BY <1>0
      <4>2. CASE LinkMessage(l) # Head(news)
        BY <2>2, <3>4, <4>1, <4>2, Halves DEF RInv, LinksHaveThreads, LinkMessage
      <4>3. CASE LinkMessage(l) = Head(news)
        <5>1. h = l /\ k = <<Target[l], Event[l]>>
          BY <4>3 DEF LinkMessage, h, k
        <5>2. Present(k) # {}
          BY <5>1 DEF Present
        <5>3. thread[k].at # "gone"
          BY <3>1, <5>2 DEF RInv, GoneForGood
        <5>4. thread[k].at \in {"none", "asleep", "checked"}
          BY <1>0, <3>1, <5>3
        <5>5. QED BY <3>1, <3>4, <5>1, <5>4
      <4>4. QED BY <4>2, <4>3
    <3>7. CpuLinkHasThread'
      BY <2>1, <2>2, <3>2, Halves DEF RInv, CpuLinkHasThread, CpuMessage
    <3>8. QED BY <3>5, <3>6, <3>7
              DEF RelationsHaveTheirThread, LinksHaveThreads, CpuLinkHasThread, LinkMessage, CpuMessage
  <2>6. QED BY <1>3, <2>3, <2>4, <2>5
<1>4. QED BY <1>1, <1>2, <1>3 DEF Loop

\* Users publish every relation that was not there, and wait for a thread that
\* is ending before they set its relation again.
LEMMA UsersKeepRelations ==
  ASSUME Patient, RInv, Users
  PROVE  (GoneForGood /\ RelationsHaveTheirThread)'
<1> USE KeysNameSensors
<1>0. /\ links \subseteq Link /\ news \in Seq(Message)
      /\ thread \in [Key -> [at : {"none", "asleep", "checked", "gone"}, limit : Nat]]
      /\ TInv
  BY DEF RInv, TInv, TypeOK
<1>1. CASE MainsChange \/ PowerOff \/ PowerOn \/ SetFan \/ \E l \in DOMAIN Impact : SampleLoad(l)
  BY <1>1, NewsOnly DEF MainsChange, PowerOff, PowerOn, SetFan, SampleLoad
<1>2. ASSUME NEW new \in Temps, ClientSetsAmbient(new)
      PROVE  (GoneForGood /\ RelationsHaveTheirThread)'
  <2>1. [kind |-> "ambient", old |-> ambient, new |-> new] \in Message
    BY ThermalAssumption DEF ThermalAssumption, RInv, TInv, TypeOK, Message
  <2>2. QED BY <1>2, <2>1, NewsOnly DEF ClientSetsAmbient, SetAmbient
<1>3. CASE SetCpuLink
  <2>1. CpuMessage \in Message /\ news' = Append(news, CpuMessage)
    BY <1>3 DEF SetCpuLink, Message, CpuMessage
  <2>2. Announced(CpuMessage)' /\ \A m : Announced(m) => Announced(m)'
    BY <1>0, <2>1, AnnouncedNow, AnnouncedLonger
  <2>3. UNCHANGED <<links, thread, started>>
    BY <1>3 DEF SetCpuLink
  <2>4. GoneForGood'
    BY <2>3 DEF RInv, GoneForGood, Present
  <2>5. LinksHaveThreads'
    BY <2>2, <2>3, Halves DEF RInv, LinksHaveThreads, LinkMessage
  <2>6. CpuLinkHasThread'
    BY <2>2 DEF CpuLinkHasThread, CpuMessage
  <2>7. QED BY <2>4, <2>5, <2>6
            DEF RelationsHaveTheirThread, LinksHaveThreads, CpuLinkHasThread, LinkMessage, CpuMessage
<1>4. CASE DeleteCpuLink
  <2>1. UNCHANGED <<links, thread, started, news>> /\ ~cpuLink'
    BY <1>4 DEF DeleteCpuLink
  <2>2. GoneForGood'
    BY <2>1 DEF RInv, GoneForGood, Present
  <2>3. LinksHaveThreads'
    BY <2>1, Halves DEF RInv, LinksHaveThreads, Announced, LinkMessage
  <2>4. QED BY <2>1, <2>2, <2>3
            DEF RelationsHaveTheirThread, LinksHaveThreads, LinkMessage
<1>5. ASSUME NEW l \in Link, SetLink(l) PROVE (GoneForGood /\ RelationsHaveTheirThread)'
  <2>1. /\ links' = links \cup {l} /\ UNCHANGED <<thread, cpuLink, cpu, started>>
        /\ thread[<<Target[l], Event[l]>>].at # "gone"
    BY <1>5 DEF SetLink
  <2>2. LinkMessage(l) \in Message
    BY DEF LinkMessage, Message
  <2>3. news' = IF l \in links THEN news ELSE Append(news, LinkMessage(l))
    BY <1>5 DEF SetLink, LinkMessage
  <2>4. \A m : Announced(m) => Announced(m)'
    <3>1. CASE l \in links
      BY <2>3, <3>1 DEF Announced
    <3>2. CASE l \notin links
      BY <1>0, <2>2, <2>3, <3>2, AnnouncedLonger
    <3>3. QED BY <3>1, <3>2
  <2>5. l \notin links => Announced(LinkMessage(l))'
    BY <1>0, <2>2, <2>3, AnnouncedNow
  <2>6. GoneForGood'
    BY <2>1 DEF RInv, GoneForGood, Present
  <2>7. LinksHaveThreads'
    <3> SUFFICES ASSUME started, NEW o \in links \cup {l}
                 PROVE  \/ Announced(LinkMessage(o))'
                        \/ thread[<<Target[o], Event[o]>>].at \in {"asleep", "checked"}
      BY <2>1 DEF LinksHaveThreads, LinkMessage
    <3>1. CASE o \in links
      BY <2>4, <3>1, Halves DEF RInv, LinksHaveThreads
    <3>2. CASE o \notin links
      BY <2>5, <3>2
    <3>3. QED BY <3>1, <3>2
  <2>8. CpuLinkHasThread'
    BY <2>1, <2>4, Halves DEF RInv, CpuLinkHasThread, CpuMessage
  <2>9. QED BY <2>6, <2>7, <2>8
            DEF RelationsHaveTheirThread, LinksHaveThreads, CpuLinkHasThread, LinkMessage, CpuMessage
<1>6. ASSUME NEW l \in Link, DeleteLink(l) PROVE (GoneForGood /\ RelationsHaveTheirThread)'
  <2>1. links' = links \ {l} /\ UNCHANGED <<thread, cpuLink, cpu, started, news>>
    BY <1>6 DEF DeleteLink
  <2>2. GoneForGood'
    BY <2>1 DEF RInv, GoneForGood, Present
  <2>3. LinksHaveThreads'
    BY <2>1, Halves DEF RInv, LinksHaveThreads, Announced, LinkMessage
  <2>4. CpuLinkHasThread'
    BY <2>1, Halves DEF RInv, CpuLinkHasThread, Announced, CpuMessage
  <2>5. QED BY <2>2, <2>3, <2>4
            DEF RelationsHaveTheirThread, LinksHaveThreads, CpuLinkHasThread, LinkMessage, CpuMessage
<1>7. QED BY <1>1, <1>2, <1>3, <1>4, <1>5, <1>6 DEF Users

\* Every step keeps the relations and their threads together.
LEMMA NextKeepsRelations ==
  ASSUME Patient, RInv, [Next]_vars
  PROVE  RInv'
<1>0. TInv'
  BY NextTypes DEF RInv
<1>1. CASE Loop
  BY <1>0, <1>1, LoopKeepsRelations DEF RInv
<1>2. CASE Threads
  BY <1>0, <1>2, ThreadsKeepRelations DEF RInv
<1>3. CASE Room
  <2>1. ASSUME NEW t \in RoomThread, RoomReads(t) \/ RoomSets(t)
        PROVE  (GoneForGood /\ RelationsHaveTheirThread)'
    <3>1. CASE RoomReads(t)
      BY <3>1, NewsOnly DEF RoomReads
    <3>2. CASE RoomSets(t)
      <4>1. [kind |-> "ambient", old |-> ambient, new |-> room[t]] \in Message
        BY DEF RInv, TInv, TypeOK, Message
      <4>2. QED BY <3>2, <4>1, NewsOnly DEF RoomSets, SetAmbient
    <3>3. QED BY <2>1, <3>1, <3>2
  <2>2. QED BY <1>0, <1>3, <2>1 DEF Room, RInv
<1>4. CASE Users
  BY <1>0, <1>4, UsersKeepRelations DEF RInv
<1>5. CASE \E s \in Temperature : AdjustReads(s)
  BY <1>0, <1>5, NewsOnly DEF AdjustReads, RInv
<1>6. CASE UNCHANGED vars
  BY <1>0, <1>6, NewsOnly DEF vars, RInv
<1>7. QED BY <1>1, <1>2, <1>3, <1>4, <1>5, <1>6 DEF Next

\* If users do not set a relation again while its thread is ending, every
\* relation the engine was told of has a thread, for any sensors, relations
\* and CPU threads, however they are deleted and set again.
THEOREM RelationsKeepTheirThread == Patient => (Spec => []RelationsHaveTheirThread)
<1> SUFFICES ASSUME Patient PROVE Spec => []RelationsHaveTheirThread
  OBVIOUS
<1>1. Init => RInv
  <2>1. Init => GoneForGood /\ RelationsHaveTheirThread
    BY DEF Init, GoneForGood, NoThread, RelationsHaveTheirThread
  <2>2. QED BY <2>1, InitTypes DEF RInv
<1>2. RInv /\ [Next]_vars => RInv'
  BY NextKeepsRelations
<1>3. RInv => RelationsHaveTheirThread
  BY DEF RInv
<1>4. QED BY <1>1, <1>2, <1>3, PTL DEF Spec

-----------------------------------------------------------------------------
\* Sensors follow the ambient temperature.  The changes that are on their way form
\* a trail from the temperature the sensors have followed so far to the ambient
\* temperature of now: the update being handled, those queued, those published and
\* not yet heard.

\* Temperatures between lo and hi, which are so close that no thread can cool
\* a sensor so far that a drop of the ambient temperature takes it to 0.
Mild(lo, hi) ==
  /\ lo \in Nat /\ hi \in Nat /\ hi < lo + lo
  /\ Warm \in lo .. hi /\ Temps \subseteq lo .. hi
  /\ \A t \in RoomThread : RoomLimit[t] \in lo .. hi
MildClimate == \E lo, hi \in Nat : Mild(lo, hi)

\* t[i] is the temperature before the i-th message was published: the messages
\* lead from t[1] to the ambient temperature.
Trail(t, lo, hi) ==
  /\ t \in [1 .. Len(news) + 1 -> 0 .. hi]
  /\ \A i \in 2 .. Len(news) + 1 : t[i] \in lo .. hi
  /\ t[Len(news) + 1] = ambient
  /\ \A i \in 1 .. Len(news) :
       IF news[i].kind = "ambient" THEN news[i].old = t[i] /\ news[i].new = t[i + 1]
       ELSE t[i] = t[i + 1]

\* The temperature the updates of the past have led to, the one that the sensors
\* which the loop has still to adjust have, and the one all sensors have reached;
\* heard is where the messages heard so far have led to.
Applied(heard) == IF updates # <<>> THEN updates[1].old ELSE heard
Behind(s) == \E i \in 1 .. Len(pending) : pending[i] = s
Reached(heard) == IF current # <<>> THEN current[1].old ELSE Applied(heard)
RoomOf(s, heard) == IF Behind(s) THEN current[1].old ELSE Applied(heard)

\* Each update starts where the one before it ended.
Queued(heard, lo, hi) ==
  /\ \A i \in 1 .. Len(updates) :
       /\ updates[i].new = IF i < Len(updates) THEN updates[i + 1].old ELSE heard
       /\ updates[i].new \in lo .. hi
  /\ current # <<>> => current[1].new = Applied(heard) /\ current[1].new \in lo .. hi

\* A sensor is as warm as the room it knows, plus what threads added to it; the
\* first update takes all from 0 to the first temperature.
Following(heard, lo, hi) ==
  /\ \A s \in Temperature : value[s] = RoomOf(s, heard) + given[s]
  /\ IF started THEN Reached(heard) \in lo .. hi
     ELSE Reached(heard) = 0 /\ \A s \in Temperature : given[s] = 0

OnTrail(lo, hi) ==
  \E t \in [1 .. Len(news) + 1 -> 0 .. hi] :
    Trail(t, lo, hi) /\ Queued(t[1], lo, hi) /\ Following(t[1], lo, hi)

\* No thread runs before the first update is over.
ThreadsWait ==
  ~started => /\ \A k \in Key : thread[k].at = "none"
              /\ \A c \in CpuThread : cpu[c].at = "none"

\* ... nor does the engine hear of a relation before that.
RelationsWait ==
  ~started => \A i \in 1 .. Len(news) : news[i].kind = "ambient"

\* The room is mild, and no thread cools a sensor much below it.
NoFrost(lo, hi) ==
  /\ ambient \in lo .. hi
  /\ \A t \in RoomThread : room[t] # 0 => room[t] \in lo .. hi
  /\ \A s \in Temperature : given[s] >= lo - hi
  /\ \A k \in Key : thread[k].at = "checked" /\ ~Heats[LinkOf(k)] => thread[k].limit >= lo

\* Who has read a sensor under its lock has its value, and the loop adjusts
\* each sensor once.
ReadsAreFresh ==
  \A s \in Temperature : lock[s].by \in {"loop", "down", "up"} => lock[s].read = value[s]
PendingOnce ==
  \A i, j \in 1 .. Len(pending) : pending[i] = pending[j] => i = j

SInv(lo, hi) ==
  /\ TInv /\ OnTrail(lo, hi) /\ RelationsWait /\ ThreadsWait /\ NoFrost(lo, hi)
  /\ ReadsAreFresh /\ PendingOnce

-----------------------------------------------------------------------------
USE DEF airVars, threadVars, serverVars

\* A message published prolongs the trail.
LEMMA TrailGrows ==
  ASSUME TInv, NEW lo \in Nat, NEW hi \in Nat, NEW t, Trail(t, lo, hi), NEW n \in Message,
         news' = Append(news, n), ambient' \in lo .. hi,
         IF n.kind = "ambient" THEN n.old = ambient /\ n.new = ambient' ELSE ambient' = ambient
  PROVE  \E u : Trail(u, lo, hi)' /\ u[1] = t[1]
<1> DEFINE N == Len(news) + 1
<1> PICK u : u = [i \in 1 .. N + 1 |-> IF i = N + 1 THEN ambient' ELSE t[i]]
  OBVIOUS
<1>0. news \in Seq(Message) /\ N \in Nat /\ N >= 1
  BY DEF TInv, TypeOK
<1>1. Len(news') = N /\ news'[N] = n /\ \A i \in 1 .. N - 1 : news'[i] = news[i]
  BY <1>0
<1>2. /\ t \in [1 .. N -> 0 .. hi] /\ t[N] = ambient
      /\ \A i \in 2 .. N : t[i] \in lo .. hi
  BY DEF Trail
<1>3. u \in [1 .. N + 1 -> 0 .. hi]
  BY <1>0, <1>2
<1>4. \A i \in 2 .. N + 1 : u[i] \in lo .. hi
  BY <1>0, <1>2
<1>5. u[N + 1] = ambient' /\ \A i \in 1 .. N : u[i] = t[i]
  BY <1>0, <1>2
<1>6. ASSUME NEW i \in 1 .. N
      PROVE  IF news'[i].kind = "ambient" THEN news'[i].old = u[i] /\ news'[i].new = u[i + 1]
             ELSE u[i] = u[i + 1]
  <2>1. CASE i = N
    BY <1>1, <1>2, <1>5, <2>1
  <2>2. CASE i # N
    <3>1. i \in 1 .. Len(news) /\ i + 1 \in 1 .. N
      BY <1>0, <2>2
    <3>2. u[i] = t[i] /\ u[i + 1] = t[i + 1] /\ news'[i] = news[i]
      BY <1>0, <1>1, <1>5, <3>1
    <3>3. QED BY <3>1, <3>2 DEF Trail
  <2>3. QED BY <2>1, <2>2
<1>7. u[1] = t[1]
  BY <1>0, <1>5
<1>8. Trail(u, lo, hi)'
  BY <1>0, <1>1, <1>3, <1>4, <1>5, <1>6 DEF Trail
<1>9. QED BY <1>7, <1>8

\* Hearing a message is a step along the trail.
LEMMA TrailShrinks ==
  ASSUME TInv, NEW lo \in Nat, NEW hi \in Nat, NEW t, Trail(t, lo, hi), news # <<>>,
         news' = Tail(news), UNCHANGED ambient
  PROVE  /\ \E u : Trail(u, lo, hi)' /\ u[1] = t[2]
         /\ t[2] \in lo .. hi
         /\ IF Head(news).kind = "ambient" THEN Head(news).old = t[1] /\ Head(news).new = t[2]
            ELSE t[1] = t[2]
<1> DEFINE N == Len(news)
<1> PICK u : u = [i \in 1 .. N |-> t[i + 1]]
  OBVIOUS
<1>0. news \in Seq(Message) /\ N \in Nat /\ N >= 1 /\ Head(news) = news[1]
  BY DEF TInv, TypeOK
<1>1. Len(news') + 1 = N /\ \A i \in 1 .. N - 1 : news'[i] = news[i + 1]
  BY <1>0
<1>2. /\ t \in [1 .. N + 1 -> 0 .. hi] /\ t[N + 1] = ambient
      /\ \A i \in 2 .. N + 1 : t[i] \in lo .. hi
  BY DEF Trail
<1>3. u \in [1 .. N -> 0 .. hi]
  BY <1>0, <1>2
<1>4. \A i \in 2 .. N : u[i] \in lo .. hi
  BY <1>0, <1>2
<1>5. u[N] = ambient' /\ u[1] = t[2]
  BY <1>0, <1>2
<1>6. ASSUME NEW i \in 1 .. N - 1
      PROVE  IF news'[i].kind = "ambient" THEN news'[i].old = u[i] /\ news'[i].new = u[i + 1]
             ELSE u[i] = u[i + 1]
  <2>1. i + 1 \in 1 .. N /\ u[i] = t[i + 1] /\ u[i + 1] = t[i + 1 + 1] /\ news'[i] = news[i + 1]
    BY <1>0, <1>1
  <2>2. QED BY <2>1 DEF Trail
<1>7. Trail(u, lo, hi)'
  <2>1. Len(news') \in Nat /\ Len(news') = N - 1
    BY <1>0, <1>1
  <2>2. QED BY <2>1, <1>1, <1>3, <1>4, <1>5, <1>6 DEF Trail
<1>8. 1 \in 1 .. N /\ 2 \in 2 .. N + 1
  BY <1>0
<1>9. QED BY <1>0, <1>2, <1>5, <1>7, <1>8 DEF Trail

\* What the sensors follow does not change while nothing is heard or adjusted.
LEMMA FollowingStays ==
  ASSUME TInv, NEW lo, NEW hi, NEW heard, Queued(heard, lo, hi), Following(heard, lo, hi),
         UNCHANGED <<updates, current, pending, given, started>>,
         \A s \in Temperature : value'[s] = value[s]
  PROVE  Queued(heard, lo, hi)' /\ Following(heard, lo, hi)'
<1>1. /\ Applied(heard)' = Applied(heard) /\ Reached(heard)' = Reached(heard)
      /\ \A s : RoomOf(s, heard)' = RoomOf(s, heard)
  BY DEF Applied, Reached, RoomOf, Behind
<1>2. Queued(heard, lo, hi)'
  BY <1>1 DEF Queued
<1>3. Following(heard, lo, hi)'
  BY <1>1 DEF Following
<1>4. QED BY <1>2, <1>3

\* A message that is published leaves the sensors where they are.
LEMMA PublishedKeepsTrail ==
  ASSUME TInv, NEW lo \in Nat, NEW hi \in Nat, OnTrail(lo, hi), NEW n \in Message,
         news' = Append(news, n), ambient' \in lo .. hi,
         IF n.kind = "ambient" THEN n.old = ambient /\ n.new = ambient' ELSE ambient' = ambient,
         UNCHANGED <<updates, current, pending, given, started>>,
         \A s \in Temperature : value'[s] = value[s]
  PROVE  OnTrail(lo, hi)'
<1>1. PICK t : Trail(t, lo, hi) /\ Queued(t[1], lo, hi) /\ Following(t[1], lo, hi)
  BY DEF OnTrail
<1>2. PICK u : Trail(u, lo, hi)' /\ u[1] = t[1]
  BY <1>1, TrailGrows
<1>3. Queued(u[1], lo, hi)' /\ Following(u[1], lo, hi)'
  BY <1>1, <1>2, FollowingStays
<1>4. QED BY <1>2, <1>3 DEF OnTrail, Trail

LEMMA NothingPublished ==
  ASSUME TInv, NEW lo \in Nat, NEW hi \in Nat, OnTrail(lo, hi),
         UNCHANGED <<news, ambient, updates, current, pending, given, started>>,
         \A s \in Temperature : value'[s] = value[s]
  PROVE  OnTrail(lo, hi)'
<1>1. PICK t : Trail(t, lo, hi) /\ Queued(t[1], lo, hi) /\ Following(t[1], lo, hi)
  BY DEF OnTrail
<1>2. Trail(t, lo, hi)'
  BY <1>1 DEF Trail
<1>3. Queued(t[1], lo, hi)' /\ Following(t[1], lo, hi)'
  BY <1>1, FollowingStays
<1>4. QED BY <1>2, <1>3 DEF OnTrail, Trail

\* The same for the conjuncts about locks, threads and the sensors still to be
\* adjusted.
LEMMA ThreadsStay ==
  ASSUME NEW lo \in Nat, NEW hi \in Nat, SInv(lo, hi),
         UNCHANGED <<pending, given, started, thread, cpu, lock>>,
         \A s \in Temperature : value'[s] = value[s],
         ambient' \in lo .. hi,
         \A t \in RoomThread : room'[t] # 0 => room'[t] \in lo .. hi
  PROVE  (ThreadsWait /\ NoFrost(lo, hi) /\ ReadsAreFresh /\ PendingOnce)'
BY DEF SInv, ThreadsWait, NoFrost, ReadsAreFresh, PendingOnce

\* The room threads and clients set mild temperatures.
LEMMA AirKeepsSensors ==
  ASSUME NEW lo, NEW hi, Mild(lo, hi), SInv(lo, hi),
         Room \/ \E new \in Temps : ClientSetsAmbient(new)
  PROVE  (OnTrail(lo, hi) /\ ThreadsWait /\ NoFrost(lo, hi) /\ ReadsAreFresh /\ PendingOnce)'
<1>0. /\ TInv /\ OnTrail(lo, hi) /\ NoFrost(lo, hi) /\ lo \in Nat /\ hi \in Nat
      /\ ambient \in Nat /\ ambient \in lo .. hi /\ room \in [RoomThread -> Nat]
  BY DEF SInv, Mild, TInv, TypeOK, NoFrost
<1>1. ASSUME NEW new \in lo .. hi, SetAmbient(new),
             UNCHANGED <<updates, current, pending, value, lock, given, started, thread, cpu>>,
             \A t \in RoomThread : room'[t] \in {0, room[t]}
      PROVE  (OnTrail(lo, hi) /\ ThreadsWait /\ NoFrost(lo, hi) /\ ReadsAreFresh /\ PendingOnce)'
  <2> DEFINE n == [kind |-> "ambient", old |-> ambient, new |-> new]
  <2>1. new \in Nat
    BY <1>0
  <2>2. n \in Message /\ n.kind = "ambient" /\ n.old = ambient /\ n.new = new
    BY <1>0, <2>1 DEF Message
  <2>3. news' = Append(news, n) /\ ambient' = new
    BY <1>1 DEF SetAmbient
  <2> HIDE DEF n
  <2>4. OnTrail(lo, hi)'
    BY <1>0, <1>1, <2>2, <2>3, PublishedKeepsTrail
  <2>5. \A t \in RoomThread : room'[t] # 0 => room'[t] \in lo .. hi
    BY <1>0, <1>1 DEF NoFrost
  <2>6. QED BY <1>0, <1>1, <2>3, <2>4, <2>5, ThreadsStay
<1>2. ASSUME NEW t \in RoomThread, RoomReads(t)
      PROVE  (OnTrail(lo, hi) /\ ThreadsWait /\ NoFrost(lo, hi) /\ ReadsAreFresh /\ PendingOnce)'
  <2>1. NextTemp(t) \in lo .. hi
    <3>1. ambient \in lo .. hi /\ RoomLimit[t] \in lo .. hi /\ lo \in Nat /\ hi \in Nat
      BY <1>0 DEF Mild
    <3>2. NextTemp(t) # 0
      BY <1>2 DEF RoomReads
    <3>3. CASE t = "warming"
      BY <3>1, <3>2, <3>3 DEF NextTemp
    <3>4. CASE t # "warming"
      BY <3>1, <3>2, <3>4 DEF NextTemp
    <3>5. QED BY <3>3, <3>4
  <2>2. \A r \in RoomThread : room'[r] # 0 => room'[r] \in lo .. hi
    BY <1>0, <1>2, <2>1 DEF RoomReads, NoFrost
  <2>3. UNCHANGED <<ambient, news, updates, current, pending, value, lock, given, started, thread, cpu>>
    BY <1>2 DEF RoomReads
  <2>4. OnTrail(lo, hi)'
    BY <1>0, <2>3, NothingPublished
  <2>5. QED BY <1>0, <2>2, <2>3, <2>4, ThreadsStay
<1>3. ASSUME NEW t \in RoomThread, RoomSets(t)
      PROVE  (OnTrail(lo, hi) /\ ThreadsWait /\ NoFrost(lo, hi) /\ ReadsAreFresh /\ PendingOnce)'
  <2>1. room[t] \in lo .. hi /\ SetAmbient(room[t])
    BY <1>0, <1>3 DEF RoomSets, NoFrost
  <2>2. UNCHANGED <<updates, current, pending, value, lock, given, started, thread, cpu>>
    BY <1>3 DEF RoomSets
  <2>3. \A r \in RoomThread : room'[r] \in {0, room[r]}
    BY <1>0, <1>3 DEF RoomSets
  <2>4. QED BY <1>1, <2>1, <2>2, <2>3
<1>4. ASSUME NEW new \in Temps, ClientSetsAmbient(new)
      PROVE  (OnTrail(lo, hi) /\ ThreadsWait /\ NoFrost(lo, hi) /\ ReadsAreFresh /\ PendingOnce)'
  <2>1. new \in lo .. hi
    BY DEF Mild
  <2>2. UNCHANGED <<updates, current, pending, value, lock, given, started, thread, cpu, room>>
    BY <1>4 DEF ClientSetsAmbient
  <2>3. SetAmbient(new)
    BY <1>4 DEF ClientSetsAmbient
  <2>4. QED BY <1>1, <2>1, <2>2, <2>3
<1>5. QED BY <1>2, <1>3, <1>4 DEF Room

\* Users of the server and of the command line leave temperatures alone.
LEMMA UsersKeepSensors ==
  ASSUME NEW lo, NEW hi, Mild(lo, hi), SInv(lo, hi), Users
  PROVE  (OnTrail(lo, hi) /\ ThreadsWait /\ NoFrost(lo, hi) /\ ReadsAreFresh /\ PendingOnce)'
<1>0. /\ TInv /\ OnTrail(lo, hi) /\ lo \in Nat /\ hi \in Nat /\ ambient \in lo .. hi
      /\ \A t \in RoomThread : room[t] # 0 => room[t] \in lo .. hi
      /\ value \in [Temperature \cup {Fan} -> Int] /\ Fan \notin Temperature
  BY ThermalAssumption DEF ThermalAssumption, SInv, Mild, NoFrost, TInv, TypeOK
<1>1. ASSUME UNCHANGED <<ambient, room, updates, current, pending, given, started, thread, cpu, lock>>,
             \/ UNCHANGED news
             \/ \E n \in Message : n.kind # "ambient" /\ news' = Append(news, n),
             \A s \in Temperature : value'[s] = value[s]
      PROVE  (OnTrail(lo, hi) /\ ThreadsWait /\ NoFrost(lo, hi) /\ ReadsAreFresh /\ PendingOnce)'
  <2>1. OnTrail(lo, hi)'
    BY <1>0, <1>1, NothingPublished, PublishedKeepsTrail
  <2>2. QED BY <1>0, <1>1, <2>1, ThreadsStay
<1>2. CASE MainsChange
  BY <1>1, <1>2 DEF MainsChange
<1>3. CASE PowerOff \/ PowerOn \/ SetFan
  <2>1. \A s \in Temperature : value'[s] = value[s]
    BY <1>0, <1>3 DEF PowerOff, PowerOn, SetFan
  <2>2. QED BY <1>1, <1>3, <2>1 DEF PowerOff, PowerOn, SetFan
<1>4. CASE \E l \in DOMAIN Impact : SampleLoad(l)
  BY <1>1, <1>4 DEF SampleLoad
<1>5. CASE SetCpuLink \/ DeleteCpuLink
  <2>1. [kind |-> "cpu"] \in Message
    BY DEF Message
  <2>2. CASE SetCpuLink
    BY <1>1, <2>1, <2>2 DEF SetCpuLink
  <2>3. CASE DeleteCpuLink
    BY <1>1, <2>3 DEF DeleteCpuLink
  <2>4. QED BY <1>5, <2>2, <2>3
<1>6. ASSUME NEW l \in Link, SetLink(l) \/ DeleteLink(l)
      PROVE  (OnTrail(lo, hi) /\ ThreadsWait /\ NoFrost(lo, hi) /\ ReadsAreFresh /\ PendingOnce)'
  <2>1. [kind |-> "link", link |-> l] \in Message
    BY DEF Message
  <2>2. \/ UNCHANGED news
        \/ \E n \in Message : n.kind # "ambient" /\ news' = Append(news, n)
    BY <1>6, <2>1 DEF SetLink, DeleteLink
  <2>3. UNCHANGED <<ambient, room, updates, current, pending, given, started, thread, cpu, lock, value>>
    BY <1>6 DEF SetLink, DeleteLink
  <2>4. QED BY <1>1, <2>2, <2>3
<1>7. QED BY <1>2, <1>3, <1>4, <1>5, <1>6, AirKeepsSensors DEF Users

\* The loop hears of a change and queues an update for it: the trail is split
\* at another place.
LEMMA HearKeepsTrail ==
  ASSUME NEW lo, NEW hi, Mild(lo, hi), SInv(lo, hi), HearAmbient
  PROVE  OnTrail(lo, hi)'
<1>0. /\ TInv /\ OnTrail(lo, hi) /\ lo \in Nat /\ hi \in Nat
      /\ news # <<>> /\ news' = Tail(news) /\ Head(news).kind = "ambient" /\ pending = <<>>
      /\ UNCHANGED <<ambient, current, pending, value, given, started>>
      /\ updates \in Seq(Change)
  BY DEF SInv, Mild, HearAmbient, TInv, TypeOK
<1>1. PICK t : Trail(t, lo, hi) /\ Queued(t[1], lo, hi) /\ Following(t[1], lo, hi)
  BY <1>0 DEF OnTrail
<1>2. /\ \E u : Trail(u, lo, hi)' /\ u[1] = t[2]
      /\ t[2] \in lo .. hi
      /\ Head(news).old = t[1] /\ Head(news).new = t[2]
  BY <1>0, <1>1, TrailShrinks
<1>3. PICK u : Trail(u, lo, hi)' /\ u[1] = t[2]
  BY <1>2
<1>4. CASE t[1] = t[2]
  <2>1. UNCHANGED updates
    BY <1>2, <1>4 DEF HearAmbient
  <2>2. Queued(u[1], lo, hi)' /\ Following(u[1], lo, hi)'
    BY <1>0, <1>1, <1>3, <1>4, <2>1, FollowingStays
  <2>3. QED BY <1>3, <2>2 DEF OnTrail, Trail
<1>5. CASE t[1] # t[2]
  <2> DEFINE c == [old |-> t[1], new |-> t[2]]
  <2>1. updates' = Append(updates, c)
    BY <1>2, <1>5 DEF HearAmbient
  <2>2. /\ Len(updates') = Len(updates) + 1 /\ updates'[Len(updates) + 1] = c
        /\ \A i \in 1 .. Len(updates) : updates'[i] = updates[i]
        /\ updates' # <<>> /\ Len(updates) \in Nat /\ (updates = <<>> <=> Len(updates) = 0)
    BY <1>0, <2>1
  <2>3. c.old = t[1] /\ c.new = t[2]
    OBVIOUS
  <2> HIDE DEF c
  <2>4. Applied(u[1])' = Applied(t[1])
    <3>1. CASE updates = <<>>
      BY <2>2, <2>3, <3>1 DEF Applied
    <3>2. CASE updates # <<>>
      BY <2>2, <3>2 DEF Applied
    <3>3. QED BY <3>1, <3>2
  <2>5. Queued(u[1], lo, hi)'
    <3>1. ASSUME NEW i \in 1 .. Len(updates')
          PROVE  /\ updates'[i].new = IF i < Len(updates') THEN updates'[i + 1].old ELSE t[2]
                 /\ updates'[i].new \in lo .. hi
      <4>1. CASE i = Len(updates')
        BY <1>2, <2>2, <2>3, <4>1
      <4>2. CASE i = Len(updates)
        BY <1>1, <2>2, <2>3, <4>2 DEF Queued
      <4>3. CASE i < Len(updates)
        <5>1. i + 1 \in 1 .. Len(updates) /\ i \in 1 .. Len(updates)
          BY <2>2, <4>3
        <5>2. QED BY <1>1, <2>2, <4>3, <5>1 DEF Queued
      <4>4. QED BY <2>2, <4>1, <4>2, <4>3
    <3>2. QED BY <1>0, <1>1, <1>3, <2>4, <3>1 DEF Queued
  <2>6. Following(u[1], lo, hi)'
    BY <1>0, <1>1, <2>4 DEF Following, RoomOf, Reached, Behind
  <2>7. QED BY <1>3, <2>5, <2>6 DEF OnTrail, Trail
<1>6. QED BY <1>4, <1>5

\* Hearing of a relation is a step of the trail that leads nowhere.
LEMMA HearLinkKeepsTrail ==
  ASSUME NEW lo, NEW hi, Mild(lo, hi), SInv(lo, hi), HearLink \/ HearCpuLink
  PROVE  OnTrail(lo, hi)'
<1>0. /\ TInv /\ OnTrail(lo, hi) /\ lo \in Nat /\ hi \in Nat
      /\ news # <<>> /\ news' = Tail(news) /\ Head(news).kind # "ambient"
      /\ UNCHANGED <<ambient, updates, current, pending, value, given, started>>
  BY DEF SInv, Mild, HearLink, HearCpuLink
<1>1. PICK t : Trail(t, lo, hi) /\ Queued(t[1], lo, hi) /\ Following(t[1], lo, hi)
  BY <1>0 DEF OnTrail
<1>2. PICK u : Trail(u, lo, hi)' /\ u[1] = t[1]
  BY <1>0, <1>1, TrailShrinks
<1>3. Queued(u[1], lo, hi)' /\ Following(u[1], lo, hi)'
  BY <1>0, <1>1, <1>2, FollowingStays
<1>4. QED BY <1>2, <1>3 DEF OnTrail, Trail

\* An update is launched: every sensor has still to be adjusted, once.
LEMMA LaunchKeepsSensors ==
  ASSUME NEW lo, NEW hi, Mild(lo, hi), SInv(lo, hi), LaunchUpdate
  PROVE  OnTrail(lo, hi)' /\ PendingOnce'
<1> USE ThermalAssumption DEF ThermalAssumption
<1>0. /\ TInv /\ OnTrail(lo, hi) /\ lo \in Nat /\ hi \in Nat
      /\ current = <<>> /\ updates # <<>> /\ pending = <<>> /\ pending' = Sensors
      /\ current' = <<updates[1]>> /\ updates' = Tail(updates)
      /\ UNCHANGED <<news, ambient, value, given, started>>
      /\ updates \in Seq(Change)
  <2>1. TInv /\ OnTrail(lo, hi) /\ lo \in Nat /\ hi \in Nat
    BY DEF SInv, Mild
  <2>2. updates \in Seq(Change) /\ (pending # <<>> => current # <<>>)
    BY <2>1 DEF TInv, TypeOK
  <2>3. /\ current = <<>> /\ updates # <<>> /\ pending' = Sensors
        /\ current' = <<Head(updates)>> /\ updates' = Tail(updates)
        /\ UNCHANGED <<news, ambient, value, given, started>>
    BY DEF LaunchUpdate, Idle
  <2>4. Head(updates) = updates[1]
    BY <2>2, <2>3
  <2>5. QED BY <2>1, <2>2, <2>3, <2>4
<1>1. PICK t : Trail(t, lo, hi) /\ Queued(t[1], lo, hi) /\ Following(t[1], lo, hi)
  BY <1>0 DEF OnTrail
<1>2. /\ Len(updates) \in Nat /\ Len(updates) >= 1 /\ Len(updates') = Len(updates) - 1
      /\ \A i \in 1 .. Len(updates) - 1 : updates'[i] = updates[i + 1]
      /\ current'[1] = updates[1] /\ current' # <<>>
      /\ (updates' = <<>> <=> Len(updates) = 1)
  <2>1. Len(updates) \in Nat /\ Len(updates) >= 1
    BY <1>0
  <2>2. Len(updates') = Len(updates) - 1
    BY <1>0, <2>1
  <2>3. \A i \in 1 .. Len(updates) - 1 : updates'[i] = updates[i + 1]
    BY <1>0, <2>1
  <2>4. updates' = <<>> <=> Len(updates) = 1
    <3>1. updates' \in Seq(Change)
      BY <1>0
    <3>2. updates' = <<>> <=> Len(updates') = 0
      BY <3>1
    <3>3. QED BY <2>1, <2>2, <3>2
  <2>5. current'[1] = updates[1] /\ current' # <<>>
    BY <1>0
  <2>6. QED BY <2>1, <2>2, <2>3, <2>4, <2>5
<1>3. Applied(t[1])' = updates[1].new /\ updates[1].new \in lo .. hi
  <2>1. 1 \in 1 .. Len(updates)
    BY <1>2
  <2>2. CASE Len(updates) = 1
    BY <1>1, <1>2, <2>1, <2>2 DEF Applied, Queued
  <2>3. CASE Len(updates) # 1
    <3>1. updates'[1] = updates[2] /\ updates' # <<>> /\ 1 < Len(updates)
      <4>1. 1 \in 1 .. Len(updates) - 1 /\ 1 < Len(updates) /\ 1 + 1 = 2
        BY <1>2, <2>3
      <4>2. updates'[1] = updates[1 + 1]
        BY <1>2, <4>1
      <4>3. QED BY <1>2, <2>3, <4>1, <4>2
    <3>2. updates[1].new = updates[1 + 1].old /\ updates[1].new \in lo .. hi
      BY <1>1, <2>1, <3>1 DEF Queued
    <3>3. Applied(t[1])' = updates[2].old
      BY <3>1 DEF Applied
    <3>4. QED BY <3>2, <3>3
  <2>4. QED BY <2>2, <2>3
<1>4. Queued(t[1], lo, hi)'
  <2>1. ASSUME NEW i \in 1 .. Len(updates')
        PROVE  /\ updates'[i].new = IF i < Len(updates') THEN updates'[i + 1].old ELSE t[1]
               /\ updates'[i].new \in lo .. hi
    <3>1. i + 1 \in 1 .. Len(updates) /\ updates'[i] = updates[i + 1]
          /\ (i < Len(updates') <=> i + 1 < Len(updates))
          /\ (i < Len(updates') => updates'[i + 1] = updates[i + 1 + 1])
      <4>1. Len(updates) \in Nat /\ Len(updates') = Len(updates) - 1 /\ i \in Nat
        BY <1>2
      <4>2. \A j \in 1 .. Len(updates) - 1 : updates'[j] = updates[j + 1]
        BY <1>2
      <4>3. i \in 1 .. Len(updates) - 1
        BY <4>1
      <4>4. i < Len(updates') => i + 1 \in 1 .. Len(updates) - 1
        BY <4>1
      <4>5. QED BY <4>1, <4>2, <4>3, <4>4
    <3>2. QED BY <1>1, <3>1 DEF Queued
  <2>2. QED BY <1>2, <1>3, <2>1 DEF Queued
<1>5. Following(t[1], lo, hi)'
  <2>1. Applied(t[1]) = updates[1].old /\ Reached(t[1]) = updates[1].old
        /\ \A s : RoomOf(s, t[1]) = updates[1].old
    BY <1>0 DEF Applied, Reached, RoomOf, Behind
  <2>2. ASSUME NEW s \in Temperature PROVE Behind(s)'
    <3>1. Sensors \in Seq(Temperature)
      OBVIOUS
    <3>2. DOMAIN Sensors = 1 .. Len(Sensors)
      BY <3>1
    <3>3. \E i \in 1 .. Len(Sensors) : Sensors[i] = s
      BY <3>2 DEF Temperature, Range
    <3>4. QED BY <1>0, <3>3 DEF Behind
  <2>3. Reached(t[1])' = updates[1].old /\ \A s \in Temperature : RoomOf(s, t[1])' = updates[1].old
    BY <1>2, <2>2 DEF Reached, RoomOf
  <2>4. QED BY <1>0, <1>1, <2>1, <2>3 DEF Following
<1>6. Trail(t, lo, hi)'
  BY <1>0, <1>1 DEF Trail
<1>7. PendingOnce'
  <2>1. DOMAIN Sensors = 1 .. Len(Sensors)
    OBVIOUS
  <2>2. QED BY <1>0, <2>1 DEF PendingOnce
<1>8. QED BY <1>4, <1>5, <1>6, <1>7 DEF OnTrail, Trail

\* An update is over: all sensors have its new temperature.
LEMMA EndKeepsSensors ==
  ASSUME NEW lo, NEW hi, Mild(lo, hi), SInv(lo, hi), UpdateEnds
  PROVE  OnTrail(lo, hi)'
<1>0. /\ TInv /\ OnTrail(lo, hi) /\ current # <<>> /\ pending = <<>> /\ current' = <<>> /\ started'
      /\ UNCHANGED <<news, ambient, updates, pending, value, given>>
  BY DEF SInv, UpdateEnds
<1>1. PICK t : Trail(t, lo, hi) /\ Queued(t[1], lo, hi) /\ Following(t[1], lo, hi)
  BY <1>0 DEF OnTrail
<1>2. /\ Applied(t[1])' = Applied(t[1]) /\ Reached(t[1])' = Applied(t[1])
      /\ \A s : RoomOf(s, t[1])' = Applied(t[1]) /\ RoomOf(s, t[1]) = Applied(t[1])
  BY <1>0 DEF Applied, Reached, RoomOf, Behind
<1>3. Applied(t[1]) \in lo .. hi
  BY <1>0, <1>1 DEF Queued
<1>4. Queued(t[1], lo, hi)' /\ Following(t[1], lo, hi)'
  BY <1>0, <1>1, <1>2, <1>3 DEF Queued, Following
<1>5. Trail(t, lo, hi)'
  BY <1>0, <1>1 DEF Trail
<1>6. QED BY <1>4, <1>5 DEF OnTrail, Trail

\* The loop adjusts one sensor: it moves from the old temperature to the new one.
LEMMA AdjustKeepsSensors ==
  ASSUME NEW lo, NEW hi, Mild(lo, hi), SInv(lo, hi), NEW s \in Temperature, AdjustWrites(s)
  PROVE  /\ OnTrail(lo, hi)'
         /\ (ThreadsWait /\ NoFrost(lo, hi) /\ ReadsAreFresh /\ PendingOnce)'
<1>0. /\ TInv /\ OnTrail(lo, hi) /\ lo \in Nat /\ hi \in Nat /\ hi < lo + lo /\ lo <= hi
      /\ value \in [Temperature \cup {Fan} -> Int] /\ given \in [Temperature -> Int]
      /\ lock \in [Temperature -> [by : {Nothing, "loop", "down", "up"} \cup CpuThread, read : Int]]
      /\ pending \in Seq(Temperature) /\ current # <<>>
      /\ pending # <<>> /\ s = Head(pending) /\ lock[s].read = value[s]
      /\ given[s] \in Int /\ given[s] >= lo - hi
  <2>1. TInv /\ OnTrail(lo, hi) /\ TypeOK /\ LoopAdjusts /\ NoFrost(lo, hi) /\ ReadsAreFresh
    BY DEF SInv, TInv
  <2>2. lo \in Nat /\ hi \in Nat /\ hi < lo + lo /\ lo <= hi
    BY DEF Mild
  <2>3. lock[s].by = "loop"
    BY DEF AdjustWrites
  <2>4. pending # <<>> /\ s = Head(pending) /\ lock[s].read = value[s]
    BY <2>1, <2>3 DEF LoopAdjusts, ReadsAreFresh
  <2>5. given[s] \in Int /\ given[s] >= lo - hi
    BY <2>1 DEF TypeOK, NoFrost
  <2>6. QED BY <2>1, <2>2, <2>4, <2>5 DEF TypeOK
<1>1. PICK t : Trail(t, lo, hi) /\ Queued(t[1], lo, hi) /\ Following(t[1], lo, hi)
  BY <1>0 DEF OnTrail
<1> DEFINE u == current[1]
           new == IF value[s] = 0 THEN u.new ELSE value[s] - u.old + u.new
<1>2. /\ value' = [value EXCEPT ![s] = new]
      /\ lock' = [lock EXCEPT ![s] = Free] /\ pending' = Tail(pending)
      /\ UNCHANGED <<ambient, room, news, updates, current, given, thread, cpu, started>>
  BY <1>0 DEF AdjustWrites
<1>3. /\ Len(pending) \in Nat /\ Len(pending) >= 1 /\ pending[1] = s
      /\ Len(pending') = Len(pending) - 1
      /\ \A i \in 1 .. Len(pending) - 1 : pending'[i] = pending[i + 1]
  BY <1>0, <1>2
<1>4. PendingOnce /\ PendingOnce'
  <2>1. PendingOnce
    BY DEF SInv
  <2>2. ASSUME NEW i \in 1 .. Len(pending'), NEW j \in 1 .. Len(pending'), pending'[i] = pending'[j]
        PROVE  i = j
    <3>1. i + 1 \in 1 .. Len(pending) /\ j + 1 \in 1 .. Len(pending)
          /\ pending'[i] = pending[i + 1] /\ pending'[j] = pending[j + 1]
      BY <1>3
    <3>2. i + 1 = j + 1
      BY <2>1, <2>2, <3>1 DEF PendingOnce
    <3>3. QED BY <3>2
  <2>3. QED BY <2>1, <2>2 DEF PendingOnce
<1>5. Behind(s) /\ ~Behind(s)'
  <2>1. Behind(s)
    BY <1>3 DEF Behind
  <2>2. ASSUME NEW i \in 1 .. Len(pending'), pending'[i] = s PROVE FALSE
    <3>1. i + 1 \in 1 .. Len(pending) /\ 1 \in 1 .. Len(pending) /\ pending[i + 1] = pending[1]
      BY <1>3, <2>2
    <3>2. i + 1 = 1
      BY <1>4, <3>1 DEF PendingOnce
    <3>3. QED BY <3>2
  <2>3. QED BY <2>1, <2>2 DEF Behind
<1>6. ASSUME NEW o \in Temperature, o # s PROVE Behind(o)' <=> Behind(o)
  <2>1. ASSUME NEW i \in 1 .. Len(pending), pending[i] = o PROVE Behind(o)'
    <3>1. i # 1
      BY <1>3, <1>6, <2>1
    <3>2. i - 1 \in 1 .. Len(pending) - 1 /\ (i - 1) + 1 = i
      BY <1>3, <3>1
    <3>3. pending'[i - 1] = o /\ i - 1 \in 1 .. Len(pending')
      BY <1>3, <2>1, <3>2
    <3>4. QED BY <3>3 DEF Behind
  <2>2. ASSUME NEW i \in 1 .. Len(pending'), pending'[i] = o PROVE Behind(o)
    <3>1. i + 1 \in 1 .. Len(pending) /\ pending[i + 1] = o
      BY <1>3, <2>2
    <3>2. QED BY <3>1 DEF Behind
  <2>3. QED BY <2>1, <2>2 DEF Behind
<1>7. /\ Applied(t[1])' = Applied(t[1]) /\ Reached(t[1])' = u.old /\ Reached(t[1]) = u.old
      /\ Applied(t[1]) = u.new /\ u.new \in lo .. hi
  BY <1>0, <1>1, <1>2 DEF Applied, Reached, Queued
<1>8. value[s] = u.old + given[s] /\ u.old \in Int /\ u.new \in Int
  <2>1. value[s] = u.old + given[s]
    BY <1>1, <1>5 DEF Following, RoomOf
  <2>2. u.old \in Int
    BY <1>1, <1>7 DEF Following
  <2>3. QED BY <1>7, <2>1, <2>2
<1>9. new = u.new + given[s]
  <2>1. CASE started
    <3>1. u.old >= lo
      BY <1>0, <1>1, <1>7, <2>1 DEF Following
    <3>2. value[s] > 0
      BY <1>0, <1>8, <3>1
    <3>3. new = value[s] - u.old + u.new
      BY <3>2
    <3>4. QED BY <1>0, <1>8, <3>3
  <2>2. CASE ~started
    <3>1. u.old = 0 /\ given[s] = 0
      BY <1>1, <1>7, <2>2 DEF Following
    <3>2. QED BY <1>8, <3>1
  <2>3. QED BY <2>1, <2>2
<1> HIDE DEF new, u
<1>10. /\ value'[s] = u.new + given[s]
       /\ \A o \in Temperature : o # s => value'[o] = value[o]
  BY <1>0, <1>2, <1>9
<1>11. Following(t[1], lo, hi)'
  <2>1. ASSUME NEW o \in Temperature PROVE value'[o] = RoomOf(o, t[1])' + given[o]
    <3>1. CASE o = s
      <4>1. RoomOf(s, t[1])' = u.new
        BY <1>5, <1>7 DEF RoomOf
      <4>2. QED BY <1>10, <3>1, <4>1
    <3>2. CASE o # s
      <4>1. RoomOf(o, t[1])' = RoomOf(o, t[1])
        BY <1>2, <1>6, <1>7, <3>2 DEF RoomOf
      <4>2. QED BY <1>1, <1>10, <3>2, <4>1 DEF Following
    <3>3. QED BY <3>1, <3>2
  <2>2. QED BY <1>1, <1>2, <1>7, <2>1 DEF Following
<1>12. OnTrail(lo, hi)'
  <2>1. Queued(t[1], lo, hi)'
    BY <1>1, <1>2, <1>7 DEF Queued
  <2>2. Trail(t, lo, hi)'
    BY <1>1, <1>2 DEF Trail
  <2>3. QED BY <1>11, <2>1, <2>2 DEF OnTrail, Trail
<1>13. ReadsAreFresh'
  <2>1. lock'[s] = Free /\ \A o \in Temperature : o # s => lock'[o] = lock[o]
    BY <1>0, <1>2
  <2>2. QED BY <1>10, <2>1 DEF SInv, ReadsAreFresh, Free, Nothing
<1>14. ThreadsWait' /\ NoFrost(lo, hi)'
  BY <1>2 DEF SInv, ThreadsWait, NoFrost
<1>15. QED BY <1>4, <1>12, <1>13, <1>14

\* What a thread adds to a sensor it also adds to what was given to it.
LEMMA HeatKeepsTrail ==
  ASSUME NEW lo, NEW hi, Mild(lo, hi), SInv(lo, hi), NEW s \in Temperature, NEW new \in Int,
         value' = [value EXCEPT ![s] = new],
         given' = [given EXCEPT ![s] = @ + (new - value[s])],
         started, new = value[s] \/ new >= lo \/ new >= value[s],
         UNCHANGED <<news, ambient, updates, current, pending, started>>
  PROVE  OnTrail(lo, hi)' /\ \A o \in Temperature : given'[o] >= lo - hi
<1>0. /\ OnTrail(lo, hi) /\ lo \in Nat /\ hi \in Nat /\ lo <= hi
      /\ value \in [Temperature \cup {Fan} -> Int] /\ given \in [Temperature -> Int]
      /\ \A o \in Temperature : given[o] >= lo - hi
  <2>1. OnTrail(lo, hi) /\ TypeOK /\ NoFrost(lo, hi)
    BY DEF SInv, TInv
  <2>2. lo \in Nat /\ hi \in Nat /\ lo <= hi
    BY DEF Mild
  <2>3. QED BY <2>1, <2>2 DEF NoFrost, TypeOK
<1>1. PICK t : Trail(t, lo, hi) /\ Queued(t[1], lo, hi) /\ Following(t[1], lo, hi)
  BY <1>0 DEF OnTrail
<1>2. /\ Applied(t[1])' = Applied(t[1]) /\ Reached(t[1])' = Reached(t[1])
      /\ \A o : RoomOf(o, t[1])' = RoomOf(o, t[1])
  BY DEF Applied, Reached, RoomOf, Behind
<1>3. Queued(t[1], lo, hi)' /\ Trail(t, lo, hi)'
  BY <1>1, <1>2 DEF Queued, Trail
<1>4. /\ value[s] \in Int /\ given[s] \in Int
      /\ value'[s] = new /\ given'[s] = given[s] + (new - value[s])
      /\ \A o \in Temperature : o # s => value'[o] = value[o] /\ given'[o] = given[o]
  <2>1. value[s] \in Int /\ given[s] \in Int
    BY <1>0
  <2>2. value'[s] = new /\ \A o \in Temperature : o # s => value'[o] = value[o]
    BY <1>0
  <2>3. /\ given'[s] = given[s] + (new - value[s])
        /\ \A o \in Temperature : o # s => given'[o] = given[o]
    BY <1>0
  <2>4. QED BY <2>1, <2>2, <2>3
<1>5. RoomOf(s, t[1]) \in lo .. hi /\ value[s] = RoomOf(s, t[1]) + given[s]
  <2>1. Applied(t[1]) \in lo .. hi
    BY <1>1 DEF Queued, Following, Reached
  <2>2. Behind(s) => RoomOf(s, t[1]) \in lo .. hi
    <3>1. ASSUME Behind(s) PROVE current # <<>>
      <4>1. pending \in Seq(Temperature) /\ (pending # <<>> => current # <<>>)
        BY DEF SInv, TInv, TypeOK
      <4>2. pending # <<>>
        BY <3>1, <4>1 DEF Behind
      <4>3. QED BY <4>1, <4>2
    <3>2. QED BY <1>1, <3>1 DEF Following, Reached, RoomOf
  <2>3. ~Behind(s) => RoomOf(s, t[1]) \in lo .. hi
    BY <2>1 DEF RoomOf
  <2>4. value[s] = RoomOf(s, t[1]) + given[s]
    BY <1>1 DEF Following
  <2>5. QED BY <2>2, <2>3, <2>4
<1>6. value'[s] = RoomOf(s, t[1]) + given'[s] /\ given'[s] >= lo - hi
  <2>1. given[s] >= lo - hi
    BY <1>0
  <2> DEFINE r == RoomOf(s, t[1])
             v == value[s]
             g == given[s]
  <2>2. r \in lo .. hi /\ v = r + g /\ v \in Int /\ g \in Int
    BY <1>4, <1>5
  <2>3. g >= lo - hi /\ given'[s] = g + (new - v) /\ value'[s] = new
    BY <1>4, <2>1
  <2> HIDE DEF r, v, g
  <2>4. given'[s] = new - r
    BY <1>0, <2>2, <2>3
  <2>5. given'[s] >= lo - hi
    <3>1. CASE new >= lo
      BY <1>0, <2>2, <2>4, <3>1
    <3>2. CASE new >= value[s]
      BY <1>0, <1>4, <2>2, <2>3, <3>2 DEF v
    <3>3. CASE new = value[s]
      BY <1>0, <1>4, <2>2, <2>3, <3>3 DEF v
    <3>4. QED BY <3>1, <3>2, <3>3
  <2>6. value'[s] = r + given'[s]
    BY <1>0, <2>2, <2>3, <2>4
  <2>7. QED BY <2>5, <2>6 DEF r
<1>7. Following(t[1], lo, hi)'
  <2>1. ASSUME NEW o \in Temperature PROVE value'[o] = RoomOf(o, t[1])' + given'[o]
    <3>1. CASE o = s
      BY <1>2, <1>6, <3>1
    <3>2. CASE o # s
      BY <1>1, <1>2, <1>4, <3>2 DEF Following
    <3>3. QED BY <3>1, <3>2
  <2>2. QED BY <1>1, <1>2, <2>1 DEF Following
<1>8. \A o \in Temperature : given'[o] >= lo - hi
  BY <1>0, <1>4, <1>6
<1>9. QED BY <1>3, <1>7, <1>8 DEF OnTrail, Trail

\* A thread of a relation moves its target no lower than the mild room.
LEMMA ThreadWritesKeepsSensors ==
  ASSUME NEW lo, NEW hi, Mild(lo, hi), SInv(lo, hi), NEW k \in Key, ThreadWrites(k)
  PROVE  OnTrail(lo, hi)' /\ (ThreadsWait /\ NoFrost(lo, hi) /\ ReadsAreFresh /\ PendingOnce)'
<1> USE ThermalAssumption, KeysNameSensors DEF ThermalAssumption
<1> DEFINE s == k[1]
           l == LinkOf(k)
           active == (Event[l] = "down") = (value[Fan] = 0)
           step == Stepped(lock[s].read, l, thread[k].limit)
           new == IF active THEN step ELSE value[s]
<1>0. /\ TInv /\ TypeOK /\ OnTrail(lo, hi) /\ NoFrost(lo, hi) /\ ThreadsWait /\ ReadsAreFresh /\ PendingOnce
      /\ s \in Temperature /\ l \in Link /\ k[2] \in {"down", "up"}
      /\ thread[k].at = "checked" /\ lock[s].by = k[2]
      /\ UNCHANGED <<ambient, room, news, updates, current, pending, cpu, started>>
      /\ lock' = [lock EXCEPT ![s] = Free] /\ thread' = [thread EXCEPT ![k] = Asleep]
  BY DEF ThreadWrites, SInv, TInv
<1>1. /\ value \in [Temperature \cup {Fan} -> Int] /\ given \in [Temperature -> Int]
      /\ lock \in [Temperature -> [by : {Nothing, "loop", "down", "up"} \cup CpuThread, read : Int]]
      /\ thread \in [Key -> [at : {"none", "asleep", "checked", "gone"}, limit : Nat]]
  BY <1>0 DEF TypeOK
<1>2. started /\ lock[s].read = value[s]
  BY <1>0 DEF ThreadsWait, ReadsAreFresh
<1>3. /\ value[s] \in Int /\ thread[k].limit \in Nat /\ lo \in Nat /\ Degrees[l] \in Nat
      /\ ~Heats[l] => thread[k].limit >= lo
  BY <1>0, <1>1 DEF NoFrost, Mild
<1>4. step \in Int /\ (step = value[s] \/ step >= lo \/ step >= value[s])
  <2>1. CASE Heats[l]
    BY <1>2, <1>3, <2>1 DEF Stepped
  <2>2. CASE ~Heats[l]
    BY <1>2, <1>3, <2>2 DEF Stepped
  <2>3. QED BY <2>1, <2>2
<1>5. /\ value' = [value EXCEPT ![s] = new]
      /\ given' = [given EXCEPT ![s] = @ + (new - value[s])]
  <2>1. /\ value' = [value EXCEPT ![s] = new]
        /\ given' = [given EXCEPT ![s] = IF active THEN @ + (new - lock[s].read) ELSE @]
    BY DEF ThreadWrites
  <2>2. CASE active
    BY <1>2, <2>1, <2>2
  <2>3. CASE ~active
    <3>1. new = value[s]
      BY <2>3
    <3>2. given' = [given EXCEPT ![s] = given[s]]
      BY <2>1, <2>3
    <3>3. given[s] \in Int
      BY <1>0, <1>1
    <3> HIDE DEF new, s
    <3>4. given[s] = given[s] + (new - value[s])
      BY <1>3, <3>1, <3>3
    <3>5. given' = [given EXCEPT ![s] = given[s] + (new - value[s])]
      BY <3>2, <3>4
    <3>6. QED BY <2>1, <3>5
  <2>4. QED BY <2>2, <2>3
<1>6. new \in Int /\ (new = value[s] \/ new >= lo \/ new >= value[s])
  BY <1>3, <1>4
<1> HIDE DEF new, step, active
<1>7. OnTrail(lo, hi)' /\ \A o \in Temperature : given'[o] >= lo - hi
  BY <1>0, <1>2, <1>5, <1>6, HeatKeepsTrail
<1>8. /\ lock'[s] = Free /\ \A o \in Temperature : o # s => lock'[o] = lock[o] /\ value'[o] = value[o]
      /\ thread'[k] = Asleep /\ \A o \in Key : o # k => thread'[o] = thread[o]
  BY <1>0, <1>1, <1>5
<1>9. ReadsAreFresh'
  BY <1>0, <1>8 DEF ReadsAreFresh, Free, Nothing
<1>10. NoFrost(lo, hi)'
  BY <1>0, <1>7, <1>8 DEF NoFrost, Asleep
<1>11. ThreadsWait' /\ PendingOnce'
  BY <1>0, <1>2 DEF ThreadsWait, PendingOnce
<1>12. QED BY <1>7, <1>9, <1>10, <1>11

\* The CPU adds its impact under the lock, and never sets the sensor below the
\* room.
LEMMA CpuHeatsKeepsSensors ==
  ASSUME NEW lo, NEW hi, Mild(lo, hi), SInv(lo, hi), NEW c \in CpuThread, CpuHeats(c)
  PROVE  OnTrail(lo, hi)' /\ (ThreadsWait /\ NoFrost(lo, hi) /\ ReadsAreFresh /\ PendingOnce)'
<1> USE ThermalAssumption DEF ThermalAssumption
<1> DEFINE impact == Impact[load]
           sum == value[Hot] + impact - cpu[c].impact
           new == IF impact = cpu[c].impact THEN value[Hot]
                  ELSE IF sum > ambient THEN sum ELSE ambient
<1>0. /\ TInv /\ TypeOK /\ OnTrail(lo, hi) /\ NoFrost(lo, hi) /\ ThreadsWait /\ ReadsAreFresh /\ PendingOnce
      /\ cpu[c].at = "checked" /\ lock[Hot] = Free
      /\ UNCHANGED <<ambient, room, news, updates, current, pending, thread, started>>
      /\ lock' = [lock EXCEPT ![Hot] = [by |-> c, read |-> 0]]
      /\ cpu' = [cpu EXCEPT ![c] = [at |-> "holding", impact |-> impact]]
      /\ value' = [value EXCEPT ![Hot] = new]
      /\ given' = [given EXCEPT ![Hot] = @ + (new - value[Hot])]
  BY DEF CpuHeats, AddImpact, SInv, TInv
<1>1. /\ value \in [Temperature \cup {Fan} -> Int] /\ given \in [Temperature -> Int]
      /\ lock \in [Temperature -> [by : {Nothing, "loop", "down", "up"} \cup CpuThread, read : Int]]
      /\ cpu \in [CpuThread -> [at : {"none", "ready", "checked", "holding"}, impact : Nat]]
      /\ impact \in Nat /\ ambient \in Nat
  BY <1>0 DEF TypeOK
<1>2. value[Hot] \in Int /\ cpu[c].impact \in Nat /\ ambient >= lo /\ lo \in Nat
  BY <1>0, <1>1 DEF NoFrost, Mild
<1>3. new \in Int /\ (new = value[Hot] \/ new >= lo \/ new >= value[Hot])
  BY <1>1, <1>2
<1> HIDE DEF new
<1>4. started
  BY <1>0 DEF ThreadsWait
<1>5. OnTrail(lo, hi)' /\ \A o \in Temperature : given'[o] >= lo - hi
  BY <1>0, <1>3, <1>4, HeatKeepsTrail
<1>6. /\ lock'[Hot].by = c /\ c \notin {"loop", "down", "up"}
      /\ \A o \in Temperature : o # Hot => lock'[o] = lock[o] /\ value'[o] = value[o]
  BY <1>0, <1>1
<1>7. ReadsAreFresh'
  BY <1>0, <1>6 DEF ReadsAreFresh
<1>8. NoFrost(lo, hi)' /\ ThreadsWait' /\ PendingOnce'
  BY <1>0, <1>4, <1>5 DEF NoFrost, ThreadsWait, PendingOnce
<1>9. QED BY <1>5, <1>7, <1>8

\* No relation is published before the first update is over.
LEMMA NextKeepsRelationsWait ==
  ASSUME NEW lo, NEW hi, SInv(lo, hi), [Next]_vars
  PROVE  RelationsWait'
<1> SUFFICES ASSUME ~started' PROVE \A i \in 1 .. Len(news') : news'[i].kind = "ambient"
  BY DEF RelationsWait
<1>0. RelationsWait /\ news \in Seq(Message)
  BY DEF SInv, TInv, TypeOK
<1>1. ASSUME UNCHANGED <<news, started>> PROVE \A i \in 1 .. Len(news') : news'[i].kind = "ambient"
  BY <1>0, <1>1 DEF RelationsWait
<1>2. ASSUME UNCHANGED started, news # <<>>, news' = Tail(news)
      PROVE  \A i \in 1 .. Len(news') : news'[i].kind = "ambient"
  <2>1. Len(news) \in Nat /\ Len(news') = Len(news) - 1
        /\ \A i \in 1 .. Len(news) - 1 : news'[i] = news[i + 1]
    BY <1>0, <1>2
  <2>2. QED BY <1>0, <1>2, <2>1 DEF RelationsWait
<1>3. ASSUME NEW new, SetAmbient(new), UNCHANGED started
      PROVE  \A i \in 1 .. Len(news') : news'[i].kind = "ambient"
  <2> DEFINE n == [kind |-> "ambient", old |-> ambient, new |-> new]
  <2>1. news' = Append(news, n) /\ n.kind = "ambient"
    BY <1>3 DEF SetAmbient
  <2> HIDE DEF n
  <2>2. /\ Len(news) \in Nat /\ Len(news') = Len(news) + 1 /\ news'[Len(news) + 1] = n
        /\ \A i \in 1 .. Len(news) : news'[i] = news[i]
    BY <1>0, <2>1
  <2>3. QED BY <1>0, <1>3, <2>1, <2>2 DEF RelationsWait
<1>4. CASE Loop
  <2>1. ~UpdateEnds
    BY DEF UpdateEnds
  <2>2. CASE HearAmbient \/ HearLink \/ HearCpuLink
    BY <1>2, <2>2 DEF HearAmbient, HearLink, HearCpuLink
  <2>3. CASE LaunchUpdate \/ \E s \in Temperature : AdjustWrites(s)
    BY <1>1, <2>3 DEF LaunchUpdate, AdjustWrites
  <2>4. QED BY <1>4, <2>1, <2>2, <2>3 DEF Loop
<1>5. CASE Threads
  BY <1>1, <1>5 DEF Threads, ThreadWakes, ThreadEnds, ThreadReads, ThreadWrites,
       CpuWakes, CpuHeats, CpuReleases
<1>6. CASE Room
  BY <1>1, <1>3, <1>6 DEF Room, RoomReads, RoomSets
<1>7. CASE Users
  <2>1. CASE MainsChange \/ PowerOff \/ PowerOn \/ SetFan \/ \E l \in DOMAIN Impact : SampleLoad(l)
    BY <1>1, <2>1 DEF MainsChange, PowerOff, PowerOn, SetFan, SampleLoad
  <2>2. CASE \E new \in Temps : ClientSetsAmbient(new)
    BY <1>3, <2>2 DEF ClientSetsAmbient
  <2>3. CASE SetCpuLink \/ DeleteCpuLink \/ \E l \in Link : SetLink(l) \/ DeleteLink(l)
    <3>1. started /\ UNCHANGED started
      BY <2>3 DEF SetCpuLink, DeleteCpuLink, SetLink, DeleteLink
    <3>2. QED BY <3>1
  <2>4. QED BY <1>7, <2>1, <2>2, <2>3 DEF Users
<1>8. CASE \E s \in Temperature : AdjustReads(s)
  BY <1>1, <1>8 DEF AdjustReads
<1>9. CASE UNCHANGED vars
  BY <1>1, <1>9 DEF vars
<1>10. QED BY <1>4, <1>5, <1>6, <1>7, <1>8, <1>9 DEF Next

\* The steps that leave the sensors, what was given to them and the air alone.
LEMMA SensorsAlone ==
  ASSUME NEW lo, NEW hi, SInv(lo, hi),
         UNCHANGED <<ambient, room, pending, value, given>>,
         \A s \in Temperature :
           \/ lock'[s] = lock[s] \/ lock'[s].by \notin {"loop", "down", "up"}
           \/ lock'[s].read = value[s],
         ThreadsWait',
         \A k \in Key : thread'[k] = thread[k] \/ thread'[k].at # "checked"
                        \/ (Heats[LinkOf(k)] \/ thread'[k].limit >= lo)
  PROVE  (ThreadsWait /\ NoFrost(lo, hi) /\ ReadsAreFresh /\ PendingOnce)'
<1>1. NoFrost(lo, hi)'
  BY DEF SInv, NoFrost
<1>2. ReadsAreFresh'
  BY DEF SInv, ReadsAreFresh
<1>3. PendingOnce'
  BY DEF SInv, PendingOnce
<1>4. QED BY <1>1, <1>2, <1>3

\* The loop hears, and ends an update.
LEMMA LoopKeepsThreads ==
  ASSUME NEW lo, NEW hi, Mild(lo, hi), SInv(lo, hi),
         HearAmbient \/ HearLink \/ HearCpuLink \/ UpdateEnds
  PROVE  (ThreadsWait /\ NoFrost(lo, hi) /\ ReadsAreFresh /\ PendingOnce)'
<1>0. /\ UNCHANGED <<ambient, room, pending, value, given, lock>>
      /\ TypeOK /\ ThreadsWait /\ RelationsWait
      /\ thread \in [Key -> [at : {"none", "asleep", "checked", "gone"}, limit : Nat]]
      /\ news \in Seq(Message)
  BY DEF HearAmbient, HearLink, HearCpuLink, UpdateEnds, SInv, TInv, TypeOK
<1>1. \A k \in Key : thread'[k] = thread[k] \/ thread'[k].at # "checked"
  <2>1. Asleep.at # "checked"
    BY DEF Asleep
  <2>2. CASE HearAmbient \/ HearCpuLink
    BY <2>2 DEF HearAmbient, HearCpuLink
  <2>3. CASE HearLink
    BY <1>0, <2>1, <2>3 DEF HearLink
  <2>4. CASE UpdateEnds
    BY <2>1, <2>4 DEF UpdateEnds, Launched
  <2>5. QED BY <2>2, <2>3, <2>4
<1>2. ThreadsWait'
  <2>1. CASE HearAmbient
    BY <1>0, <2>1 DEF HearAmbient, ThreadsWait
  <2>2. CASE HearLink \/ HearCpuLink
    <3>1. started /\ started'
      <4>1. news # <<>> /\ Head(news) = news[1] /\ 1 \in 1 .. Len(news) /\ UNCHANGED started
        BY <1>0, <2>2 DEF HearLink, HearCpuLink
      <4>2. Head(news).kind # "ambient"
        BY <2>2 DEF HearLink, HearCpuLink
      <4>3. QED BY <1>0, <4>1, <4>2 DEF RelationsWait
    <3>2. QED BY <3>1 DEF ThreadsWait
  <2>3. CASE UpdateEnds
    BY <2>3 DEF UpdateEnds, ThreadsWait
  <2>4. QED BY <2>1, <2>2, <2>3
<1>3. QED BY <1>0, <1>1, <1>2, SensorsAlone

\* Threads wake, take and give back locks, and end.
LEMMA ThreadsKeepSensors ==
  ASSUME NEW lo, NEW hi, Mild(lo, hi), SInv(lo, hi),
         \/ \E k \in Key : ThreadWakes(k) \/ ThreadEnds(k) \/ ThreadReads(k)
         \/ \E c \in CpuThread : CpuWakes(c) \/ CpuReleases(c)
         \/ \E s \in Temperature : AdjustReads(s)
  PROVE  OnTrail(lo, hi)' /\ (ThreadsWait /\ NoFrost(lo, hi) /\ ReadsAreFresh /\ PendingOnce)'
<1> USE ThermalAssumption, KeysNameSensors DEF ThermalAssumption
<1>0. /\ UNCHANGED <<ambient, room, news, updates, current, pending, value, given, started>>
      /\ TInv /\ TypeOK /\ ThreadsWait /\ OnTrail(lo, hi) /\ lo \in Nat /\ hi \in Nat
      /\ ambient >= lo /\ ambient \in Nat
  <2>1. UNCHANGED <<ambient, room, news, updates, current, pending, value, given, started>>
    BY DEF ThreadWakes, ThreadEnds, ThreadReads, CpuWakes, CpuReleases, AdjustReads
  <2>2. TInv /\ TypeOK /\ ThreadsWait /\ OnTrail(lo, hi) /\ NoFrost(lo, hi)
    BY DEF SInv, TInv
  <2>3. lo \in Nat /\ hi \in Nat
    BY DEF Mild
  <2>4. ambient >= lo /\ ambient \in Nat
    BY <2>2, <2>3 DEF NoFrost, TypeOK
  <2>5. QED BY <2>1, <2>2, <2>3, <2>4
<1>1. OnTrail(lo, hi)'
  BY <1>0, NothingPublished
<1>2. /\ thread \in [Key -> [at : {"none", "asleep", "checked", "gone"}, limit : Nat]]
      /\ cpu \in [CpuThread -> [at : {"none", "ready", "checked", "holding"}, impact : Nat]]
      /\ lock \in [Temperature -> [by : {Nothing, "loop", "down", "up"} \cup CpuThread, read : Int]]
  BY <1>0 DEF TypeOK
<1>3. ASSUME NEW k \in Key, ThreadWakes(k)
      PROVE  (ThreadsWait /\ NoFrost(lo, hi) /\ ReadsAreFresh /\ PendingOnce)'
  <2>1. started
    BY <1>0, <1>3 DEF ThreadsWait, ThreadWakes
  <2>2. UNCHANGED lock /\ \A o \in Key : o # k => thread'[o] = thread[o]
    BY <1>2, <1>3 DEF ThreadWakes
  <2>3. Heats[LinkOf(k)] \/ thread'[k].limit >= lo
    <3>1. LinkOf(k) \in Link /\ PauseAt[LinkOf(k)] \in Nat
      OBVIOUS
    <3>2. thread'[k].limit = IF Heats[LinkOf(k)] \/ PauseAt[LinkOf(k)] > ambient
                             THEN PauseAt[LinkOf(k)] ELSE ambient
      BY <1>2, <1>3 DEF ThreadWakes
    <3>3. QED BY <1>0, <3>1, <3>2
  <2>4. ThreadsWait'
    BY <1>0, <2>1 DEF ThreadsWait
  <2>5. QED BY <1>0, <2>2, <2>3, <2>4, SensorsAlone
<1>4. ASSUME NEW k \in Key, ThreadEnds(k)
      PROVE  (ThreadsWait /\ NoFrost(lo, hi) /\ ReadsAreFresh /\ PendingOnce)'
  <2>1. started
    BY <1>0, <1>4 DEF ThreadsWait, ThreadEnds
  <2>2. UNCHANGED lock /\ \A o \in Key : thread'[o] = thread[o] \/ thread'[o].at # "checked"
    BY <1>2, <1>4 DEF ThreadEnds, NoThread
  <2>3. ThreadsWait'
    BY <1>0, <2>1 DEF ThreadsWait
  <2>4. QED BY <1>0, <2>2, <2>3, SensorsAlone
<1>5. ASSUME NEW s \in Temperature, AdjustReads(s) \/ \E k \in Key : k[1] = s /\ ThreadReads(k)
      PROVE  (ThreadsWait /\ NoFrost(lo, hi) /\ ReadsAreFresh /\ PendingOnce)'
  <2>1. UNCHANGED <<thread, cpu>>
    BY <1>5 DEF AdjustReads, ThreadReads
  <2>2. \A o \in Temperature : lock'[o] = lock[o] \/ lock'[o].read = value[o]
    <3>1. \E b : lock' = [lock EXCEPT ![s] = [by |-> b, read |-> value[s]]]
      BY <1>5 DEF AdjustReads, ThreadReads
    <3>2. QED BY <1>2, <3>1
  <2>3. ThreadsWait'
    BY <1>0, <2>1 DEF ThreadsWait
  <2>4. QED BY <1>0, <2>1, <2>2, <2>3, SensorsAlone
<1>6. ASSUME NEW c \in CpuThread, CpuWakes(c) \/ CpuReleases(c)
      PROVE  (ThreadsWait /\ NoFrost(lo, hi) /\ ReadsAreFresh /\ PendingOnce)'
  <2>1. started
    BY <1>0, <1>6 DEF ThreadsWait, CpuWakes, CpuReleases
  <2>2. ThreadsWait' /\ UNCHANGED thread
    BY <1>0, <1>6, <2>1 DEF ThreadsWait, CpuWakes, CpuReleases
  <2>3. \A o \in Temperature : lock'[o] = lock[o] \/ lock'[o].by \notin {"loop", "down", "up"}
    BY <1>2, <1>6 DEF CpuWakes, CpuReleases, Free, Nothing
  <2>4. QED BY <1>0, <2>2, <2>3, SensorsAlone
<1>7. \A k \in Key : ThreadReads(k) => \E s \in Temperature : k[1] = s
  OBVIOUS
<1>8. QED BY <1>1, <1>3, <1>4, <1>5, <1>6, <1>7

\* Every step keeps the sensors on the trail.
LEMMA NextKeepsSensors ==
  ASSUME NEW lo, NEW hi, Mild(lo, hi), SInv(lo, hi), [Next]_vars
  PROVE  SInv(lo, hi)'
<1>0. TInv' /\ RelationsWait'
  BY NextTypes, NextKeepsRelationsWait DEF SInv
<1>1. CASE Loop
  <2>1. CASE HearAmbient \/ HearLink \/ HearCpuLink \/ UpdateEnds
    BY <1>0, <2>1, HearKeepsTrail, HearLinkKeepsTrail, EndKeepsSensors, LoopKeepsThreads DEF SInv
  <2>2. CASE LaunchUpdate
    <3>1. OnTrail(lo, hi)' /\ PendingOnce'
      BY <2>2, LaunchKeepsSensors
    <3>2. ThreadsWait' /\ NoFrost(lo, hi)' /\ ReadsAreFresh'
      BY <2>2 DEF LaunchUpdate, SInv, ThreadsWait, NoFrost, ReadsAreFresh
    <3>3. QED BY <1>0, <3>1, <3>2 DEF SInv
  <2>3. CASE \E s \in Temperature : AdjustWrites(s)
    BY <1>0, <2>3, AdjustKeepsSensors DEF SInv
  <2>4. QED BY <1>1, <2>1, <2>2, <2>3 DEF Loop
<1>2. CASE Threads
  BY <1>0, <1>2, ThreadsKeepSensors, ThreadWritesKeepsSensors, CpuHeatsKeepsSensors DEF Threads, SInv
<1>3. CASE Room \/ Users
  BY <1>0, <1>3, AirKeepsSensors, UsersKeepSensors DEF SInv
<1>4. CASE \E s \in Temperature : AdjustReads(s)
  BY <1>0, <1>4, ThreadsKeepSensors DEF SInv
<1>5. CASE UNCHANGED vars
  <2>1. TInv /\ OnTrail(lo, hi) /\ lo \in Nat /\ hi \in Nat
    BY DEF SInv, Mild
  <2>2. OnTrail(lo, hi)'
    BY <1>5, <2>1, NothingPublished DEF vars
  <2>3. (ThreadsWait /\ NoFrost(lo, hi) /\ ReadsAreFresh /\ PendingOnce)'
    BY <1>5 DEF vars, SInv, ThreadsWait, NoFrost, ReadsAreFresh, PendingOnce
  <2>4. QED BY <1>0, <2>2, <2>3 DEF SInv
<1>6. QED BY <1>1, <1>2, <1>3, <1>4, <1>5 DEF Next

\* The engine starts at the head of the trail: the sensors at 0, the change to
\* the first temperature published.
LEMMA InitOnTrail ==
  ASSUME NEW lo, NEW hi, Mild(lo, hi), Init
  PROVE  SInv(lo, hi)
<1> USE ThermalAssumption DEF ThermalAssumption
<1> DEFINE n == [kind |-> "ambient", old |-> 0, new |-> Warm]
           t == <<0, Warm>>
<1>0. lo \in Nat /\ hi \in Nat /\ Warm \in lo .. hi
  BY DEF Mild
<1>1. news = <<n>> /\ Len(news) = 1 /\ news[1] = n /\ n.old = 0 /\ n.new = Warm /\ n.kind = "ambient"
  BY DEF Init
<1> HIDE DEF n
<1>2. t \in [1 .. 2 -> 0 .. hi] /\ t[1] = 0 /\ t[2] = Warm
  BY <1>0
<1> HIDE DEF t
<1>3. Trail(t, lo, hi)
  <2>1. ambient = Warm
    BY DEF Init
  <2>2. QED BY <1>0, <1>1, <1>2, <2>1 DEF Trail
<1>4. Queued(0, lo, hi)
  BY DEF Init, Queued
<1>5. Following(0, lo, hi)
  BY DEF Init, Following, RoomOf, Reached, Applied, Behind
<1>6. OnTrail(lo, hi)
  BY <1>1, <1>2, <1>3, <1>4, <1>5 DEF OnTrail, Trail
<1>7. RelationsWait
  BY <1>1 DEF RelationsWait
<1>8. ThreadsWait /\ ReadsAreFresh /\ PendingOnce
  BY DEF Init, ThreadsWait, NoThread, NoCpuThread, ReadsAreFresh, Free, Nothing, PendingOnce
<1>9. NoFrost(lo, hi)
  <2>1. /\ ambient = Warm /\ \A r \in RoomThread : room[r] = 0
        /\ \A s \in Temperature : given[s] = 0 /\ \A k \in Key : thread[k].at = "none"
    BY DEF Init, NoThread
  <2>2. QED BY <1>0, <2>1 DEF NoFrost
<1>10. QED BY <1>6, <1>7, <1>8, <1>9, InitTypes DEF SInv

\* In a room whose temperatures stay within a factor of two, all sensors follow
\* the ambient temperature, however room threads, clients, iterations and the
\* threads that heat and cool interleave, for any sensors and relations and
\* any number of requests.
THEOREM AmbientIsFollowed == MildClimate => (Spec => []SensorsFollowAmbient)
<1> SUFFICES ASSUME NEW lo \in Nat, NEW hi \in Nat, Mild(lo, hi) PROVE Spec => []SensorsFollowAmbient
  BY DEF MildClimate
<1>1. Init => SInv(lo, hi)
  BY InitOnTrail
<1>2. SInv(lo, hi) /\ [Next]_vars => SInv(lo, hi)'
  BY NextKeepsSensors
<1>3. SInv(lo, hi) => SensorsFollowAmbient
  <2> SUFFICES ASSUME SInv(lo, hi), Quiet, NEW s \in Temperature PROVE value[s] = ambient + given[s]
    BY DEF SensorsFollowAmbient
  <2>1. news = <<>> /\ updates = <<>> /\ current = <<>> /\ pending = <<>>
    BY DEF Quiet, SInv, TInv, TypeOK
  <2>2. PICK t : Trail(t, lo, hi) /\ Following(t[1], lo, hi)
    BY DEF SInv, OnTrail
  <2>3. t[1] = ambient
    BY <2>1, <2>2 DEF Trail
  <2>4. RoomOf(s, t[1]) = t[1]
    BY <2>1 DEF RoomOf, Applied, Behind
  <2>5. QED BY <2>2, <2>3, <2>4 DEF Following
<1>4. QED BY <1>1, <1>2, <1>3, PTL DEF Spec
=============================================================================
