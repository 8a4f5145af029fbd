------------------------ MODULE PowerIterationProofs ------------------------
(***************************************************************************)
(* Proofs about PowerIteration for every power graph that satisfies        *)
(* TopologyAssumption, of any size, whatever the assets answer.            *)
(***************************************************************************)
EXTENDS PowerIteration, TLAPS

(* Branches are made with the current value of step, which then grows: a   *)
(* branch still active is older than any made now.                         *)
BranchesAreOlder == \A b \in voltActive \cup loadActive : b.born < step

(* Between two iterations nothing is tracked; before the first, nothing    *)
(* was announced.                                                          *)
IdleTrackers ==
  /\ ~running <=> (voltActive = {} /\ loadActive = {})
  /\ step = 0 => ~running /\ allVolt = 0 /\ allLoad = 0

PInv ==
  /\ TypeOK
  /\ BranchesAreOlder
  /\ IdleTrackers
  /\ EventsOwnTheirBranch
  /\ AnnouncedOnce

(* An event in the queue means an iteration is under way, and the branch   *)
(* it travels on is of its own kind.                                       *)
LEMMA PendingEvent ==
  ASSUME PInv, NEW e \in events
  PROVE  /\ running /\ step > 0 /\ allLoad = 0
         /\ e.asset \in Asset
         /\ e.kind \in {"volt", "reboot"} => e.branch \in voltActive
         /\ e.kind = "load" => e.branch \in loadActive
<1>1. e \in EventType
  BY DEF PInv, TypeOK
<1>2. e.branch \in voltActive \cup loadActive
  BY DEF PInv, EventsOwnTheirBranch
<1>3. e.branch.born \in Nat /\ step \in Nat /\ e.branch.born < step
  BY <1>2 DEF PInv, BranchesAreOlder, TypeOK, BranchType
<1>4. /\ \A b \in voltActive : b.kind = "volt"
      /\ \A b \in loadActive : b.kind = "load"
  BY DEF PInv, TypeOK, BranchType
<1>5. /\ e.kind \in {"volt", "reboot"} => e.branch.kind = "volt"
      /\ e.kind = "load" => e.branch.kind = "load"
      /\ e.asset \in Asset
  BY <1>1 DEF EventType, BranchType
<1>6. running
  BY <1>2 DEF PInv, IdleTrackers
<1>7. allLoad = 0
  BY <1>6 DEF PInv, AnnouncedOnce, TypeOK
<1>8. QED BY <1>2, <1>3, <1>4, <1>5, <1>6, <1>7

(* The events in fired each travel on a branch of their own.               *)
OwnBranches(fired, branches) ==
  /\ \A e \in fired : e.branch \in branches
  /\ \A e, f \in fired : e.branch = f.branch => e = f

(* Branches made at one step are of their kind, and their first events are *)
(* one to one with them.                                                   *)
LEMMA Made ==
  ASSUME NEW n \in Nat, NEW S \in SUBSET Asset, NEW kind \in {"volt", "load"}
  PROVE  /\ NewBranches(kind, S, n) \in SUBSET BranchType(kind)
         /\ \A b \in NewBranches(kind, S, n) : b.born = n
BY DEF NewBranches, BranchType

(* Each first event has a branch of its own.                               *)
LEMMA SrcEventsOwnBranches ==
  ASSUME NEW branches, NEW kind
  PROVE  OwnBranches(SrcEvents(kind, branches), branches)
<1>1. \A f \in SrcEvents(kind, branches) :
        f.branch \in branches /\ f = Event(kind, f.branch.head, f.branch)
  BY DEF SrcEvents, Event
<1>2. \A e, f \in SrcEvents(kind, branches) : e.branch = f.branch => e = f
  BY <1>1
<1>3. QED BY <1>1, <1>2 DEF OwnBranches

(* First events are events, and travel on the branches they were made for. *)
LEMMA SrcEventsType ==
  /\ \A branches \in SUBSET BranchType("volt"), kind \in {"volt", "reboot"} :
       SrcEvents(kind, branches) \in SUBSET EventType
  /\ \A branches \in SUBSET BranchType("load") :
       SrcEvents("load", branches) \in SUBSET EventType
<1>1. \A kind, a, b : \/ kind \in {"volt", "reboot"} /\ b \in BranchType("volt")
                      \/ kind = "load" /\ b \in BranchType("load")
                      => (a \in Asset => Event(kind, a, b) \in EventType)
  BY DEF Event, EventType
<1>2. \A kind : \A b \in BranchType(kind) : b.head \in Asset
  BY DEF BranchType
<1>3. QED BY <1>1, <1>2 DEF SrcEvents

(* The next events of an event: on its own branch if there is one          *)
(* neighbour, otherwise on one new branch each.                            *)
LEMMA NextEventsOwnBranches ==
  ASSUME step \in Nat, NEW S \in SUBSET Asset, NEW e \in EventType,
         e.kind \in {"volt", "load"}
  PROVE  /\ Forked(e.kind, S) \in SUBSET BranchType(e.kind)
         /\ \A b \in Forked(e.kind, S) : b.born = step
         /\ NextEvents(e, S) \in SUBSET EventType
         /\ \A f, g \in NextEvents(e, S) : f.branch = g.branch => f = g
         /\ \A f \in NextEvents(e, S) :
              f.branch \in IF Single(S) THEN {e.branch} ELSE Forked(e.kind, S)
<1>1. e.branch \in BranchType(e.kind)
  BY DEF EventType
<1>2. CASE Single(S)
  <2>1. PICK c \in S : S = {c}
    BY <1>2 DEF Single
  <2>2. NextEvents(e, S) = {Event(e.kind, c, e.branch)}
    BY <1>2, <2>1 DEF NextEvents
  <2>3. Event(e.kind, c, e.branch) \in EventType
    BY <1>1 DEF Event, EventType
  <2>4. Event(e.kind, c, e.branch).branch = e.branch
    BY DEF Event
  <2>5. QED
    BY <1>2, <2>2, <2>3, <2>4 DEF Forked
<1>3. CASE ~Single(S)
  <2>1. Forked(e.kind, S) = NewBranches(e.kind, S, step)
    BY <1>3 DEF Forked
  <2>2. NextEvents(e, S) = SrcEvents(e.kind, Forked(e.kind, S))
    BY <1>3 DEF NextEvents
  <2>3. /\ Forked(e.kind, S) \in SUBSET BranchType(e.kind)
        /\ \A b \in Forked(e.kind, S) : b.born = step
    BY <2>1, Made
  <2>4. QED
    BY <1>3, <2>2, <2>3, SrcEventsType, SrcEventsOwnBranches DEF OwnBranches
<1>4. QED BY <1>2, <1>3

(* The specification starts in an invariant state.                         *)
LEMMA InitPInv == Init => PInv
<1> SUFFICES ASSUME Init PROVE PInv
  OBVIOUS
<1> USE DEF Init
<1>1. TypeOK
  BY DEF TypeOK
<1>2. BranchesAreOlder /\ EventsOwnTheirBranch
  BY DEF BranchesAreOlder, EventsOwnTheirBranch
<1>3. IdleTrackers
  BY DEF IdleTrackers
<1>4. AnnouncedOnce
  BY DEF AnnouncedOnce
<1>5. QED BY <1>1, <1>2, <1>3, <1>4 DEF PInv

-----------------------------------------------------------------------------
(* What _chain_power_events() leaves behind when nothing was announced yet *)
(* and process_power_event() left consistent trackers.                     *)
LEMMA ChainPowerKeeps ==
  ASSUME NEW volt \in SUBSET BranchType("volt"),
         NEW load \in SUBSET BranchType("load"),
         NEW fired \in SUBSET EventType,
         ChainPower(volt, load, fired, 0, 0),
         OwnBranches(fired, volt \cup load),
         step' \in Nat, step' > 0,
         \A b \in volt \cup load : b.born < step'
  PROVE  PInv'
<1> USE DEF ChainPower
<1>1. TypeOK'
  <2>1. running' \in BOOLEAN
    OBVIOUS
  <2>2. allVolt' \in Nat /\ allLoad' \in Nat
    OBVIOUS
  <2>3. QED BY <2>1, <2>2 DEF TypeOK
<1>2. BranchesAreOlder'
  BY DEF BranchesAreOlder
<1>3. IdleTrackers'
  BY DEF IdleTrackers
<1>4. AnnouncedOnce'
  <2>1. allVolt' = IF volt = {} THEN 1 ELSE 0
    OBVIOUS
  <2>2. allLoad' = IF volt = {} /\ load = {} THEN 1 ELSE 0
    OBVIOUS
  <2>3. ~running' <=> (volt = {} /\ load = {})
    OBVIOUS
  <2>4. QED BY <2>1, <2>2, <2>3 DEF AnnouncedOnce
<1>5. EventsOwnTheirBranch'
  BY DEF EventsOwnTheirBranch, OwnBranches
<1>6. QED BY <1>1, <1>2, <1>3, <1>4, <1>5 DEF PInv

(* Whatever launches it, an iteration begins with consistent trackers.     *)
LEMMA LaunchStep ==
  ASSUME NEW kind \in {"volt", "reboot"}, NEW S \in SUBSET Asset,
         Launch(kind, S)
  PROVE  PInv'
<1> DEFINE branches == NewBranches("volt", S, 0)
<1>1. step' = 1 /\ ChainPower(branches, {}, SrcEvents(kind, branches), 0, 0)
  BY DEF Launch
<1>2. branches \in SUBSET BranchType("volt") /\ \A b \in branches : b.born = 0
  BY Made
<1> HIDE DEF branches
<1>3. SrcEvents(kind, branches) \in SUBSET EventType
  BY <1>2, SrcEventsType
<1>4. OwnBranches(SrcEvents(kind, branches), branches \cup {})
  BY SrcEventsOwnBranches
<1>5. QED
  BY <1>1, <1>2, <1>3, <1>4, ChainPowerKeeps

-----------------------------------------------------------------------------
(* A handled voltage, button or signal event hands its branch on, forks it *)
(* or ends it, and adds load branches: trackers stay consistent.           *)
LEMMA PowerEventSuccessStep ==
  ASSUME PInv, NEW e \in events, NEW changed \in BOOLEAN,
         NEW loadTo \in SUBSET Parents[e.asset],
         PowerEventSuccess(e, changed, loadTo)
  PROVE  PInv'
<1> DEFINE below == IF changed THEN Children(e.asset) ELSE {}
           stay == IF Single(below) THEN voltActive
                   ELSE voltActive \ {e.branch}
           forks == Forked("volt", below)
           loads == NewBranches("load", loadTo, step)
           fired == (events \ {e}) \cup NextEvents(e, below)
                      \cup SrcEvents("load", loads)
<1>1. /\ e.kind = "volt"
      /\ ChainPower(stay \cup forks, loadActive \cup loads, fired,
                    allVolt, allLoad)
      /\ Tick(forks \cup loads)
  BY DEF PowerEventSuccess
<1>2. /\ step \in Nat /\ step > 0 /\ e \in EventType /\ e.asset \in Asset
      /\ e.branch \in voltActive /\ allLoad = 0 /\ allVolt = 0
  BY <1>1, PendingEvent DEF PInv, TypeOK, AnnouncedOnce
<1>3. below \in SUBSET Asset /\ loadTo \in SUBSET Asset
  BY <1>2, TopologyAssumption DEF Children
<1>4. /\ forks \in SUBSET BranchType("volt")
      /\ \A b \in forks : b.born = step
      /\ NextEvents(e, below) \in SUBSET EventType
      /\ \A f, g \in NextEvents(e, below) : f.branch = g.branch => f = g
      /\ \A f \in NextEvents(e, below) :
           f.branch \in IF Single(below) THEN {e.branch} ELSE forks
  BY <1>1, <1>2, <1>3, NextEventsOwnBranches
<1>5. /\ loads \in SUBSET BranchType("load")
      /\ \A b \in loads : b.born = step
      /\ SrcEvents("load", loads) \in SUBSET EventType
      /\ OwnBranches(SrcEvents("load", loads), loads)
  BY <1>2, <1>3, Made, SrcEventsType, SrcEventsOwnBranches
<1>6. \A b \in voltActive \cup loadActive : b.born < step
  BY DEF PInv, BranchesAreOlder
<1>7. step' \in Nat /\ step' > 0 /\ step' >= step
      /\ (forks \cup loads # {} => step' = step + 1)
  BY <1>1, <1>2 DEF Tick
<1>8. /\ stay \in SUBSET BranchType("volt") /\ stay \subseteq voltActive
      /\ loadActive \in SUBSET BranchType("load")
      /\ events \in SUBSET EventType
  BY DEF PInv, TypeOK
<1>9. OwnBranches(events \ {e}, (voltActive \cup loadActive) \ {e.branch})
  BY DEF PInv, EventsOwnTheirBranch, OwnBranches
<1>10. \A b \in (stay \cup forks) \cup (loadActive \cup loads) : b.born < step'
  <2>1. ASSUME NEW b \in voltActive \cup loadActive PROVE b.born < step'
    BY <1>2, <1>6, <1>7 DEF PInv, TypeOK, BranchType
  <2>2. ASSUME NEW b \in forks \cup loads PROVE b.born < step'
    BY <1>2, <1>4, <1>5, <1>7
  <2>3. QED BY <1>8, <2>1, <2>2
<1>11. OwnBranches(fired, (stay \cup forks) \cup (loadActive \cup loads))
  <2>1. \A f \in NextEvents(e, below), g \in SrcEvents("load", loads) :
          f.branch # g.branch
    <3>1. ~ \E b : b \in BranchType("volt") /\ b \in BranchType("load")
      BY DEF BranchType
    <3>2. e.branch \in BranchType("volt")
      BY <1>2 DEF PInv, TypeOK
    <3>3. QED BY <1>4, <1>5, <3>1, <3>2 DEF OwnBranches
  <2>2. \A f \in events \ {e}, g \in NextEvents(e, below) : f.branch # g.branch
    BY <1>2, <1>4, <1>6, <1>9 DEF OwnBranches
  <2>3. \A f \in events \ {e}, g \in SrcEvents("load", loads) :
          f.branch # g.branch
    BY <1>2, <1>5, <1>6, <1>9 DEF OwnBranches
  <2>4. \A f \in fired : f.branch \in (stay \cup forks) \cup (loadActive \cup loads)
    BY <1>2, <1>4, <1>5, <1>9 DEF OwnBranches
  <2>5. \A f, g \in fired : f.branch = g.branch => f = g
    BY <1>4, <1>5, <1>9, <2>1, <2>2, <2>3 DEF OwnBranches
  <2>6. QED BY <2>4, <2>5 DEF OwnBranches
<1> HIDE DEF below, stay, forks, loads
<1>12. QED
  BY <1>1, <1>2, <1>4, <1>5, <1>7, <1>8, <1>10, <1>11, ChainPowerKeeps

-----------------------------------------------------------------------------
(* A handled load event goes on to the parent, or ends at the top.         *)
LEMMA LoadEventSuccessStep ==
  ASSUME PInv, NEW e \in events, LoadEventSuccess(e)
  PROVE  PInv'
<1> DEFINE above == Parents[e.asset]
           stay == IF above = {} THEN loadActive \ {e.branch} ELSE loadActive
           forks == Forked("load", above)
           fired == (events \ {e}) \cup NextEvents(e, above)
<1>1. e.kind = "load" /\ ChainLoad(stay \cup forks, fired) /\ Tick(forks)
  BY DEF LoadEventSuccess
<1>2. /\ step \in Nat /\ step > 0 /\ e \in EventType /\ e.asset \in Asset
      /\ e.branch \in loadActive /\ allLoad = 0 /\ running
  BY <1>1, PendingEvent DEF PInv, TypeOK
<1>3. above \in SUBSET Asset
  BY <1>2, TopologyAssumption
<1>4. /\ forks \in SUBSET BranchType("load")
      /\ \A b \in forks : b.born = step
      /\ NextEvents(e, above) \in SUBSET EventType
      /\ \A f, g \in NextEvents(e, above) : f.branch = g.branch => f = g
      /\ \A f \in NextEvents(e, above) :
           f.branch \in IF Single(above) THEN {e.branch} ELSE forks
  BY <1>1, <1>2, <1>3, NextEventsOwnBranches
<1>5. \A b \in voltActive \cup loadActive : b.born < step
  BY DEF PInv, BranchesAreOlder
<1>6. step' \in Nat /\ step' > 0 /\ step' >= step
      /\ (forks # {} => step' = step + 1)
  BY <1>1, <1>2 DEF Tick
<1>7. stay \subseteq loadActive /\ loadActive \in SUBSET BranchType("load")
  BY DEF PInv, TypeOK
<1>8. above = {} => NextEvents(e, above) = {}
  BY DEF NextEvents, Forked, SrcEvents, NewBranches
<1>9. OwnBranches(events \ {e}, (voltActive \cup loadActive) \ {e.branch})
  BY DEF PInv, EventsOwnTheirBranch, OwnBranches
<1>10. TypeOK'
  <2>1. /\ voltActive' \in SUBSET BranchType("volt")
        /\ loadActive' \in SUBSET BranchType("load")
        /\ events' \in SUBSET EventType
    BY <1>1, <1>4, <1>7 DEF ChainLoad, PInv, TypeOK
  <2>2. running' \in BOOLEAN
    BY <1>1 DEF ChainLoad, PInv, TypeOK
  <2>3. allVolt' \in Nat /\ allLoad' \in Nat
    BY <1>1 DEF ChainLoad, PInv, TypeOK
  <2>4. QED BY <1>6, <2>1, <2>2, <2>3 DEF TypeOK
<1>11. BranchesAreOlder'
  <2>1. ASSUME NEW b \in voltActive \cup loadActive PROVE b.born < step'
    BY <1>2, <1>5, <1>6 DEF PInv, TypeOK, BranchType
  <2>2. ASSUME NEW b \in forks PROVE b.born < step'
    BY <1>2, <1>4, <1>6
  <2>3. QED BY <1>1, <1>7, <2>1, <2>2 DEF ChainLoad, BranchesAreOlder
<1> HIDE DEF stay, forks
<1> DEFINE over == voltActive' = {} /\ loadActive' = {}
<1>over. /\ over => allLoad' = allLoad + 1 /\ ~running'
         /\ ~over => allLoad' = allLoad /\ running'
  <2>1. voltActive' = voltActive /\ loadActive' = stay \cup forks
    BY <1>1 DEF ChainLoad
  <2>2. CASE voltActive = {} /\ stay \cup forks = {}
    BY <1>1, <2>1, <2>2 DEF ChainLoad
  <2>3. CASE ~(voltActive = {} /\ stay \cup forks = {})
    BY <1>1, <1>2, <2>1, <2>3 DEF ChainLoad
  <2>4. QED BY <2>2, <2>3
<1>12. IdleTrackers'
  BY <1>6, <1>over DEF IdleTrackers
<1>13. AnnouncedOnce'
  <2>1. voltActive' = voltActive /\ allVolt' = allVolt
    BY <1>1 DEF ChainLoad
  <2>2. (allVolt = 1 <=> voltActive = {}) /\ allVolt <= 1
    BY <1>2 DEF PInv, AnnouncedOnce
  <2>3. (allLoad' = 1 <=> ~running') /\ allLoad' <= 1
    BY <1>2, <1>over
  <2>4. QED BY <1>6, <2>1, <2>2, <2>3 DEF AnnouncedOnce
<1>14. EventsOwnTheirBranch'
  <2>1. \A f \in events \ {e}, g \in NextEvents(e, above) : f.branch # g.branch
    BY <1>2, <1>4, <1>5, <1>9 DEF OwnBranches
  <2>2. \A f \in fired : f.branch \in voltActive \cup (stay \cup forks)
    BY <1>2, <1>4, <1>8, <1>9 DEF OwnBranches, stay
  <2>3. \A f, g \in fired : f.branch = g.branch => f = g
    BY <1>4, <1>9, <2>1 DEF OwnBranches
  <2>4. QED BY <1>1, <2>2, <2>3 DEF ChainLoad, EventsOwnTheirBranch
<1>15. QED BY <1>10, <1>11, <1>12, <1>13, <1>14 DEF PInv

(* An event that is not answered leaves its branch behind; the rest agrees. *)
LEMMA NoSuccessStep ==
  ASSUME PInv, NEW e \in events, NoSuccess(e)
  PROVE  PInv'
<1> USE DEF NoSuccess
<1>1. TypeOK'
  BY DEF PInv, TypeOK
<1>2. BranchesAreOlder' /\ EventsOwnTheirBranch'
  BY DEF PInv, BranchesAreOlder, EventsOwnTheirBranch
<1>3. IdleTrackers' /\ AnnouncedOnce'
  BY DEF PInv, IdleTrackers, AnnouncedOnce
<1>4. QED BY <1>1, <1>2, <1>3 DEF PInv

(* Every step keeps the trackers and the events in flight consistent.      *)
LEMMA NextPInv == PInv /\ [Next]_vars => PInv'
<1> SUFFICES ASSUME PInv, [Next]_vars PROVE PInv'
  OBVIOUS
<1>1. CASE Request
  <2>1. PICK kind \in {"volt", "reboot"}, S \in SUBSET Asset : Launch(kind, S)
    BY <1>1, TopologyAssumption
       DEF Request, LaunchWallpower, LaunchAsset, LaunchReboot
  <2>2. QED BY <2>1, LaunchStep
<1>2. CASE HandleEvent
  BY <1>2, PowerEventSuccessStep, LoadEventSuccessStep, NoSuccessStep
     DEF HandleEvent
<1>3. CASE UNCHANGED vars
  BY <1>3 DEF vars, PInv, TypeOK, BranchesAreOlder, IdleTrackers,
     EventsOwnTheirBranch, AnnouncedOnce
<1>4. QED BY <1>1, <1>2, <1>3 DEF Next

-----------------------------------------------------------------------------
(* The invariant holds in every reachable state, even when handlers raise. *)
THEOREM PowerInvariant == Spec => []PInv
BY InitPInv, NextPInv, PTL DEF Spec

(* The variables of an iteration always hold values of their kinds.        *)
THEOREM PowerTypeCorrect == Spec => []TypeOK
<1>1. PInv => TypeOK
  BY DEF PInv
<1>2. QED BY <1>1, PowerInvariant, PTL

(* A success callback only completes a branch that is in the tracker, and   *)
(* ends it for no other event: complete_branch() never raises.              *)
THEOREM BranchesAreOwned == Spec => []EventsOwnTheirBranch
<1>1. PInv => EventsOwnTheirBranch
  BY DEF PInv
<1>2. QED BY <1>1, PowerInvariant, PTL

(* The engine never lets the worker through while events are pending.      *)
THEOREM DoneMeansQuiet == Spec => []QuietWhenDone
<1>1. PInv => QuietWhenDone
  BY DEF PInv, QuietWhenDone, IdleTrackers, EventsOwnTheirBranch
<1>2. QED BY <1>1, PowerInvariant, PTL

(* Clients are told of each completion exactly once per iteration.         *)
THEOREM CompletionIsAnnouncedOnce == Spec => []AnnouncedOnce
<1>1. PInv => AnnouncedOnce
  BY DEF PInv
<1>2. QED BY <1>1, PowerInvariant, PTL

-----------------------------------------------------------------------------
(* Branches are only left behind by events that are not answered. Where    *)
(* every handler answers, load events are fired at assets that power       *)
(* another, and those have at most one parent: load never forks.           *)
Answered == Rebootable = {} /\ Raising = {}

HubsOnly ==
  \A e \in events :
    /\ e.kind # "reboot"
    /\ e.kind = "load" => Children(e.asset) # {}

AInv == PInv /\ NoBranchIsAbandoned /\ HubsOnly

(* Every branch just made has its first event, which is fired at its head.  *)
LEMMA SrcEventsCover ==
  ASSUME NEW branches, NEW kind
  PROVE  /\ \A b \in branches :
              \E f \in SrcEvents(kind, branches) : f.branch = b
         /\ \A f \in SrcEvents(kind, branches) :
              f.kind = kind /\ f.asset = f.branch.head
<1>1. ASSUME NEW b \in branches
      PROVE  \E f \in SrcEvents(kind, branches) : f.branch = b
  <2>1. Event(kind, b.head, b) \in SrcEvents(kind, branches)
    BY DEF SrcEvents
  <2>2. Event(kind, b.head, b).branch = b
    BY DEF Event
  <2>3. QED BY <2>1, <2>2
<1>2. ASSUME NEW f \in SrcEvents(kind, branches)
      PROVE  f.kind = kind /\ f.asset = f.branch.head
  BY DEF SrcEvents, Event
<1>3. QED BY <1>1, <1>2

(* What follows a forwarded event covers every branch it continues or      *)
(* forks: each has an event in flight.                                     *)
LEMMA NextEventsCover ==
  ASSUME NEW e \in events, NEW S
  PROVE  /\ Single(S) => \E f \in NextEvents(e, S) : f.branch = e.branch
         /\ \A b \in Forked(e.kind, S) :
              \E f \in NextEvents(e, S) : f.branch = b
         /\ \A f \in NextEvents(e, S) : f.kind = e.kind /\ f.asset \in S
<1>1. CASE Single(S)
  <2>1. PICK c \in S : S = {c}
    BY <1>1 DEF Single
  <2>2. NextEvents(e, S) = {Event(e.kind, c, e.branch)}
    BY <1>1, <2>1 DEF NextEvents
  <2>3. /\ Event(e.kind, c, e.branch).branch = e.branch
        /\ Event(e.kind, c, e.branch).kind = e.kind
        /\ Event(e.kind, c, e.branch).asset = c
    BY DEF Event
  <2>4. Forked(e.kind, S) = {}
    BY <1>1 DEF Forked
  <2>5. QED BY <2>1, <2>2, <2>3, <2>4
<1>2. CASE ~Single(S)
  <2>1. NextEvents(e, S) = SrcEvents(e.kind, NewBranches(e.kind, S, step))
    BY <1>2 DEF NextEvents, Forked
  <2>2. Forked(e.kind, S) = NewBranches(e.kind, S, step)
    BY <1>2 DEF Forked
  <2>3. \A b \in NewBranches(e.kind, S, step) : b.head \in S
    BY DEF NewBranches
  <2>4. \A f \in NextEvents(e, S) : f.branch \in NewBranches(e.kind, S, step)
    BY <2>1, SrcEventsOwnBranches DEF OwnBranches
  <2>5. \A b \in Forked(e.kind, S) :
          \E f \in NextEvents(e, S) : f.branch = b
    BY <2>1, <2>2, SrcEventsCover
  <2>6. \A f \in NextEvents(e, S) : f.kind = e.kind /\ f.asset \in S
    BY <2>1, <2>3, <2>4, SrcEventsCover
  <2>7. QED BY <1>2, <2>5, <2>6
<1>3. QED BY <1>1, <1>2

(* A handled power event leaves no open branch without its event.          *)
LEMMA PowerEventCovers ==
  ASSUME AInv, NEW e \in events, NEW changed \in BOOLEAN,
         NEW loadTo \in SUBSET Parents[e.asset],
         PowerEventSuccess(e, changed, loadTo)
  PROVE  NoBranchIsAbandoned' /\ HubsOnly'
<1> DEFINE below == IF changed THEN Children(e.asset) ELSE {}
           stay == IF Single(below) THEN voltActive
                   ELSE voltActive \ {e.branch}
           forks == Forked("volt", below)
           loads == NewBranches("load", loadTo, step)
           fired == (events \ {e}) \cup NextEvents(e, below)
                      \cup SrcEvents("load", loads)
<1>1. /\ e.kind = "volt" /\ voltActive' = stay \cup forks
      /\ loadActive' = loadActive \cup loads /\ events' = fired
  BY DEF PowerEventSuccess, ChainPower
<1>2. e.asset \in Asset /\ e.branch \notin loadActive
  BY <1>1, PendingEvent DEF AInv, PInv, TypeOK, BranchType
<1>3. \A b \in voltActive \cup loadActive : \E f \in events : f.branch = b
  BY DEF AInv, NoBranchIsAbandoned
<1>4. \A b \in forks \cup loads : \E f \in fired : f.branch = b
  <2>1. \A b \in forks : \E f \in NextEvents(e, below) : f.branch = b
    BY <1>1, NextEventsCover
  <2>2. \A b \in loads : \E f \in SrcEvents("load", loads) : f.branch = b
    BY SrcEventsCover
  <2>3. QED BY <2>1, <2>2
<1>5. ASSUME NEW b \in stay \cup loadActive
      PROVE  \E f \in fired : f.branch = b
  <2>1. CASE b = e.branch
    BY <1>2, <1>5, <2>1, NextEventsCover
  <2>2. CASE b # e.branch
    BY <1>3, <1>5, <2>2
  <2>3. QED BY <2>1, <2>2
<1>6. NoBranchIsAbandoned'
  BY <1>1, <1>4, <1>5 DEF NoBranchIsAbandoned
<1>7. \A f \in SrcEvents("load", loads) : f.kind = "load" /\ f.asset \in loadTo
  <2>1. \A f \in SrcEvents("load", loads) : f.branch \in loads
    BY SrcEventsOwnBranches DEF OwnBranches
  <2>2. \A b \in loads : b.head \in loadTo
    BY DEF NewBranches
  <2>3. QED BY <2>1, <2>2, SrcEventsCover
<1>8. \A p \in loadTo : Children(p) # {}
  BY <1>2 DEF Children
<1>9. HubsOnly'
  BY <1>1, <1>7, <1>8, NextEventsCover DEF AInv, HubsOnly
<1>10. QED BY <1>6, <1>9

(* A handled load event leaves no open branch without its event.           *)
LEMMA LoadEventCovers ==
  ASSUME AInv, NEW e \in events, LoadEventSuccess(e)
  PROVE  NoBranchIsAbandoned' /\ HubsOnly'
<1> DEFINE above == Parents[e.asset]
           stay == IF above = {} THEN loadActive \ {e.branch} ELSE loadActive
           forks == Forked("load", above)
           fired == (events \ {e}) \cup NextEvents(e, above)
<1>1. /\ e.kind = "load" /\ voltActive' = voltActive
      /\ loadActive' = stay \cup forks /\ events' = fired
  BY DEF LoadEventSuccess, ChainLoad
<1>2. e.asset \in Asset /\ e.branch \notin voltActive
  BY <1>1, PendingEvent DEF AInv, PInv, TypeOK, BranchType
<1>3. \A b \in voltActive \cup loadActive : \E f \in events : f.branch = b
  BY DEF AInv, NoBranchIsAbandoned
<1>4. above = {} \/ Single(above)
  BY <1>1, <1>2, TopologyAssumption DEF AInv, HubsOnly
<1>5. \A b \in forks : \E f \in fired : f.branch = b
  BY <1>1, NextEventsCover
<1>6. ASSUME NEW b \in voltActive \cup stay
      PROVE  \E f \in fired : f.branch = b
  <2>1. CASE b = e.branch
    BY <1>2, <1>4, <1>6, <2>1, NextEventsCover
  <2>2. CASE b # e.branch
    BY <1>3, <1>6, <2>2
  <2>3. QED BY <2>1, <2>2
<1>7. NoBranchIsAbandoned'
  BY <1>1, <1>5, <1>6 DEF NoBranchIsAbandoned
<1>8. \A p \in above : p \in Asset /\ Children(p) # {}
  BY <1>2, TopologyAssumption DEF Children
<1>9. HubsOnly'
  BY <1>1, <1>8, NextEventsCover DEF AInv, HubsOnly
<1>10. QED BY <1>7, <1>9

(* When every event is answered, every step keeps an event for each open   *)
(* branch.                                                                 *)
LEMMA NextAInv ==
  ASSUME Answered, AInv, [Next]_vars
  PROVE  AInv'
<1>1. PInv'
  BY NextPInv DEF AInv
<1>2. CASE Request
  <2>1. PICK S \in SUBSET Asset : Launch("volt", S)
    BY <1>2, TopologyAssumption
       DEF Request, LaunchWallpower, LaunchAsset, LaunchReboot, Answered
  <2> DEFINE branches == NewBranches("volt", S, 0)
  <2>2. /\ voltActive' = branches /\ loadActive' = {}
        /\ events' = SrcEvents("volt", branches)
    BY <2>1 DEF Launch, ChainPower
  <2>3. NoBranchIsAbandoned' /\ HubsOnly'
    BY <2>2, SrcEventsCover DEF NoBranchIsAbandoned, HubsOnly
  <2>4. QED BY <1>1, <2>3 DEF AInv
<1>3. CASE HandleEvent
  <2>1. \A e \in events : ~NoSuccess(e)
    BY DEF AInv, HubsOnly, NoSuccess, Answered
  <2>2. NoBranchIsAbandoned' /\ HubsOnly'
    BY <1>3, <2>1, PowerEventCovers, LoadEventCovers DEF HandleEvent
  <2>3. QED BY <1>1, <2>2 DEF AInv
<1>4. CASE UNCHANGED vars
  BY <1>1, <1>4 DEF vars, AInv, NoBranchIsAbandoned, HubsOnly
<1>5. QED BY <1>2, <1>3, <1>4 DEF Next

(* Where every handler answers, no branch is left without the event that   *)
(* will end it still in flight.                                            *)
THEOREM NothingIsAbandoned == Answered => (Spec => []NoBranchIsAbandoned)
<1> SUFFICES ASSUME Answered PROVE Spec => []NoBranchIsAbandoned
  OBVIOUS
<1>1. Init => AInv
  BY InitPInv DEF Init, AInv, NoBranchIsAbandoned, HubsOnly
<1>2. AInv /\ [Next]_vars => AInv'
  BY NextAInv
<1>3. AInv => NoBranchIsAbandoned
  BY DEF AInv
<1>4. QED BY <1>1, <1>2, <1>3, PTL DEF Spec

-----------------------------------------------------------------------------
(* Voltage travels as a front over a graph without a cycle.                *)
Acyclic == \A a \in Asset : a \notin Above[a]

Volt(E) == {e \in E : e.kind = "volt"}

(* Nor are there two voltage events for an asset with one feed or none.    *)
OneEach(E) ==
  \A e, f \in Volt(E) :
    e.asset = f.asset /\ (Single(Parents[e.asset]) \/ Parents[e.asset] = {}) => e = f

Front(E) ==
  \A e, f \in Volt(E) : Single(Parents[e.asset]) => f.asset \notin Above[e.asset]

FInv == TypeOK /\ Front(events) /\ OneEach(events)

(* What powers an only feed, and that feed, are all an asset is powered    *)
(* through; the sources of what it is powered through are among these.     *)
LEMMA AboveOnlyFeed ==
  ASSUME NEW c \in Asset, NEW p \in Asset, Parents[c] = {p}
  PROVE  /\ p \in Above[c]
         /\ \A u \in Above[c] : u = p \/ u \in Above[p]
<1>0. Parents \in [Asset -> SUBSET Asset]
  BY TopologyAssumption
<1>1. p \in Above[c]
  BY DEF Above
<1>2. ASSUME NEW u \in Above[c], u # p
      PROVE  u \in Above[p]
  <2>0. u \in Asset
    BY DEF Above
  <2> SUFFICES ASSUME NEW S \in SUBSET Asset, Parents[p] \subseteq S,
                      \A s \in S : Parents[s] \subseteq S
               PROVE  u \in S
    BY <2>0 DEF Above
  <2> DEFINE T == S \cup {p}
  <2>1. T \in SUBSET Asset /\ Parents[c] \subseteq T /\ \A s \in T : Parents[s] \subseteq T
    OBVIOUS
  <2>2. u \in T
    BY <2>1 DEF Above
  <2>3. QED BY <1>2, <2>2
<1>3. QED BY <1>1, <1>2

\* What is above an asset's source is above the asset.
LEMMA AboveSources ==
  ASSUME NEW x \in Asset, NEW c \in Above[x], NEW p \in Parents[c]
  PROVE  c \in Asset /\ p \in Above[x]
<1>1. c \in Asset /\ Parents[c] \subseteq Asset
  BY TopologyAssumption DEF Above
<1>2. QED BY <1>1 DEF Above

\* An asset with no source has nothing above it.
LEMMA AboveNothing ==
  ASSUME NEW a \in Asset, Parents[a] = {}
  PROVE  Above[a] = {}
<1>1. ASSUME NEW u \in Above[a] PROVE FALSE
  <2>1. \A S \in SUBSET Asset :
          (Parents[a] \subseteq S /\ \A s \in S : Parents[s] \subseteq S) => u \in S
    BY <1>1 DEF Above
  <2>2. {} \in SUBSET Asset /\ Parents[a] \subseteq {}
    OBVIOUS
  <2>3. QED BY <2>1, <2>2
<1>2. QED BY <1>1

(* First events and next events are one for each asset they are meant for. *)
LEMMA OneEventEach ==
  ASSUME NEW S, NEW n, NEW kind
  PROVE  \A f, g \in SrcEvents(kind, NewBranches(kind, S, n)) :
           /\ f.kind = kind /\ f.asset \in S
           /\ f.asset = g.asset => f = g
<1> DEFINE branches == NewBranches(kind, S, n)
<1>1. \A b \in branches : b.head \in S /\ b = [kind |-> kind, head |-> b.head, born |-> n]
  BY DEF NewBranches
<1>2. \A f \in SrcEvents(kind, branches) :
        /\ f.branch \in branches /\ f.kind = kind /\ f.asset = f.branch.head
        /\ f = Event(kind, f.branch.head, f.branch)
  BY DEF SrcEvents, Event
<1>3. QED BY <1>1, <1>2

\* The next events go to different assets, one each.
LEMMA NextEventEach ==
  ASSUME NEW e \in events, NEW S
  PROVE  \A f, g \in NextEvents(e, S) :
           /\ f.kind = e.kind /\ f.asset \in S
           /\ f.asset = g.asset => f = g
<1>1. CASE Single(S)
  <2>1. PICK c \in S : S = {c}
    BY <1>1 DEF Single
  <2>2. NextEvents(e, S) = {Event(e.kind, c, e.branch)}
    BY <1>1, <2>1 DEF NextEvents
  <2>3. QED BY <2>1, <2>2 DEF Event
<1>2. CASE ~Single(S)
  BY <1>2, OneEventEach DEF NextEvents, Forked
<1>3. QED BY <1>1, <1>2

(* The events of a changed output voltage move the front on: one feed is   *)
(* replaced by what it feeds.                                              *)
LEMMA PowerEventFront ==
  ASSUME Acyclic, FInv, NEW e \in events, NEW changed \in BOOLEAN,
         NEW loadTo \in SUBSET Parents[e.asset],
         PowerEventSuccess(e, changed, loadTo)
  PROVE  Front(events') /\ OneEach(events')
<1> DEFINE p == e.asset
           below == IF changed THEN Children(p) ELSE {}
           next == NextEvents(e, below)
           left == events \ {e}
<1>1. /\ e.kind = "volt" /\ e \in Volt(events)
      /\ events' = left \cup next
           \cup SrcEvents("load", NewBranches("load", loadTo, step))
  BY DEF PowerEventSuccess, ChainPower, Volt
<1>2. p \in Asset /\ \A f \in events : f.asset \in Asset
  BY DEF FInv, TypeOK, EventType
<1>3. Volt(events') = Volt(left) \cup next
  BY <1>1, OneEventEach, NextEventEach DEF Volt
<1>4. ASSUME NEW c \in below
      PROVE  /\ c \in Asset /\ p \in Parents[c]
             /\ Single(Parents[c]) => Parents[c] = {p}
             /\ Parents[p] = {} \/ Single(Parents[p])
  BY <1>2, <1>4, TopologyAssumption DEF Children, Single
<1>5. \A f \in next : f.asset \in below
  BY NextEventEach
<1>6. Volt(left) \subseteq Volt(events) /\ e \notin Volt(left)
  BY DEF Volt
<1>7. ASSUME NEW f \in next, NEW g \in Volt(left), Single(Parents[f.asset])
      PROVE  g.asset \notin Above[f.asset]
  <2>1. /\ f.asset \in Asset /\ Parents[f.asset] = {p}
        /\ Parents[p] = {} \/ Single(Parents[p])
    BY <1>4, <1>5, <1>7
  <2>2. g.asset # p
    BY <1>1, <1>6, <2>1 DEF FInv, OneEach
  <2>3. g.asset \notin Above[p]
    BY <1>1, <1>2, <1>6, <2>1, AboveNothing DEF FInv, Front
  <2>4. QED BY <1>2, <2>1, <2>2, <2>3, AboveOnlyFeed
<1>8. ASSUME NEW f \in next, NEW g \in Volt(left), Single(Parents[g.asset])
      PROVE  f.asset \notin Above[g.asset]
  <2>1. g.asset \in Asset
    BY <1>2, <1>6 DEF Volt
  <2>2. p \notin Above[g.asset]
    BY <1>1, <1>6, <1>8 DEF FInv, Front
  <2>3. QED BY <1>4, <1>5, <2>1, <2>2, AboveSources
<1>9. ASSUME NEW f \in next, NEW g \in next, Single(Parents[f.asset])
      PROVE  g.asset \notin Above[f.asset]
  <2>1. f.asset \in Asset /\ Parents[f.asset] = {p} /\ p \in Parents[g.asset]
    BY <1>4, <1>5, <1>9
  <2>2. p \notin Above[p] /\ g.asset # p
    BY <1>2, <2>1, <1>4, <1>5, AboveOnlyFeed DEF Acyclic, Single
  <2>3. g.asset \notin Above[p]
    BY <1>2, <2>1, <2>2, AboveSources
  <2>4. QED BY <1>2, <2>1, <2>2, <2>3, AboveOnlyFeed
<1>10. Front(events')
  BY <1>3, <1>6, <1>7, <1>8, <1>9 DEF FInv, Front
<1>11. ASSUME NEW f \in next, NEW g \in Volt(left), f.asset = g.asset,
              Single(Parents[f.asset]) \/ Parents[f.asset] = {}
       PROVE  FALSE
  <2>1. f.asset \in Asset /\ Parents[f.asset] = {p}
    BY <1>4, <1>5, <1>11
  <2>2. p \in Above[g.asset] /\ Single(Parents[g.asset])
    BY <1>2, <1>11, <2>1, AboveOnlyFeed DEF Single
  <2>3. QED BY <1>1, <1>6, <2>2 DEF FInv, Front
<1>12. OneEach(events')
  <2>1. \A f, g \in next : f.asset = g.asset => f = g
    BY NextEventEach
  <2>2. \A f, g \in Volt(left) :
          f.asset = g.asset /\ (Single(Parents[f.asset]) \/ Parents[f.asset] = {}) => f = g
    BY <1>6 DEF FInv, OneEach
  <2>3. QED BY <1>3, <1>11, <2>1, <2>2 DEF OneEach
<1>13. QED BY <1>10, <1>12

(* Events that only go away, or are no voltage events, leave the front.    *)
LEMMA FrontOfFewer ==
  ASSUME NEW E, NEW F, Volt(F) \subseteq Volt(E), Front(E), OneEach(E)
  PROVE  Front(F) /\ OneEach(F)
BY DEF Front, OneEach

\* The front stays a front: FInv holds after every step.
LEMMA NextFInv ==
  ASSUME Acyclic, PInv, FInv, [Next]_vars
  PROVE  FInv'
<1>1. TypeOK'
  BY NextPInv DEF PInv
<1>2. CASE Request
  <2>1. \/ \E a \in Asset, kind \in {"volt", "reboot"} : Launch(kind, {a})
        \/ Launch("volt", Mains)
    BY <1>2 DEF Request, LaunchWallpower, LaunchAsset, LaunchReboot
  <2>2. CASE Launch("volt", Mains)
    <3>1. events' = SrcEvents("volt", NewBranches("volt", Mains, 0))
      BY <2>2 DEF Launch, ChainPower
    <3>2. \A f \in events' : Parents[f.asset] = {}
      BY <3>1, OneEventEach, TopologyAssumption
    <3>3. QED BY <1>1, <3>1, <3>2, OneEventEach DEF FInv, Front, OneEach, Volt, Single
  <2>3. ASSUME NEW a \in Asset, NEW kind \in {"volt", "reboot"}, Launch(kind, {a})
        PROVE  FInv'
    <3> DEFINE b == [kind |-> "volt", head |-> a, born |-> 0]
    <3>1. events' = {Event(kind, a, b)}
      BY <2>3 DEF Launch, ChainPower, SrcEvents, NewBranches
    <3>2. Event(kind, a, b).asset = a
      BY DEF Event
    <3>3. QED BY <1>1, <3>1, <3>2 DEF FInv, Front, OneEach, Volt, Acyclic
  <2>4. QED BY <2>1, <2>2, <2>3
<1>3. CASE HandleEvent
  <2>1. PICK e \in events :
          \/ \E changed \in BOOLEAN, loadTo \in SUBSET Parents[e.asset] :
               PowerEventSuccess(e, changed, loadTo)
          \/ LoadEventSuccess(e)
          \/ NoSuccess(e)
    BY <1>3 DEF HandleEvent
  <2>2. CASE \E changed \in BOOLEAN, loadTo \in SUBSET Parents[e.asset] :
               PowerEventSuccess(e, changed, loadTo)
    BY <1>1, <2>2, PowerEventFront DEF FInv
  <2>3. CASE LoadEventSuccess(e)
    <3>1. /\ e.kind = "load"
          /\ events' = (events \ {e}) \cup NextEvents(e, Parents[e.asset])
      BY <2>3 DEF LoadEventSuccess, ChainLoad
    <3>2. Volt(events') \subseteq Volt(events)
      BY <3>1, NextEventEach DEF Volt
    <3>3. QED BY <1>1, <3>2, FrontOfFewer DEF FInv
  <2>4. CASE NoSuccess(e)
    <3>1. Volt(events') \subseteq Volt(events)
      BY <2>4 DEF NoSuccess, Volt
    <3>2. QED BY <1>1, <3>1, FrontOfFewer DEF FInv
  <2>5. QED BY <2>1, <2>2, <2>3, <2>4
<1>4. CASE UNCHANGED vars
  BY <1>1, <1>4 DEF vars, FInv
<1>5. QED BY <1>2, <1>3, <1>4 DEF Next

(* Over a graph without a cycle no asset with one feed has a voltage event *)
(* pending while something it is powered through has another: it computes  *)
(* its voltage once, from an output that stays.                            *)
THEOREM VoltageIsAFront == Acyclic => (Spec => []VoltageFront)
<1> SUFFICES ASSUME Acyclic PROVE Spec => []VoltageFront
  OBVIOUS
<1>1. Init => PInv /\ FInv
  BY InitPInv DEF Init, PInv, FInv, Front, OneEach, Volt
<1>2. (PInv /\ FInv) /\ [Next]_vars => (PInv /\ FInv)'
  BY NextPInv, NextFInv
<1>3. FInv => VoltageFront
  BY DEF FInv, Front, Volt, VoltageFront
<1>4. QED BY <1>1, <1>2, <1>3, PTL DEF Spec
=============================================================================
