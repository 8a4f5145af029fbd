--------------------------- MODULE PowerIteration ---------------------------
(***************************************************************************)
(* PowerIteration (state/engine/iteration.py) and the part of Engine that  *)
(* drives it (_chain_power_events, _chain_load_events in engine.py).       *)
(*                                                                         *)
(* One source event sends voltage events down the power graph and load     *)
(* events up it. Every path that is under way is a branch, tracked by the  *)
(* iteration; the iteration is over when both trackers are empty. What an  *)
(* asset does with an event (new voltage, new load) is its own affair: here *)
(* it answers with whether its output changed and which of its parents see *)
(* another load.                                                           *)
(*                                                                         *)
(* An event and its success callback are one step, taken in any order; the *)
(* circuits queue, which is first in first out, allows some of the orders. *)
(*                                                                         *)
(* Operators marked FAULT are not part of the specification: each is the   *)
(* one below it with a mistake, and shows which property would tell.       *)
(***************************************************************************)
EXTENDS Naturals

CONSTANTS
  Asset,        \* keys of the hardware assets
  Parents,      \* the assets each one is POWERED_BY
  Mains,        \* outlets without a parent (get_mains_powered_outlets)
  Rebootable,   \* assets with an OID that may be set to immediateReboot
  Raising       \* assets whose handler of a power event may raise

(* The graph as system_modeler.py builds it: link_assets() gives an asset   *)
(* one parent; only a server is powered by several (its PSUs), and nothing  *)
(* is powered by a server.                                                  *)
Single(S) == \E x \in S : S = {x}

Children(a) == {c \in Asset : a \in Parents[c]}

ASSUME TopologyAssumption ==
  /\ Parents \in [Asset -> SUBSET Asset]
  /\ Mains \subseteq {a \in Asset : Parents[a] = {}}
  /\ \A a \in Asset : Children(a) = {} \/ Parents[a] = {} \/ Single(Parents[a])
  /\ Rebootable \subseteq Asset /\ Raising \subseteq Asset

VARIABLES
  running,      \* an iteration was launched and not completed
  voltActive,   \* its _volt_branches._branches_active
  loadActive,   \* its _load_branches._branches_active
  events,       \* its events in the engine's event queue
  allVolt,      \* AllVoltageBranchesDone notifications it has caused
  allLoad,      \* AllLoadBranchesDone notifications it has caused
  step          \* how often it has made branches: tells them apart

vars == <<running, voltActive, loadActive, events, allVolt, allLoad, step>>

-----------------------------------------------------------------------------
(* Branches are objects, all different: one is told by the step that made   *)
(* it, 0 for launch(), and the asset its src_event was fired at.            *)
NewBranches(kind, S, made) ==
  {[kind |-> kind, head |-> a, born |-> made] : a \in S}

Tick(made) == step' = IF made = {} THEN step ELSE step + 1

Event(kind, a, b) == [kind |-> kind, asset |-> a, branch |-> b]

SrcEvents(kind, branches) == {Event(kind, b.head, b) : b \in branches}

(* A branch continues through an only neighbour and forks over several.     *)
Forked(kind, S) == IF Single(S) THEN {} ELSE NewBranches(kind, S, step)

(* FAULT: a fork reuses the branch it came on for every neighbour.          *)
NextEventsOnOneBranch(e, S) == {Event(e.kind, c, e.branch) : c \in S}

NextEvents(e, S) ==
  IF Single(S) THEN {Event(e.kind, c, e.branch) : c \in S}
  ELSE SrcEvents(e.kind, Forked(e.kind, S))

(* _chain_power_events(), after process_power_event() left the trackers with *)
(* volt and load.                                                            *)
ChainPower(volt, load, fired, voltSeen, loadSeen) ==
  /\ voltActive' = volt
  /\ loadActive' = load
  /\ events' = fired
  /\ allVolt' = IF volt = {} THEN voltSeen + 1 ELSE voltSeen
  /\ IF volt = {} /\ load = {}
     THEN allLoad' = loadSeen + 1 /\ running' = FALSE
     ELSE allLoad' = loadSeen /\ running' = TRUE

(* FAULTS: the load tracker alone decides that the iteration is over;       *)
(* AllVoltageBranchesDone is announced here as well.                        *)
ChainLoadAlone(load, fired) ==
  /\ loadActive' = load
  /\ events' = fired
  /\ IF load = {}
     THEN allLoad' = allLoad + 1 /\ running' = FALSE
     ELSE UNCHANGED <<allLoad, running>>
  /\ UNCHANGED <<voltActive, allVolt>>

ChainLoadAnnouncingVoltage(load, fired) ==
  /\ loadActive' = load
  /\ events' = fired
  /\ allVolt' = IF voltActive = {} THEN allVolt + 1 ELSE allVolt
  /\ IF voltActive = {} /\ load = {}
     THEN allLoad' = allLoad + 1 /\ running' = FALSE
     ELSE UNCHANGED <<allLoad, running>>
  /\ UNCHANGED voltActive

(* _chain_load_events(), likewise after process_load_event().               *)
ChainLoad(load, fired) ==
  /\ loadActive' = load
  /\ events' = fired
  /\ IF voltActive = {} /\ load = {}
     THEN allLoad' = allLoad + 1 /\ running' = FALSE
     ELSE UNCHANGED <<allLoad, running>>
  /\ UNCHANGED <<voltActive, allVolt>>

-----------------------------------------------------------------------------
(* launch(): the consumer starts the next iteration, whose trackers are new. *)
Launch(kind, heads) ==
  LET branches == NewBranches("volt", heads, 0)
  IN  /\ ~running
      /\ ChainPower(branches, {}, SrcEvents(kind, branches), 0, 0)
      /\ step' = 1

(* The wall-power voltage changed: one branch for each mains outlet.        *)
LaunchWallpower == Launch("volt", Mains)

(* A power button was pressed, or an OID that switches the asset was set:   *)
(* one branch, and one event fired at that asset.                           *)
LaunchAsset(a) == Launch("volt", {a})

LaunchReboot(a) ==
  /\ a \in Rebootable
  /\ Launch("reboot", {a})

-----------------------------------------------------------------------------
(* FAULTS: no LoadBranch is made and the load event keeps the voltage       *)
(* event's branch; the event is chained on before it has been handled.      *)
PowerEventLoadsItsBranch(e, changed, loadTo) ==
  LET below == IF changed THEN Children(e.asset) ELSE {}
      stay == IF Single(below) THEN voltActive ELSE voltActive \ {e.branch}
      forks == Forked("volt", below)
  IN  /\ e.kind = "volt"
      /\ ChainPower(stay \cup forks, loadActive,
                    (events \ {e}) \cup NextEvents(e, below)
                       \cup {Event("load", p, e.branch) : p \in loadTo},
                    allVolt, allLoad)
      /\ Tick(forks)

PowerEventChainedEarly(e, changed, loadTo) ==
  LET below == IF changed THEN Children(e.asset) ELSE {}
      forks == Forked("volt", below)
      loads == NewBranches("load", loadTo, step)
  IN  /\ e.kind = "volt"
      /\ ChainPower(voltActive \cup forks, loadActive \cup loads,
                    events \cup NextEvents(e, below)
                       \cup SrcEvents("load", loads),
                    allVolt, allLoad)
      /\ Tick(forks \cup loads)

(* The asset handled a voltage, button or signal event: its output voltage  *)
(* changed or not, and the parents in loadTo (a server's PSUs, or the only  *)
(* parent) see another load. Load branches begin here.                      *)
PowerEventSuccess(e, changed, loadTo) ==
  LET below == IF changed THEN Children(e.asset) ELSE {}
      stay == IF Single(below) THEN voltActive ELSE voltActive \ {e.branch}
      forks == Forked("volt", below)
      loads == NewBranches("load", loadTo, step)
  IN  /\ e.kind = "volt"
      /\ ChainPower(stay \cup forks, loadActive \cup loads,
                    (events \ {e}) \cup NextEvents(e, below)
                       \cup SrcEvents("load", loads),
                    allVolt, allLoad)
      /\ Tick(forks \cup loads)

(* FAULT: at the top of the graph the load branch is not completed.         *)
LoadEventNeverCompletes(e) ==
  LET forks == Forked("load", Parents[e.asset])
  IN  /\ e.kind = "load"
      /\ ChainLoad(loadActive \cup forks,
                   (events \ {e}) \cup NextEvents(e, Parents[e.asset]))
      /\ Tick(forks)

(* The asset handled a change of a child's load. A fork leaves the branch   *)
(* it came on in the tracker; TopologyAssumption keeps that from happening. *)
LoadEventSuccess(e) ==
  LET above == Parents[e.asset]
      stay == IF above = {} THEN loadActive \ {e.branch} ELSE loadActive
      forks == Forked("load", above)
  IN  /\ e.kind = "load"
      /\ ChainLoad(stay \cup forks, (events \ {e}) \cup NextEvents(e, above))
      /\ Tick(forks)

(* No success callback: Engine has no SignalRebootEvent_success, and none   *)
(* is called for a handler that raised. The event is gone, its branch stays. *)
NoSuccess(e) ==
  /\ e.kind = "reboot" \/ (e.kind = "volt" /\ e.asset \in Raising)
  /\ events' = events \ {e}
  /\ UNCHANGED <<running, voltActive, loadActive, allVolt, allLoad, step>>

-----------------------------------------------------------------------------
Init ==
  /\ running = FALSE
  /\ voltActive = {} /\ loadActive = {} /\ events = {}
  /\ allVolt = 0 /\ allLoad = 0
  /\ step = 0

Request ==
  \/ LaunchWallpower
  \/ \E a \in Asset : LaunchAsset(a) \/ LaunchReboot(a)

HandleEvent ==
  \E e \in events :
    \/ \E changed \in BOOLEAN, loadTo \in SUBSET Parents[e.asset] :
         PowerEventSuccess(e, changed, loadTo)
    \/ LoadEventSuccess(e)
    \/ NoSuccess(e)

Next == Request \/ HandleEvent

(* The event loop handles whatever is in its queue; nobody has to request   *)
(* anything.                                                                *)
Spec == Init /\ [][Next]_vars /\ WF_vars(HandleEvent)

-----------------------------------------------------------------------------
(* Properties *)

BranchType(kind) == [kind : {kind}, head : Asset, born : Nat]

EventType ==
  [kind : {"volt", "reboot"}, asset : Asset, branch : BranchType("volt")]
    \cup [kind : {"load"}, asset : Asset, branch : BranchType("load")]

(* Every variable holds a value of its kind; power events travel on voltage *)
(* branches and load events on load branches.                               *)
TypeOK ==
  /\ running \in BOOLEAN
  /\ voltActive \subseteq BranchType("volt")
  /\ loadActive \subseteq BranchType("load")
  /\ events \subseteq EventType
  /\ allVolt \in Nat /\ allLoad \in Nat /\ step \in Nat

(* No event's success callback completes a branch that is not active, where *)
(* list.remove() would raise, and no two events share one, where the first  *)
(* to end would end it for both.                                            *)
EventsOwnTheirBranch ==
  /\ \A e \in events : e.branch \in voltActive \cup loadActive
  /\ \A e, f \in events : e.branch = f.branch => e = f

(* The converse: an active branch has an event that will end it.            *)
NoBranchIsAbandoned ==
  \A b \in voltActive \cup loadActive : \E e \in events : e.branch = b

(* The worker is let through to the next iteration only when no event of    *)
(* this one is left ("An iteration of a specific type blocks any new events *)
(* until fully completed", docs/index.md:82).                               *)
QuietWhenDone == ~running => events = {}

(* Clients of the engine (StateTracker users, the web socket) see each      *)
(* completion once per iteration: AllVoltageBranchesDone when the last      *)
(* voltage event was handled, AllLoadBranchesDone at the end.               *)
AnnouncedOnce ==
  /\ allVolt = 1 <=> (step > 0 /\ voltActive = {})
  /\ allLoad = 1 <=> (step > 0 /\ ~running)
  /\ allVolt <= 1 /\ allLoad <= 1

(* Voltage travels as a front: no asset has a voltage event pending while   *)
(* one of the assets it is powered through has another, or its voltage      *)
(* would be computed from an output that is about to change. Assets with    *)
(* two feeds are excepted: each of the feeds brings an event of its own.    *)
Above ==
  [a \in Asset |->
     {u \in Asset :
        \A S \in SUBSET Asset :
          (Parents[a] \subseteq S /\ \A s \in S : Parents[s] \subseteq S)
            => u \in S}]

VoltageFront ==
  \A e, f \in events :
    (e.kind = "volt" /\ f.kind = "volt" /\ Single(Parents[e.asset]))
      => f.asset \notin Above[e.asset]

(* Every iteration ends: the graph has no cycle, so events run out.         *)
IterationEnds == running ~> ~running

(* "Power iteration completes when all of the voltage and load branches are *)
(* processed." (iteration.py:162): with nothing left to process, it is over. *)
DoneWhenQuiet == events = {} => ~running
=============================================================================
