----------------------------- MODULE SystemModel -----------------------------
(***************************************************************************)
(* The system topology in the graph database: command line processes that  *)
(* create, link, unlink and delete assets (model/system_modeler.py), and   *)
(* the engine, which reads all assets when it starts or reloads and asks   *)
(* for parents and children when power events need them, through a cache   *)
(* (state/engine/data_source.py) that only a stop of the engine clears.    *)
(*                                                                         *)
(* A session.run() is one step; a command is one, or several.  Keys are    *)
(* fresh: nobody creates an asset whose key is in use (the code does not   *)
(* check).  Properties of assets, OIDs and sensors have no part in this.   *)
(***************************************************************************)
EXTENDS Integers

CONSTANTS
  Asset,     \* keys
  Kind,      \* of each: "outlet", "pdu", "ups", "static", "server" or "psu"
  Owner,     \* the asset each is a component of; itself, if of none
  Nodes0,    \* the topology the engine starts with
  Powers0,
  Busy,      \* assets that power events happen to
  Cli,       \* processes of the command line
  MaxEdits,  \* bound on their commands
  Patient,   \* a process that links runs alone
  Reread     \* a reload, too, is to take edits over

Components(a) == {c \in Asset : Owner[c] # c /\ Owner[c] = a}
AtMostOne(S) == \A x, y \in S : x = y

\* Links of which only a PDU or a UPS has several, to its own outlets, and
\* only a server is the end of several, from its own PSUs.
Forest(links) ==
  \A l, m \in links :
    /\ IF Kind[l[2]] = "server" THEN l[1] \in Components(l[2])
       ELSE l[2] = m[2] => l[1] = m[1]
    /\ IF Kind[l[1]] \in {"pdu", "ups"} THEN l[2] \in Components(l[1])
       ELSE l[1] = m[1] => l[2] = m[2]

\* What _add_psu(), create_pdu() and create_ups() make of the topology: the
\* components of an asset, and the links between them.
ASSUME ModelAssumption ==
  /\ Kind \in [Asset -> {"outlet", "pdu", "ups", "static", "server", "psu"}]
  /\ Owner \in [Asset -> Asset] /\ \A a \in Asset : Owner[Owner[a]] = Owner[a]
  /\ \A a \in Asset : \A c \in Components(a) :
       \/ Kind[a] = "server" /\ Kind[c] = "psu"
       \/ Kind[a] \in {"pdu", "ups"} /\ Kind[c] = "outlet"
  /\ Nodes0 \subseteq Asset /\ Powers0 \subseteq Nodes0 \X Nodes0
  /\ \A a \in Nodes0 : Owner[a] \in Nodes0
  /\ Forest(Powers0) /\ MaxEdits \in Nat

VARIABLES
  nodes,     \* (:Asset) nodes
  powers,    \* <<source, destination>>: (destination)-[:POWERED_BY]->(source)
  stored,    \* servers with storage controllers
  orphans,   \* servers that left storage controllers behind
  cli,       \* what each process is doing
  loaded,    \* keys of Engine._assets
  cache,     \* answers the data source remembers
  edited,    \* the graph was changed since the engine took it over (history)
  edits      \* commands so far (bound)

graph == <<nodes, powers, stored, orphans>>
engine == <<loaded, cache>>
vars == <<nodes, powers, stored, orphans, cli, loaded, cache, edited, edits>>

IsComponent(a) == Owner[a] # a
SourcesOf(a) == {s \in nodes : <<s, a>> \in powers}
PoweredBy(a) == {d \in nodes : <<a, d>> \in powers}

-----------------------------------------------------------------------------
(* What the data source answers.                                           *)

Query == ({"affected", "parents"} \X Busy) \cup {<<"mains", "all">>}

\* get_affected_assets(): children and parents; get_parent_assets();
\* get_mains_powered_outlets().
Affected(a) == <<PoweredBy(a), SourcesOf(a)>>
ParentAssets(a) == <<{}, SourcesOf(a)>>
MainsOutlets == <<{a \in nodes : Kind[a] = "outlet" /\ SourcesOf(a) = {}}, {}>>

Answer(q) ==
  IF q[1] = "mains" THEN MainsOutlets
  ELSE IF q[1] = "parents" THEN ParentAssets(q[2]) ELSE Affected(q[2])

Unknown == <<{"unknown"}, {"unknown"}>>

\* The cached answer, or the one of the graph, which is remembered.
Asked(q) == [cache EXCEPT ![q] = IF @ = Unknown THEN Answer(q) ELSE @]

-----------------------------------------------------------------------------
AtRest == [doing |-> "nothing", source |-> "none", dest |-> "none"]
At(r, what) == [doing |-> what, source |-> r.source, dest |-> r.dest]
Creating == {"sensors", "storage", "psus"}
Linking == {"source", "dest", "component", "create"}

TypeOK ==
  /\ nodes \subseteq Asset /\ powers \subseteq nodes \X nodes
  /\ \A a \in nodes : Owner[a] \in nodes
  /\ stored \subseteq nodes /\ orphans \subseteq Asset
  /\ cli \in [Cli -> [doing : {"nothing"} \cup Creating \cup Linking,
                     source : Asset \cup {"none"}, dest : Asset \cup {"none"}]]
  /\ loaded \subseteq Asset
  /\ cache \in [Query -> {Unknown} \cup ((SUBSET Asset) \X (SUBSET Asset))]
  /\ edited \in BOOLEAN /\ edits \in 0 .. MaxEdits

\* The topology the engine starts with was made by the same commands.
Init ==
  /\ nodes = Nodes0 /\ powers = Powers0 /\ stored = {} /\ orphans = {}
  /\ cli = [p \in Cli |-> AtRest]
  /\ loaded = Nodes0 /\ cache = [q \in Query |-> Unknown]
  /\ edited = FALSE /\ edits = 0

-----------------------------------------------------------------------------
(* Commands.                                                               *)

Begin(p) ==
  /\ cli[p] = AtRest /\ edits < MaxEdits
  /\ Patient => \A o \in Cli : cli[o].doing \notin Linking
  /\ edits' = edits + 1

Fresh(a) ==
  /\ a \notin nodes /\ ~IsComponent(a)
  /\ \A p \in Cli : cli[p].source # a

\* A new asset with the components c, powered as given.
NewNodes(a, c, links) ==
  /\ nodes' = nodes \cup {a} \cup c
  /\ powers' = powers \cup links
  /\ edited' = TRUE
  /\ UNCHANGED <<stored, orphans>> /\ UNCHANGED engine

CreateOutlet(p) ==
  /\ Begin(p)
  /\ \E a \in Asset : Fresh(a) /\ Kind[a] = "outlet" /\ NewNodes(a, {}, {})
  /\ UNCHANGED cli

CreateStatic(p) ==
  /\ Begin(p)
  /\ \E a \in Asset : Fresh(a) /\ Kind[a] = "static" /\ NewNodes(a, {}, {})
  /\ UNCHANGED cli

\* Their output outlets are powered by them from the beginning.
CreatePdu(p) ==
  /\ Begin(p)
  /\ \E a \in Asset :
       Fresh(a) /\ Kind[a] = "pdu" /\ NewNodes(a, Components(a), {a} \X Components(a))
  /\ UNCHANGED cli

CreateUps(p) ==
  /\ Begin(p)
  /\ \E a \in Asset :
       Fresh(a) /\ Kind[a] = "ups" /\ NewNodes(a, Components(a), {a} \X Components(a))
  /\ UNCHANGED cli

\* A server first; one with a BMC gets sensors and storage before its PSUs.
CreateServer(p) ==
  /\ Begin(p)
  /\ \E a \in Asset, next \in {"sensors", "psus"} :
       /\ Fresh(a) /\ Kind[a] = "server"
       /\ NewNodes(a, {}, {})
       /\ cli' = [cli EXCEPT ![p] = [doing |-> next, source |-> a, dest |-> "none"]]

\* _add_sensors(): the preset may be without an address; then the command
\* ends here.
AddSensors(p) ==
  /\ cli[p].doing = "sensors"
  /\ \E next \in {At(cli[p], "storage"), AtRest} : cli' = [cli EXCEPT ![p] = next]
  /\ UNCHANGED graph /\ UNCHANGED engine /\ UNCHANGED <<edited, edits>>

\* _add_storage(), if the server is still there.
AddStorage(p) ==
  /\ cli[p].doing = "storage"
  /\ stored' = IF cli[p].source \in nodes THEN stored \cup {cli[p].source} ELSE stored
  /\ cli' = [cli EXCEPT ![p] = At(@, "psus")]
  /\ UNCHANGED <<nodes, powers, orphans, edited, edits>> /\ UNCHANGED engine

MissingPsus(a) == Components(a) \ nodes

\* FAULT.  The PSU is created without looking for its server.
AddPsuAnyway(p) ==
  LET a == cli[p].source IN
  /\ cli[p].doing = "psus"
  /\ \E psu \in MissingPsus(a) :
       nodes' = nodes \cup {psu} /\ powers' = powers \cup {<<psu, a>>}
  /\ edited' = TRUE
  /\ UNCHANGED <<stored, orphans, cli, edits>> /\ UNCHANGED engine

\* _add_psu(): one PSU, if the server is still there.
AddPsu(p) ==
  LET a == cli[p].source IN
  /\ cli[p].doing = "psus" /\ a \in nodes
  /\ \E psu \in MissingPsus(a) :
       nodes' = nodes \cup {psu} /\ powers' = powers \cup {<<psu, a>>}
  /\ edited' = TRUE
  /\ UNCHANGED <<stored, orphans, cli, edits>> /\ UNCHANGED engine

PsusAdded(p) ==
  /\ cli[p].doing = "psus"
  /\ cli[p].source \in nodes => MissingPsus(cli[p].source) = {}
  /\ cli' = [cli EXCEPT ![p] = AtRest]
  /\ UNCHANGED graph /\ UNCHANGED engine /\ UNCHANGED <<edited, edits>>

\* delete_asset(): the asset and its components; the controllers stay.
DeleteAsset(p, a) ==
  LET gone == {a} \cup Components(a) IN
  /\ Begin(p) /\ a \in nodes
  /\ nodes' = nodes \ gone
  /\ powers' = {l \in powers : l[1] \notin gone /\ l[2] \notin gone}
  /\ orphans' = orphans \cup (stored \cap {a})
  /\ stored' = stored \ {a}
  /\ edited' = TRUE
  /\ UNCHANGED cli /\ UNCHANGED engine

DropModel(p) ==
  /\ Begin(p)
  /\ nodes' = {} /\ powers' = {} /\ stored' = {} /\ orphans' = {}
  /\ edited' = TRUE
  /\ UNCHANGED cli /\ UNCHANGED engine

RemoveLink(p) ==
  /\ Begin(p)
  /\ \E l \in powers : powers' = powers \ {l}
  /\ edited' = TRUE
  /\ UNCHANGED <<nodes, stored, orphans, cli>> /\ UNCHANGED engine

-----------------------------------------------------------------------------
(* link_assets(): three checks, each a query, then the link.               *)

AskForLink(p) ==
  /\ Begin(p)
  /\ Patient => \A o \in Cli : cli[o] = AtRest
  /\ \E s, d \in Asset :
       cli' = [cli EXCEPT ![p] = [doing |-> "source", source |-> s, dest |-> d]]
  /\ UNCHANGED graph /\ UNCHANGED engine /\ UNCHANGED edited

Proceed(p, ok, next) ==
  /\ cli' = [cli EXCEPT ![p] = IF ok THEN At(@, next) ELSE AtRest]
  /\ UNCHANGED graph /\ UNCHANGED engine /\ UNCHANGED <<edited, edits>>

\* "The source asset already powers an existing asset!"
CheckSource(p) ==
  /\ cli[p].doing = "source"
  /\ Proceed(p, PoweredBy(cli[p].source) = {}, "dest")

\* FAULT.  Only the connection itself is looked for.
CheckDestOfSource(p) ==
  /\ cli[p].doing = "dest"
  /\ Proceed(p, cli[p].source \notin SourcesOf(cli[p].dest), "component")

\* "The destination asset is already powered by an existing asset!"
CheckDest(p) ==
  /\ cli[p].doing = "dest"
  /\ Proceed(p, SourcesOf(cli[p].dest) = {}, "component")

\* "Asset cannot power itself!"
CheckComponent(p) ==
  /\ cli[p].doing = "component"
  /\ Proceed(p, ~(cli[p].source \in nodes /\ cli[p].source \in Components(cli[p].dest)), "create")

Linkable(s, d) ==
  /\ s \in nodes /\ Kind[s] \notin {"pdu", "ups", "server"}
  /\ d \in nodes /\ Kind[d] # "server" /\ (IsComponent(d) => Kind[d] = "psu")

CreateLink(p) ==
  LET s == cli[p].source
      d == cli[p].dest IN
  /\ cli[p].doing = "create"
  /\ powers' = IF Linkable(s, d) THEN powers \cup {<<s, d>>} ELSE powers
  /\ edited' = (edited \/ Linkable(s, d))
  /\ cli' = [cli EXCEPT ![p] = AtRest]
  /\ UNCHANGED <<nodes, stored, orphans, edits>> /\ UNCHANGED engine

-----------------------------------------------------------------------------
(* The engine.                                                             *)

\* FAULT.  The outlets of the mains are forgotten.
CacheClearKeyed == [q \in Query |-> IF q[1] = "mains" THEN cache[q] ELSE Unknown]

\* cache_clear_all().
CacheClearAll == [q \in Query |-> Unknown]

\* The engine is stopped, and started again.
Restart ==
  /\ loaded' = nodes
  /\ cache' = CacheClearAll
  /\ edited' = FALSE
  /\ UNCHANGED graph /\ UNCHANGED <<cli, edits>>

\* reload_model(): the assets are read again, the cache stays.
Reload ==
  /\ loaded' = nodes
  /\ edited' = (edited /\ ~Reread)
  /\ UNCHANGED graph /\ UNCHANGED <<cli, cache, edits>>

\* A power event of an asset asks whom it affects, a load event for parents.
PowerEvent(a) ==
  /\ a \in loaded
  /\ cache' = Asked(<<"affected", a>>)
  /\ UNCHANGED graph /\ UNCHANGED <<cli, loaded, edited, edits>>

LoadEvent(a) ==
  /\ a \in loaded
  /\ cache' = Asked(<<"parents", a>>)
  /\ UNCHANGED graph /\ UNCHANGED <<cli, loaded, edited, edits>>

MainsEvent ==
  /\ cache' = Asked(<<"mains", "all">>)
  /\ UNCHANGED graph /\ UNCHANGED <<cli, loaded, edited, edits>>

-----------------------------------------------------------------------------
Command(p) ==
  \/ CreateOutlet(p) \/ CreateStatic(p) \/ CreatePdu(p) \/ CreateUps(p)
  \/ CreateServer(p) \/ AddSensors(p) \/ AddStorage(p) \/ AddPsu(p) \/ PsusAdded(p)
  \/ (\E a \in Asset : DeleteAsset(p, a)) \/ DropModel(p) \/ RemoveLink(p)
  \/ AskForLink(p) \/ CheckSource(p) \/ CheckDest(p) \/ CheckComponent(p) \/ CreateLink(p)

Next ==
  \/ \E p \in Cli : Command(p)
  \/ Restart \/ Reload \/ MainsEvent
  \/ \E a \in Busy : PowerEvent(a) \/ LoadEvent(a)

Spec == Init /\ [][Next]_vars

-----------------------------------------------------------------------------
\* Only a server has several sources (its PSUs, and nothing else), and only a
\* PDU or a UPS powers several assets (its outlets), whatever sequence of
\* create, link, unlink and delete commands is run, one link command at a
\* time (the checks of link_assets; get_affected_assets() reads one row only).
ChainsAreSingle ==
  \A a \in nodes :
    /\ IF Kind[a] = "server" THEN SourcesOf(a) \subseteq Components(a) ELSE AtMostOne(SourcesOf(a))
    /\ IF Kind[a] \in {"pdu", "ups"} THEN PoweredBy(a) \subseteq Components(a)
       ELSE AtMostOne(PoweredBy(a))

\* While the graph is the one the engine took over, power events are sent
\* where the graph says, and to assets the engine has: no remembered answer
\* is from before (HardwareGraphDataSource, Engine._assets).
EngineKnowsTheGraph ==
  ~edited =>
    \A q \in Query :
      /\ cache[q] \in {Unknown, Answer(q)}
      /\ Answer(q)[1] \cup Answer(q)[2] \subseteq loaded

\* link_assets(): "Asset cannot power itself!", directly or through others.
NothingPowersItself ==
  ~ \E a, b \in nodes : <<a, b>> \in powers /\ (a = b \/ <<b, a>> \in powers)
=============================================================================
