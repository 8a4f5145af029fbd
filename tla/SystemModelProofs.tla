-------------------------- MODULE SystemModelProofs --------------------------
(***************************************************************************)
(* Proofs about SystemModel for any set of assets, any topology of the     *)
(* kind the commands make, and any number of command line processes.       *)
(***************************************************************************)
EXTENDS SystemModel, TLAPS

(* Only servers get storage and PSUs: a command that adds them created the *)
(* server.                                                                 *)
Servers ==
  /\ \A p \in Cli : cli[p].doing \in Creating =>
       cli[p].source \in Asset /\ Kind[cli[p].source] = "server"
  /\ \A s \in stored : Kind[s] = "server"

TypeInv == TypeOK /\ Servers

LEMMA InitType == Init => TypeInv
<1> SUFFICES ASSUME Init PROVE TypeInv
  OBVIOUS
<1>1. TypeOK
  <2>1. AtRest \in [doing : {"nothing"} \cup Creating \cup Linking,
                   source : Asset \cup {"none"}, dest : Asset \cup {"none"}]
    BY DEF AtRest
  <2>2. 0 \in 0 .. MaxEdits
    BY ModelAssumption DEF ModelAssumption
  <2> QED
    BY <2>1, <2>2, ModelAssumption DEF ModelAssumption, Init, TypeOK
<1>2. Servers
  BY DEF Init, Servers, AtRest, Creating
<1> QED
  BY <1>1, <1>2 DEF TypeInv

(* What the data source answers are assets of the graph.                   *)
LEMMA AnswerType ==
  ASSUME TypeOK, NEW q \in Query
  PROVE  /\ Answer(q) \in (SUBSET Asset) \X (SUBSET Asset)
         /\ Answer(q)[1] \subseteq nodes /\ Answer(q)[2] \subseteq nodes
<1>1. \A a : PoweredBy(a) \subseteq nodes /\ SourcesOf(a) \subseteq nodes
  BY DEF PoweredBy, SourcesOf
<1>2. nodes \subseteq Asset
  BY DEF TypeOK
<1> QED
  BY <1>1, <1>2 DEF Answer, MainsOutlets, ParentAssets, Affected

(* A component that is there has an owner that is there.                   *)
LEMMA ComponentsComeTogether ==
  ASSUME TypeOK, NEW a \in Asset, a \notin nodes
  PROVE  Components(a) \cap nodes = {}
  BY DEF TypeOK, Components

LEMMA ServersStandAlone ==
  ASSUME NEW a \in Asset, Kind[a] = "server"
  PROVE  Owner[a] = a /\ \A c \in Components(a) : Kind[c] = "psu"
<1>1. Owner[a] \in Asset
  BY ModelAssumption DEF ModelAssumption
<1>2. CASE Owner[a] # a
  <2>1. a \in Components(Owner[a])
    BY <1>2 DEF Components
  <2>2. Kind[a] \in {"psu", "outlet"}
    BY <1>1, <2>1, ModelAssumption DEF ModelAssumption
  <2> QED
    BY <2>2
<1>3. CASE Owner[a] = a
  BY <1>3, ModelAssumption DEF ModelAssumption
<1> QED
  BY <1>2, <1>3

-----------------------------------------------------------------------------
(* Types: one lemma for each kind of step.                                 *)

LEMMA CreateType ==
  ASSUME TypeInv, NEW p \in Cli,
         CreateOutlet(p) \/ CreateStatic(p) \/ CreatePdu(p) \/ CreateUps(p)
  PROVE  TypeInv'
<1>1. PICK a \in Asset :
        /\ ~IsComponent(a)
        /\ \E c \in {{}, Components(a)} : NewNodes(a, c, {a} \X c)
        /\ UNCHANGED cli /\ edits < MaxEdits /\ edits' = edits + 1
  <2>1. \A b : {b} \X {} = {}
    OBVIOUS
  <2> QED
    BY <2>1 DEF CreateOutlet, CreateStatic, CreatePdu, CreateUps, Begin, Fresh
<1>c. PICK c \in {{}, Components(a)} : NewNodes(a, c, {a} \X c)
  BY <1>1
<1>2. c \subseteq Asset /\ \A x \in c : Owner[x] = a
  BY <1>1 DEF Components
<1>3. Owner[a] = a
  BY <1>1 DEF IsComponent
<1>4. TypeOK'
  BY <1>1, <1>c, <1>2, <1>3, ModelAssumption
  DEF TypeInv, TypeOK, NewNodes, engine, ModelAssumption, Query
<1>5. Servers'
  BY <1>1, <1>c DEF TypeInv, Servers, NewNodes
<1> QED
  BY <1>4, <1>5 DEF TypeInv

LEMMA CreateServerType ==
  ASSUME TypeInv, NEW p \in Cli, CreateServer(p)
  PROVE  TypeInv'
<1>1. PICK a \in Asset, next \in {"sensors", "psus"} :
        /\ ~IsComponent(a) /\ Kind[a] = "server"
        /\ NewNodes(a, {}, {})
        /\ cli' = [cli EXCEPT ![p] = [doing |-> next, source |-> a, dest |-> "none"]]
        /\ edits < MaxEdits /\ edits' = edits + 1
  BY DEF CreateServer, Begin, Fresh
<1>2. Owner[a] = a
  BY <1>1 DEF IsComponent
<1>3. TypeOK'
  BY <1>1, <1>2, ModelAssumption
  DEF TypeInv, TypeOK, NewNodes, engine, ModelAssumption, Query, Creating
<1>4. Servers'
  BY <1>1 DEF TypeInv, Servers, NewNodes, TypeOK
<1> QED
  BY <1>3, <1>4 DEF TypeInv

LEMMA AddType ==
  ASSUME TypeInv, NEW p \in Cli,
         AddSensors(p) \/ AddStorage(p) \/ AddPsu(p) \/ PsusAdded(p)
  PROVE  TypeInv'
<1> DEFINE a == cli[p].source
<1>1. CASE AddSensors(p)
  <2>1. cli[p].doing = "sensors" /\ a \in Asset /\ Kind[a] = "server"
    BY <1>1 DEF AddSensors, TypeInv, Servers, Creating
  <2>2. PICK next \in {At(cli[p], "storage"), AtRest} : cli' = [cli EXCEPT ![p] = next]
    BY <1>1 DEF AddSensors
  <2>3. TypeOK'
    BY <1>1, <2>2
    DEF AddSensors, TypeInv, TypeOK, At, AtRest, Creating, graph, engine, Query, Answer
  <2>4. Servers'
    BY <1>1, <2>1, <2>2 DEF AddSensors, TypeInv, TypeOK, Servers, At, AtRest, Creating, graph
  <2> QED
    BY <2>3, <2>4 DEF TypeInv
<1>2. CASE AddStorage(p)
  <2>1. cli[p].doing = "storage" /\ a \in Asset /\ Kind[a] = "server"
    BY <1>2 DEF AddStorage, TypeInv, Servers, Creating
  <2>2. TypeOK'
    BY <1>2 DEF AddStorage, TypeInv, TypeOK, At, Creating, engine, Query
  <2>3. Servers'
    BY <1>2, <2>1 DEF AddStorage, TypeInv, TypeOK, Servers, At, Creating
  <2> QED
    BY <2>2, <2>3 DEF TypeInv
<1>3. CASE AddPsu(p)
  <2>1. PICK psu \in MissingPsus(a) :
          /\ a \in nodes
          /\ nodes' = nodes \cup {psu} /\ powers' = powers \cup {<<psu, a>>}
    BY <1>3 DEF AddPsu
  <2>2. psu \in Asset /\ Owner[psu] = a
    BY <2>1 DEF MissingPsus, Components
  <2>3. TypeOK'
    BY <1>3, <2>1, <2>2 DEF AddPsu, TypeInv, TypeOK, engine, Query
  <2>4. Servers'
    BY <1>3 DEF AddPsu, TypeInv, Servers
  <2> QED
    BY <2>3, <2>4 DEF TypeInv
<1>4. CASE PsusAdded(p)
  BY <1>4 DEF PsusAdded, TypeInv, TypeOK, Servers, AtRest, Creating, graph, engine, Query
<1> QED
  BY <1>1, <1>2, <1>3, <1>4

LEMMA RemoveType ==
  ASSUME TypeInv, NEW p \in Cli,
         (\E a \in Asset : DeleteAsset(p, a)) \/ DropModel(p) \/ RemoveLink(p)
  PROVE  TypeInv'
<1>1. CASE \E a \in Asset : DeleteAsset(p, a)
  <2>1. PICK a \in Asset : DeleteAsset(p, a)
    BY <1>1
  <2> DEFINE gone == {a} \cup Components(a)
  <2>2. \A b \in nodes \ gone : Owner[b] \in nodes \ gone
    <3> SUFFICES ASSUME NEW b \in nodes \ gone PROVE Owner[b] \notin gone
      BY DEF TypeInv, TypeOK
    <3>1. b \in Asset /\ Owner[Owner[b]] = Owner[b]
      BY ModelAssumption DEF ModelAssumption, TypeInv, TypeOK
    <3> QED
      BY <3>1 DEF Components
  <2>3. \A s \in stored : s \notin Components(a)
    <3> SUFFICES ASSUME NEW s \in stored PROVE Owner[s] = s
      BY DEF Components
    <3> QED
      BY ServersStandAlone DEF TypeInv, TypeOK, Servers
  <2>4. edits < MaxEdits /\ edits' = edits + 1
    BY <2>1 DEF DeleteAsset, Begin
  <2>5. TypeOK'
    BY <2>1, <2>2, <2>3, <2>4, ModelAssumption
    DEF DeleteAsset, TypeInv, TypeOK, engine, ModelAssumption, Query
  <2>6. Servers'
    BY <2>1 DEF DeleteAsset, TypeInv, Servers
  <2> QED
    BY <2>5, <2>6 DEF TypeInv
<1>2. CASE DropModel(p)
  <2>1. edits < MaxEdits /\ edits' = edits + 1
    BY <1>2 DEF DropModel, Begin
  <2> QED
    BY <1>2, <2>1, ModelAssumption
    DEF DropModel, TypeInv, TypeOK, Servers, engine, ModelAssumption, Query
<1>3. CASE RemoveLink(p)
  <2>1. edits < MaxEdits /\ edits' = edits + 1
    BY <1>3 DEF RemoveLink, Begin
  <2> QED
    BY <1>3, <2>1, ModelAssumption
    DEF RemoveLink, TypeInv, TypeOK, Servers, engine, ModelAssumption, Query
<1> QED
  BY <1>1, <1>2, <1>3

LEMMA LinkType ==
  ASSUME TypeInv, NEW p \in Cli,
         AskForLink(p) \/ CheckSource(p) \/ CheckDest(p) \/ CheckComponent(p) \/ CreateLink(p)
  PROVE  TypeInv'
<1>1. CASE AskForLink(p)
  <2>1. PICK s \in Asset, d \in Asset :
          cli' = [cli EXCEPT ![p] = [doing |-> "source", source |-> s, dest |-> d]]
    BY <1>1 DEF AskForLink
  <2>2. edits < MaxEdits /\ edits' = edits + 1
    BY <1>1 DEF AskForLink, Begin
  <2> QED
    BY <1>1, <2>1, <2>2, ModelAssumption
    DEF AskForLink, TypeInv, TypeOK, Servers, Creating, Linking, graph, engine, ModelAssumption, Query
<1>2. CASE CheckSource(p) \/ CheckDest(p) \/ CheckComponent(p)
  <2>1. PICK next \in {"dest", "component", "create"}, ok \in BOOLEAN : Proceed(p, ok, next)
    BY <1>2 DEF CheckSource, CheckDest, CheckComponent
  <2> QED
    BY <2>1 DEF Proceed, TypeInv, TypeOK, Servers, At, AtRest, Creating, Linking, graph, engine, Query
<1>3. CASE CreateLink(p)
  <2>1. Linkable(cli[p].source, cli[p].dest) => cli[p].source \in nodes /\ cli[p].dest \in nodes
    BY DEF Linkable
  <2>2. powers' \subseteq nodes \X nodes
    BY <1>3, <2>1 DEF CreateLink, TypeInv, TypeOK
  <2>3. edited' \in BOOLEAN
    BY <1>3 DEF CreateLink, TypeInv, TypeOK, Linkable
  <2> QED
    BY <1>3, <2>2, <2>3 DEF CreateLink, TypeInv, TypeOK, Servers, AtRest, Creating, engine, Query
<1> QED
  BY <1>1, <1>2, <1>3

LEMMA EngineType ==
  ASSUME TypeInv,
         Restart \/ Reload \/ MainsEvent \/ \E a \in Busy : PowerEvent(a) \/ LoadEvent(a)
  PROVE  TypeInv'
<1>1. CASE Restart \/ Reload
  BY <1>1 DEF Restart, Reload, CacheClearAll, TypeInv, TypeOK, Servers, graph, engine, Query
<1>2. CASE MainsEvent \/ \E a \in Busy : PowerEvent(a) \/ LoadEvent(a)
  <2>1. PICK q \in Query : cache' = Asked(q)
    BY <1>2 DEF MainsEvent, PowerEvent, LoadEvent, Query
  <2>2. UNCHANGED <<nodes, powers, stored, orphans, cli, loaded, edited, edits>>
    BY <1>2 DEF MainsEvent, PowerEvent, LoadEvent, graph
  <2>3. Answer(q) \in (SUBSET Asset) \X (SUBSET Asset)
    BY AnswerType DEF TypeInv
  <2>4. cache' \in [Query -> {Unknown} \cup ((SUBSET Asset) \X (SUBSET Asset))]
    BY <2>1, <2>3 DEF Asked, TypeInv, TypeOK
  <2> QED
    BY <2>2, <2>4 DEF TypeInv, TypeOK, Servers, Query
<1> QED
  BY <1>1, <1>2

LEMMA StepType == TypeInv /\ [Next]_vars => TypeInv'
<1> SUFFICES ASSUME TypeInv, [Next]_vars PROVE TypeInv'
  OBVIOUS
<1>1. CASE \E p \in Cli : Command(p)
  BY <1>1, CreateType, CreateServerType, AddType, RemoveType, LinkType DEF Command
<1>2. CASE Restart \/ Reload \/ MainsEvent \/ \E a \in Busy : PowerEvent(a) \/ LoadEvent(a)
  BY <1>2, EngineType
<1>3. CASE UNCHANGED vars
  BY <1>3 DEF vars, TypeInv, TypeOK, Servers, Query
<1> QED
  BY <1>1, <1>2, <1>3 DEF Next

(* Every node, link, command and remembered answer is one of the topology: *)
(* no command leaves a link to what another has deleted meanwhile, or a    *)
(* component without its owner.                                            *)
THEOREM ModelTypeCorrect == Spec => []TypeOK
<1>1. TypeInv => TypeOK
  BY DEF TypeInv
<1> QED
  BY <1>1, InitType, StepType, PTL DEF Spec

-----------------------------------------------------------------------------
(* The engine's answers.  While nothing was edited since it started, it has *)
(* all assets, and what it remembers is what the graph says.                *)
Remembered ==
  ~edited => loaded = nodes /\ \A q \in Query : cache[q] \in {Unknown, Answer(q)}

LEMMA SameAnswers ==
  ASSUME UNCHANGED <<nodes, powers>>, NEW q
  PROVE  Answer(q)' = Answer(q)
  BY DEF Answer, MainsOutlets, ParentAssets, Affected, PoweredBy, SourcesOf

LEMMA CommandRemembers ==
  ASSUME TypeInv, Remembered, NEW p \in Cli, Command(p)
  PROVE  Remembered'
<1>1. edited' \/ (UNCHANGED <<nodes, powers, loaded, cache, edited>>)
  <2>1. CASE CreateOutlet(p) \/ CreateStatic(p) \/ CreatePdu(p) \/ CreateUps(p) \/ CreateServer(p)
    BY <2>1 DEF CreateOutlet, CreateStatic, CreatePdu, CreateUps, CreateServer, NewNodes
  <2>2. CASE AddSensors(p) \/ AddStorage(p) \/ AddPsu(p) \/ PsusAdded(p)
    BY <2>2 DEF AddSensors, AddStorage, AddPsu, PsusAdded, graph, engine
  <2>3. CASE (\E a \in Asset : DeleteAsset(p, a)) \/ DropModel(p) \/ RemoveLink(p)
    BY <2>3 DEF DeleteAsset, DropModel, RemoveLink
  <2>4. CASE AskForLink(p) \/ CheckSource(p) \/ CheckDest(p) \/ CheckComponent(p)
    BY <2>4 DEF AskForLink, CheckSource, CheckDest, CheckComponent, Proceed, graph, engine
  <2>5. CASE CreateLink(p)
    BY <2>5 DEF CreateLink, engine, TypeInv, TypeOK
  <2> QED
    BY <2>1, <2>2, <2>3, <2>4, <2>5 DEF Command
<1>2. CASE edited'
  BY <1>2 DEF Remembered
<1>3. CASE UNCHANGED <<nodes, powers, loaded, cache, edited>>
  BY <1>3, SameAnswers DEF Remembered, Query
<1> QED
  BY <1>1, <1>2, <1>3

LEMMA EngineRemembers ==
  ASSUME TypeInv, Remembered, ~Reread,
         Restart \/ Reload \/ MainsEvent \/ \E a \in Busy : PowerEvent(a) \/ LoadEvent(a)
  PROVE  Remembered'
<1>1. UNCHANGED <<nodes, powers>>
  BY DEF Restart, Reload, MainsEvent, PowerEvent, LoadEvent, graph
<1>2. \A q \in Query : Answer(q)' = Answer(q)
  BY <1>1, SameAnswers
<1>3. CASE Restart
  BY <1>1, <1>3 DEF Restart, CacheClearAll, Remembered, Query
<1>4. CASE Reload
  BY <1>1, <1>2, <1>4 DEF Reload, Remembered, Query
<1>5. CASE MainsEvent \/ \E a \in Busy : PowerEvent(a) \/ LoadEvent(a)
  <2>1. PICK q \in Query : cache' = Asked(q)
    BY <1>5 DEF MainsEvent, PowerEvent, LoadEvent, Query
  <2>2. UNCHANGED <<loaded, edited>>
    BY <1>5 DEF MainsEvent, PowerEvent, LoadEvent
  <2>3. ~edited => \A r \in Query : cache'[r] \in {Unknown, Answer(r)}
    BY <2>1 DEF Asked, Remembered, TypeInv, TypeOK
  <2> QED
    BY <1>1, <1>2, <2>2, <2>3 DEF Remembered, Query
<1> QED
  BY <1>3, <1>4, <1>5

(* A power event goes where the graph says, and only to assets the engine  *)
(* has, unless the graph was edited after the engine was started (that a   *)
(* reload is not enough is what SystemModelReload.cfg shows).              *)
THEOREM EngineFollowsTheGraph ==
  ASSUME ~Reread
  PROVE  Spec => []EngineKnowsTheGraph
<1> DEFINE KInv == TypeInv /\ Remembered
<1>1. Init => KInv
  BY InitType DEF Init, Remembered
<1>2. KInv /\ [Next]_vars => KInv'
  <2> SUFFICES ASSUME KInv, [Next]_vars PROVE Remembered'
    BY StepType
  <2>1. CASE \E p \in Cli : Command(p)
    BY <2>1, CommandRemembers
  <2>2. CASE Restart \/ Reload \/ MainsEvent \/ \E a \in Busy : PowerEvent(a) \/ LoadEvent(a)
    BY <2>2, EngineRemembers
  <2>3. CASE UNCHANGED vars
    BY <2>3, SameAnswers DEF vars, Remembered, Query
  <2> QED
    BY <2>1, <2>2, <2>3 DEF Next
<1>3. KInv => EngineKnowsTheGraph
  BY AnswerType DEF TypeInv, Remembered, EngineKnowsTheGraph
<1> QED
  BY <1>1, <1>2, <1>3, PTL DEF Spec

-----------------------------------------------------------------------------
(* The shape of the power graph, for processes that link one at a time.    *)
(* A process that links is alone, and what its checks found is still so.   *)
Linked ==
  \A p \in Cli : cli[p].doing \in Linking =>
    /\ \A o \in Cli \ {p} : cli[o].doing = "nothing"
    /\ cli[p].doing # "source" => \A l \in powers : l[1] # cli[p].source
    /\ cli[p].doing \in {"component", "create"} => \A l \in powers : l[2] # cli[p].dest

ForestInv == TypeInv /\ Linked /\ Forest(powers)

(* Links taken away leave a forest; so does the first link of both its     *)
(* ends, and the links of new assets to their components.                  *)
LEMMA FewerLinks ==
  ASSUME NEW links, NEW fewer \in SUBSET links, Forest(links)
  PROVE  Forest(fewer)
  BY DEF Forest

LEMMA FirstLink ==
  ASSUME NEW links \in SUBSET (Asset \X Asset), Forest(links), NEW s \in Asset, NEW d \in Asset,
         \A l \in links : l[1] # s /\ l[2] # d,
         Kind[d] = "server" => s \in Components(d),
         Kind[s] \notin {"pdu", "ups"}
  PROVE  Forest(links \cup {<<s, d>>})
  BY DEF Forest

LEMMA OneMorePsu ==
  ASSUME NEW links \in SUBSET (Asset \X Asset), Forest(links), NEW s \in Asset, NEW d \in Asset,
         \A l \in links : l[1] # s,
         Kind[d] = "server", s \in Components(d), Kind[s] \notin {"pdu", "ups"}
  PROVE  Forest(links \cup {<<s, d>>})
  BY DEF Forest

LEMMA OutletsOfNew ==
  ASSUME NEW links \in SUBSET (Asset \X Asset), Forest(links), NEW a \in Asset,
         \A l \in links : l[1] # a /\ l[2] \notin Components(a),
         Kind[a] \in {"pdu", "ups"}
  PROVE  Forest(links \cup ({a} \X Components(a)))
<1>1. \A c \in Components(a) : Kind[c] # "server"
  BY ModelAssumption DEF ModelAssumption
<1> QED
  BY <1>1 DEF Forest

LEMMA BeginForest ==
  ASSUME Patient, ForestInv, NEW p \in Cli,
         \/ CreateOutlet(p) \/ CreateStatic(p) \/ CreatePdu(p) \/ CreateUps(p) \/ CreateServer(p)
         \/ (\E a \in Asset : DeleteAsset(p, a)) \/ DropModel(p) \/ RemoveLink(p)
  PROVE  Linked' /\ Forest(powers')
<1>1. \A o \in Cli : cli[o].doing \notin Linking
  BY DEF CreateOutlet, CreateStatic, CreatePdu, CreateUps, CreateServer, DeleteAsset, DropModel,
         RemoveLink, Begin
<1>2. \A o \in Cli : cli'[o].doing \notin Linking
  <2>1. CASE CreateServer(p)
    BY <1>1, <2>1 DEF CreateServer, ForestInv, TypeInv, TypeOK, Linking
  <2>2. CASE UNCHANGED cli
    BY <1>1, <2>2
  <2> QED
    BY <2>1, <2>2 DEF CreateOutlet, CreateStatic, CreatePdu, CreateUps, DeleteAsset, DropModel,
                      RemoveLink
<1>3. Linked'
  BY <1>2 DEF Linked
<1>4. CASE CreateOutlet(p) \/ CreateStatic(p) \/ CreateServer(p)
  <2>1. powers' = powers
    BY <1>4 DEF CreateOutlet, CreateStatic, CreateServer, NewNodes
  <2> QED
    BY <1>3, <2>1 DEF ForestInv
<1>5. CASE CreatePdu(p) \/ CreateUps(p)
  <2>1. PICK a \in Asset : /\ Fresh(a) /\ Kind[a] \in {"pdu", "ups"}
                           /\ powers' = powers \cup ({a} \X Components(a))
    BY <1>5 DEF CreatePdu, CreateUps, NewNodes
  <2>2. a \notin nodes /\ Components(a) \cap nodes = {}
    BY <2>1, ComponentsComeTogether DEF Fresh, ForestInv, TypeInv
  <2>3. powers \subseteq nodes \X nodes /\ powers \subseteq Asset \X Asset
    BY DEF ForestInv, TypeInv, TypeOK
  <2>4. \A l \in powers : l[1] # a /\ l[2] \notin Components(a)
    BY <2>2, <2>3
  <2>5. Forest(powers \cup ({a} \X Components(a)))
    BY <2>1, <2>3, <2>4, OutletsOfNew DEF ForestInv
  <2> QED
    BY <1>3, <2>1, <2>5
<1>6. CASE (\E a \in Asset : DeleteAsset(p, a)) \/ DropModel(p) \/ RemoveLink(p)
  <2>1. powers' \subseteq powers
    BY <1>6 DEF DeleteAsset, DropModel, RemoveLink
  <2> QED
    BY <1>3, <2>1, FewerLinks DEF ForestInv
<1> QED
  BY <1>3, <1>4, <1>5, <1>6

LEMMA AddForest ==
  ASSUME Patient, ForestInv, NEW p \in Cli,
         AddSensors(p) \/ AddStorage(p) \/ AddPsu(p) \/ PsusAdded(p)
  PROVE  Linked' /\ Forest(powers')
<1>1. cli[p].doing \in Creating
  BY DEF AddSensors, AddStorage, AddPsu, PsusAdded, Creating
<1>2. \A o \in Cli : cli[o].doing \notin Linking
  BY <1>1 DEF ForestInv, Linked, Linking, Creating
<1>3. \A o \in Cli : cli'[o].doing \notin Linking
  <2>1. CASE AddSensors(p)
    BY <1>2, <2>1 DEF AddSensors, ForestInv, TypeInv, TypeOK, Linking, At, AtRest
  <2>2. CASE AddStorage(p) \/ PsusAdded(p)
    BY <1>2, <2>2 DEF AddStorage, PsusAdded, ForestInv, TypeInv, TypeOK, Linking, At, AtRest
  <2>3. CASE AddPsu(p)
    BY <1>2, <2>3 DEF AddPsu
  <2> QED
    BY <2>1, <2>2, <2>3
<1>4. Linked'
  BY <1>3 DEF Linked
<1>5. CASE AddPsu(p)
  <2> DEFINE a == cli[p].source
  <2>1. PICK psu \in MissingPsus(a) : powers' = powers \cup {<<psu, a>>}
    BY <1>5 DEF AddPsu
  <2>2. a \in Asset /\ Kind[a] = "server"
    BY <1>1 DEF ForestInv, TypeInv, Servers
  <2>3. psu \in Components(a) /\ psu \in Asset /\ psu \notin nodes
    BY <2>1 DEF MissingPsus, Components
  <2>4. Kind[psu] = "psu"
    BY <2>2, <2>3, ServersStandAlone
  <2>5. powers \subseteq nodes \X nodes /\ powers \subseteq Asset \X Asset
    BY DEF ForestInv, TypeInv, TypeOK
  <2>6. \A l \in powers : l[1] # psu
    BY <2>3, <2>5
  <2>7. Forest(powers \cup {<<psu, a>>})
    BY <2>2, <2>3, <2>4, <2>5, <2>6, OneMorePsu DEF ForestInv
  <2> QED
    BY <1>4, <2>1, <2>7
<1>6. CASE AddSensors(p) \/ AddStorage(p) \/ PsusAdded(p)
  BY <1>4, <1>6 DEF AddSensors, AddStorage, PsusAdded, graph, ForestInv
<1> QED
  BY <1>4, <1>5, <1>6

LEMMA LinkForest ==
  ASSUME Patient, ForestInv, NEW p \in Cli,
         AskForLink(p) \/ CheckSource(p) \/ CheckDest(p) \/ CheckComponent(p) \/ CreateLink(p)
  PROVE  Linked' /\ Forest(powers')
<1> USE DEF Linking
<1>0. cli \in [Cli -> [doing : {"nothing"} \cup Creating \cup Linking,
                       source : Asset \cup {"none"}, dest : Asset \cup {"none"}]]
  BY DEF ForestInv, TypeInv, TypeOK
<1>1. CASE AskForLink(p)
  <2>1. PICK s \in Asset, d \in Asset :
          cli' = [cli EXCEPT ![p] = [doing |-> "source", source |-> s, dest |-> d]]
    BY <1>1 DEF AskForLink
  <2>2. \A o \in Cli \ {p} : cli'[o].doing = "nothing"
    BY <1>1, <1>0, <2>1 DEF AskForLink, AtRest
  <2>3. cli'[p].doing = "source"
    BY <1>0, <2>1
  <2>4. Linked'
    BY <2>2, <2>3 DEF Linked
  <2> QED
    BY <1>1, <2>4 DEF AskForLink, graph, ForestInv
<1>2. CASE CheckSource(p) \/ CheckDest(p) \/ CheckComponent(p)
  <2>1. cli[p].doing \in Linking /\ UNCHANGED <<powers, nodes>>
    BY <1>2 DEF CheckSource, CheckDest, CheckComponent, Proceed, graph
  <2>2. PICK next \in {"dest", "component", "create"}, ok \in BOOLEAN :
          /\ cli' = [cli EXCEPT ![p] = IF ok THEN At(@, next) ELSE AtRest]
          /\ next = "dest" => ok = (PoweredBy(cli[p].source) = {})
          /\ next = "component" => cli[p].doing = "dest" /\ ok = (SourcesOf(cli[p].dest) = {})
          /\ next = "create" => cli[p].doing = "component"
    BY <1>2 DEF CheckSource, CheckDest, CheckComponent, Proceed
  <2>3. \A o \in Cli \ {p} : cli'[o].doing = "nothing"
    BY <1>0, <2>1, <2>2 DEF ForestInv, Linked
  <2>4. CASE ~ok
    BY <1>0, <2>1, <2>2, <2>3, <2>4 DEF Linked, AtRest, ForestInv
  <2>5. CASE ok
    <3>1. /\ cli'[p].doing = next
          /\ cli'[p].source = cli[p].source /\ cli'[p].dest = cli[p].dest
      BY <1>0, <2>2, <2>5 DEF At
    <3>2. \A l \in powers : l = <<l[1], l[2]>> /\ l[1] \in nodes /\ l[2] \in nodes
      BY DEF ForestInv, TypeInv, TypeOK
    <3>3. \A l \in powers : l[1] # cli[p].source
      <4>1. CASE next = "dest"
        <5>1. PoweredBy(cli[p].source) = {}
          BY <2>2, <2>5, <4>1
        <5> QED
          BY <3>2, <5>1 DEF PoweredBy
      <4>2. CASE next # "dest"
        BY <2>2, <2>1, <4>2 DEF ForestInv, Linked
      <4> QED
        BY <4>1, <4>2
    <3>4. next \in {"component", "create"} => \A l \in powers : l[2] # cli[p].dest
      <4>1. CASE next = "component"
        <5>1. SourcesOf(cli[p].dest) = {}
          BY <2>2, <2>5, <4>1
        <5> QED
          BY <3>2, <5>1 DEF SourcesOf
      <4>2. CASE next = "create"
        BY <2>1, <2>2, <4>2 DEF ForestInv, Linked
      <4> QED
        BY <4>1, <4>2
    <3> QED
      BY <2>1, <2>3, <3>1, <3>3, <3>4 DEF Linked, ForestInv
  <2> QED
    BY <2>4, <2>5
<1>3. CASE CreateLink(p)
  <2> DEFINE s == cli[p].source
             d == cli[p].dest
  <2>1. cli[p].doing = "create" /\ cli' = [cli EXCEPT ![p] = AtRest]
    BY <1>3 DEF CreateLink
  <2>2. \A o \in Cli : cli'[o].doing = "nothing"
    BY <1>0, <2>1 DEF ForestInv, Linked, AtRest
  <2>3. Linked'
    BY <2>2 DEF Linked
  <2>4. CASE Linkable(s, d)
    <3>1. s \in Asset /\ d \in Asset /\ powers \subseteq Asset \X Asset
      BY <2>4 DEF Linkable, ForestInv, TypeInv, TypeOK
    <3>2. \A l \in powers : l[1] # s /\ l[2] # d
      BY <2>1 DEF ForestInv, Linked
    <3>3. Kind[d] # "server" /\ Kind[s] \notin {"pdu", "ups"}
      BY <2>4 DEF Linkable
    <3>4. Forest(powers \cup {<<s, d>>})
      BY <3>1, <3>2, <3>3, FirstLink DEF ForestInv
    <3> QED
      BY <1>3, <2>3, <2>4, <3>4 DEF CreateLink
  <2>5. CASE ~Linkable(s, d)
    BY <1>3, <2>3, <2>5 DEF CreateLink, ForestInv
  <2> QED
    BY <2>4, <2>5
<1> QED
  BY <1>1, <1>2, <1>3

LEMMA StepForest ==
  ASSUME Patient, ForestInv, [Next]_vars
  PROVE  ForestInv'
<1>1. TypeInv'
  BY StepType DEF ForestInv
<1>2. CASE \E p \in Cli : Command(p)
  BY <1>1, <1>2, BeginForest, AddForest, LinkForest DEF Command, ForestInv
<1>3. CASE UNCHANGED <<powers, cli>>
  BY <1>1, <1>3 DEF ForestInv, Linked
<1>4. CASE Restart \/ Reload \/ MainsEvent \/ \E a \in Busy : PowerEvent(a) \/ LoadEvent(a)
  BY <1>3, <1>4 DEF Restart, Reload, MainsEvent, PowerEvent, LoadEvent, graph
<1>5. CASE UNCHANGED vars
  BY <1>3, <1>5 DEF vars
<1> QED
  BY <1>2, <1>4, <1>5 DEF Next

(* Power comes over one feed and goes over one link, except below PDUs and *)
(* UPSs and above servers, after any sequence of commands of any number of *)
(* processes that link one at a time (link_assets(), _add_psu(),           *)
(* create_pdu(), create_ups()).                                            *)
THEOREM ChainsStaySingle ==
  ASSUME Patient
  PROVE  Spec => []ChainsAreSingle
<1>1. Init => ForestInv
  <2> SUFFICES ASSUME Init PROVE Linked /\ Forest(powers)
    BY InitType DEF ForestInv
  <2> QED
    BY ModelAssumption DEF ModelAssumption, Init, Linked, AtRest, Linking
<1>2. ForestInv /\ [Next]_vars => ForestInv'
  BY StepForest
<1>3. ForestInv => ChainsAreSingle
  <2> SUFFICES ASSUME ForestInv, NEW a \in nodes
               PROVE  /\ IF Kind[a] = "server" THEN SourcesOf(a) \subseteq Components(a)
                         ELSE AtMostOne(SourcesOf(a))
                      /\ IF Kind[a] \in {"pdu", "ups"} THEN PoweredBy(a) \subseteq Components(a)
                         ELSE AtMostOne(PoweredBy(a))
    BY DEF ChainsAreSingle
  <2>1. \A x, y : <<x, a>> \in powers /\ <<y, a>> \in powers =>
          IF Kind[a] = "server" THEN x \in Components(a) ELSE x = y
    BY DEF ForestInv, Forest
  <2>2. \A x, y : <<a, x>> \in powers /\ <<a, y>> \in powers =>
          IF Kind[a] \in {"pdu", "ups"} THEN x \in Components(a) ELSE x = y
    BY DEF ForestInv, Forest
  <2> QED
    BY <2>1, <2>2 DEF AtMostOne, SourcesOf, PoweredBy
<1> QED
  BY <1>1, <1>2, <1>3, PTL DEF Spec
=============================================================================
