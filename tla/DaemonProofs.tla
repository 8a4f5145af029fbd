----------------------------- MODULE DaemonProofs -----------------------------
(***************************************************************************)
(* Proofs about Daemon for any clients, replay threads, ranges and values, *)
(* and any number of requests: its types; and whatever was replayed in     *)
(* between, the recorder ends up as clients last asked.                    *)
(***************************************************************************)
EXTENDS Daemon, TLAPS

IsSeq(s) == \E S : s \in Seq(S)

\* Sequences of anything: put together and taken apart.
LEMMA EmptyIsSeq == IsSeq(<<>>)
<1>1. <<>> \in Seq({})
  OBVIOUS
<1>2. QED BY <1>1 DEF IsSeq

\* What Append holds: the sequence and the new element.
LEMMA AppendIsSeq ==
  ASSUME NEW s, IsSeq(s), NEW e
  PROVE  /\ IsSeq(Append(s, e)) /\ Append(s, e) # <<>>
         /\ Len(s) \in Nat /\ Len(Append(s, e)) = Len(s) + 1
         /\ \A i \in 1 .. Len(Append(s, e)) :
              \/ i \in 1 .. Len(s) /\ Append(s, e)[i] = s[i]
              \/ i = Len(s) + 1 /\ Append(s, e)[i] = e
<1>1. PICK S : s \in Seq(S)
  BY DEF IsSeq
<1> DEFINE T == S \cup {e}
<1>2. s \in Seq(T)
  BY <1>1
<1>3. Append(s, e) \in Seq(T)
  BY <1>2
<1>4. IsSeq(Append(s, e))
  BY <1>3 DEF IsSeq
<1>5. Append(s, e) # <<>>
  <2>1. Len(Append(s, e)) = Len(s) + 1 /\ Len(s) \in Nat
    BY <1>2
  <2>2. Len(<<>>) = 0
    OBVIOUS
  <2>3. QED BY <2>1, <2>2
<1>6. QED BY <1>2, <1>4, <1>5

\* What a concatenation holds: the one sequence, then the other.
LEMMA ConcatIsSeq ==
  ASSUME NEW s, IsSeq(s), NEW t, IsSeq(t)
  PROVE  /\ IsSeq(s \o t)
         /\ Len(s) \in Nat /\ Len(t) \in Nat /\ Len(s \o t) = Len(s) + Len(t)
         /\ \A i \in 1 .. Len(s \o t) :
              \/ i \in 1 .. Len(s) /\ (s \o t)[i] = s[i]
              \/ i - Len(s) \in 1 .. Len(t) /\ (s \o t)[i] = t[i - Len(s)]
<1>1. PICK S : s \in Seq(S)
  BY DEF IsSeq
<1>2. PICK T : t \in Seq(T)
  BY DEF IsSeq
<1> DEFINE U == S \cup T
<1>3. s \in Seq(U) /\ t \in Seq(U)
  BY <1>1, <1>2
<1>4. s \o t \in Seq(U)
  BY <1>3
<1>5. IsSeq(s \o t)
  BY <1>4 DEF IsSeq
<1>6. QED BY <1>3, <1>5

\* Head and tail of a sequence that is not empty.
LEMMA TailIsSeq ==
  ASSUME NEW s, IsSeq(s), s # <<>>
  PROVE  /\ IsSeq(Tail(s)) /\ Len(s) \in Nat \ {0} /\ Len(Tail(s)) = Len(s) - 1
         /\ Head(s) = s[1]
         /\ \A i \in 1 .. Len(Tail(s)) : i + 1 \in 1 .. Len(s) /\ Tail(s)[i] = s[i + 1]
<1>1. PICK S : s \in Seq(S)
  BY DEF IsSeq
<1>2. Tail(s) \in Seq(S)
  BY <1>1
<1>3. IsSeq(Tail(s))
  BY <1>2 DEF IsSeq
<1>4. QED BY <1>1, <1>3

\* What a part of a sequence holds.
LEMMA SubSeqIsSeq ==
  ASSUME NEW s, IsSeq(s), NEW m \in Nat, NEW n \in Nat, n <= Len(s)
  PROVE  /\ IsSeq(SubSeq(s, m + 1, n))
         /\ Len(SubSeq(s, m + 1, n)) \in Nat
         /\ \A i \in 1 .. Len(SubSeq(s, m + 1, n)) :
              i + m \in 1 .. Len(s) /\ SubSeq(s, m + 1, n)[i] = s[i + m]
<1>1. PICK S : s \in Seq(S)
  BY DEF IsSeq
<1>2. SubSeq(s, m + 1, n) \in Seq(S)
  BY <1>1
<1>3. IsSeq(SubSeq(s, m + 1, n))
  BY <1>2 DEF IsSeq
<1>4. QED BY <1>1, <1>3

-----------------------------------------------------------------------------
\* What the daemon's state holds: events, messages, actions and operations with
\* the fields that their kind needs, and values of the right sort.

SliceKind == {"replay_actions", "clear_actions", "save_actions", "load_actions"}

EventOK(e) ==
  /\ e.kind \in SliceKind => e.slice \in Slice
  /\ e.kind = "set" => e.call \in Calls
  /\ e.kind = "set_recorder_status" => e.on \in BOOLEAN
  /\ e.kind \in {"get_sys_status", "subscribe"} => e.client \in Client
  /\ e.kind \in Quantity => e.old \in Values[e.kind] /\ e.new \in Values[e.kind]
MessageOK(m) ==
  /\ m.kind \in Quantity \cup {"oid", "model"}
  /\ m.kind \in Quantity => m.old \in Values[m.kind] /\ m.new \in Values[m.kind]
ActionOK(c) == c \in Calls
OpOK(o) ==
  /\ o.op \in {"call", "work", "write", "publish"} =>
       o.about \in Quantity /\ o.value \in Values[o.about]
  /\ o.op = "publish" => o.old \in Values[o.about]
  /\ o.op \in {"enabled", "replaying"} => o.on \in BOOLEAN
  /\ o.op = "replay" => o.slice \in Slice
IterationOK(it) ==
  it.kind = "news" => it.about = "status" /\ it.value \in Values["status"]

Events(s) == IsSeq(s) /\ \A i \in 1 .. Len(s) : EventOK(s[i])
LoopTyped == Events(loop)
StreamTyped ==
  /\ DOMAIN stream = Stream
  /\ \A s \in Stream : /\ IsSeq(stream[s])
                       /\ \A i \in 1 .. Len(stream[s]) : MessageOK(stream[s][i])
History(s) == IsSeq(s) /\ \A i \in 1 .. Len(s) : ActionOK(s[i])
HistoryTyped == History(actions) /\ History(file)
\* A randomizer's program never touches the recorder's status.
Program(a, s) ==
  IsSeq(s) /\ \A i \in 1 .. Len(s) :
    OpOK(s[i]) /\ (a = "random" => s[i].op \in {"call", "write", "publish"})
TodoTyped == DOMAIN todo = Actor /\ \A a \in Actor : Program(a, todo[a])

EnvTyped == DOMAIN env = Quantity /\ \A q \in Quantity : env[q] \in Values[q]
IterationsTyped ==
  IsSeq(iterations) /\ \A i \in 1 .. Len(iterations) : IterationOK(iterations[i])

Typed ==
  LoopTyped /\ StreamTyped /\ HistoryTyped /\ TodoTyped /\ EnvTyped /\ IterationsTyped

\* The worker launches one iteration at a time, and there is one to launch.
Single(s, on) ==
  \A i, j \in 1 .. Len(s) :
    s[i].kind = "iteration" => on /\ (s[j].kind = "iteration" => i = j)
Launched == (running => iterations # <<>>) /\ Single(loop, running)

\* A message delivered is an event the loop can handle, and does not stand for
\* an iteration.
LEMMA MessagesAreEvents == \A m : MessageOK(m) => EventOK(m) /\ m.kind # "iteration"
BY DEF MessageOK, EventOK, Quantity, SliceKind

\* The values of a quantity.
LEMMA ValuesOf ==
  /\ Values["voltage"] = Volts /\ Values["ambient"] = Temps /\ Values["status"] = {0, 1}
  /\ Standard \in Values["voltage"] /\ Warm \in Values["ambient"] /\ 0 \in Values["ambient"]
  /\ \A c \in Calls : c.about \in Quantity /\ c.value \in Values[c.about]
  /\ \A q \in Quantity : \A v \in Values[q] : [about |-> q, value |-> v] \in Calls
<1>1. Values["voltage"] = Volts /\ Values["ambient"] = Temps /\ Values["status"] = {0, 1}
  BY DEF Values
<1>2. Standard \in Volts /\ Warm \in Temps /\ 0 \in Temps
  BY DaemonAssumption DEF DaemonAssumption
<1>3. ASSUME NEW c \in Calls PROVE c.about \in Quantity /\ c.value \in Values[c.about]
  <2>1. PICK q \in Quantity : c \in {[about |-> q, value |-> v] : v \in Values[q]}
    BY DEF Calls
  <2>2. PICK v \in Values[q] : c = [about |-> q, value |-> v]
    BY <2>1
  <2>3. QED BY <2>2
<1>4. \A q \in Quantity : \A v \in Values[q] : [about |-> q, value |-> v] \in Calls
  BY DEF Calls
<1>5. QED BY <1>1, <1>2, <1>3, <1>4

\* Queues of events, put together and taken apart.
LEMMA EventsTail ==
  ASSUME NEW s, Events(s), s # <<>>
  PROVE  Events(Tail(s)) /\ EventOK(Head(s))
<1>1. Head(s) = s[1] /\ Len(s) \in Nat \ {0}
  BY TailIsSeq DEF Events
<1>2. EventOK(Head(s))
  BY <1>1 DEF Events
<1>3. QED BY <1>2, TailIsSeq DEF Events

\* Events after events are events.
LEMMA EventsConcat ==
  ASSUME NEW s, Events(s), NEW t, Events(t)
  PROVE  Events(s \o t)
BY ConcatIsSeq DEF Events

\* An event fired after events.
LEMMA EventsAppend ==
  ASSUME NEW s, Events(s), NEW e, EventOK(e)
  PROVE  Events(Append(s, e))
BY AppendIsSeq DEF Events

\* No event, and one.
LEMMA FewEvents ==
  /\ Events(<<>>)
  /\ \A e : EventOK(e) => Events(<<e>>)
<1>1. Events(<<>>)
  BY EmptyIsSeq DEF Events
<1>2. ASSUME NEW e, EventOK(e) PROVE Events(<<e>>)
  <2>1. <<e>> \in Seq({e}) /\ Len(<<e>>) = 1 /\ <<e>>[1] = e
    OBVIOUS
  <2>2. \A i \in 1 .. Len(<<e>>) : <<e>>[i] = e
    BY <2>1
  <2>3. IsSeq(<<e>>)
    BY <2>1 DEF IsSeq
  <2>4. QED BY <1>2, <2>2, <2>3 DEF Events
<1>3. QED BY <1>1, <1>2

\* The first of the iterations is one; so are the others, and one queued.
LEMMA IterationsOK ==
  ASSUME NEW s, IsSeq(s), \A i \in 1 .. Len(s) : IterationOK(s[i])
  PROVE  /\ s # <<>> => /\ IterationOK(Head(s)) /\ IsSeq(Tail(s))
                        /\ \A i \in 1 .. Len(Tail(s)) : IterationOK(Tail(s)[i])
         /\ \A it : IterationOK(it) =>
              /\ IsSeq(Append(s, it)) /\ Append(s, it) # <<>>
              /\ \A i \in 1 .. Len(Append(s, it)) : IterationOK(Append(s, it)[i])
<1>1. ASSUME s # <<>>
      PROVE  /\ IterationOK(Head(s)) /\ IsSeq(Tail(s))
             /\ \A i \in 1 .. Len(Tail(s)) : IterationOK(Tail(s)[i])
  <2>1. /\ IsSeq(Tail(s)) /\ Len(s) \in Nat \ {0} /\ Head(s) = s[1]
        /\ \A i \in 1 .. Len(Tail(s)) : i + 1 \in 1 .. Len(s) /\ Tail(s)[i] = s[i + 1]
    BY <1>1, TailIsSeq
  <2>2. 1 \in 1 .. Len(s)
    BY <2>1
  <2>3. QED BY <2>1, <2>2
<1>2. ASSUME NEW it, IterationOK(it)
      PROVE  /\ IsSeq(Append(s, it)) /\ Append(s, it) # <<>>
             /\ \A i \in 1 .. Len(Append(s, it)) : IterationOK(Append(s, it)[i])
  BY <1>2, AppendIsSeq
<1>3. QED BY <1>1, <1>2

\* The loop's steps keep values and iterations of the right sort.
LEMMA FlowValues ==
  ASSUME Typed, Launched, NEW busy, FlowNext(busy)
  PROVE  EnvTyped' /\ IterationsTyped'
<1> USE DEF Plain, News
<1>1. ASSUME UNCHANGED env PROVE EnvTyped'
  BY <1>1 DEF Typed, EnvTyped
<1>2. ASSUME UNCHANGED iterations PROVE IterationsTyped'
  BY <1>2 DEF Typed, IterationsTyped
<1>3. ASSUME NEW it, IterationOK(it), iterations' = Append(iterations, it)
      PROVE  IterationsTyped'
  BY <1>3, IterationsOK DEF Typed, IterationsTyped
<1>4. CASE HandleVoltageUpdate(busy) \/ HandleOidUpdate(busy)
  <2>1. IterationOK(Plain("voltage")) /\ IterationOK(Plain("oid"))
    BY DEF IterationOK
  <2>2. UNCHANGED env
    BY <1>4 DEF HandleVoltageUpdate, HandleOidUpdate
  <2>3. QED BY <1>1, <1>2, <1>3, <1>4, <2>1, <2>2 DEF HandleVoltageUpdate, HandleOidUpdate
<1>5. CASE HandleStateUpdate(busy)
  <2> DEFINE m == Head(loop)
  <2>1. EventOK(m) /\ m.kind = "status"
    BY <1>5, EventsTail DEF HandleStateUpdate, Dispatch, Typed, LoopTyped
  <2>2. m.new \in Values["status"]
    BY <2>1 DEF EventOK, Quantity
  <2>3. IterationOK(News("status", m.new))
    BY <2>2 DEF IterationOK
  <2>4. UNCHANGED env
    BY <1>5 DEF HandleStateUpdate
  <2>5. QED BY <1>1, <1>2, <1>3, <1>5, <2>3, <2>4 DEF HandleStateUpdate
<1>6. CASE HandleIteration(busy)
  <2> DEFINE it == Head(iterations)
  <2>1. /\ loop # <<>> /\ Head(loop).kind = "iteration" /\ iterations' = Tail(iterations)
        /\ env' = IF it.kind = "news" THEN [env EXCEPT !.status = it.value] ELSE env
    BY <1>6 DEF HandleIteration, Dispatch
  <2>2. Len(loop) \in Nat \ {0} /\ Head(loop) = loop[1]
    BY <2>1, TailIsSeq DEF Typed, LoopTyped, Events
  <2>3. iterations # <<>>
    BY <2>1, <2>2 DEF Launched, Single
  <2>4. IterationOK(it) /\ IterationsTyped'
    BY <2>1, <2>3, IterationsOK DEF Typed, IterationsTyped
  <2> HIDE DEF it
  <2>5. EnvTyped'
    BY <2>1, <2>4 DEF Typed, EnvTyped, IterationOK, Quantity
  <2>6. QED BY <2>4, <2>5
<1>7. CASE \/ Listen(busy) \/ GiveUp \/ Launch \/ HandleAmbientUpdate(busy)
           \/ HandleLoadBranchDone(busy) \/ NotifyClients(busy) \/ HandleStatusRequest(busy)
           \/ HandleSubscribeRequest(busy) \/ HandleDisconnect(busy)
  BY <1>1, <1>2, <1>7 DEF Listen, GiveUp, Launch, HandleAmbientUpdate, HandleLoadBranchDone,
     NotifyClients, HandleStatusRequest, HandleSubscribeRequest, HandleDisconnect
<1>8. QED BY <1>4, <1>5, <1>6, <1>7 DEF FlowNext

\* The loop hands updates on, or handles them, whatever they are.
LEMMA FlowTyped ==
  ASSUME Typed, Launched, NEW busy, FlowNext(busy), UNCHANGED <<recorder, daemon>>
  PROVE  Typed'
<1> USE DEF Plain, News
<1>0. HistoryTyped' /\ TodoTyped' /\ EnvTyped' /\ IterationsTyped'
  <2>1. HistoryTyped' /\ TodoTyped'
    BY DEF Typed, HistoryTyped, TodoTyped, recorder, daemon
  <2>2. QED BY <2>1, FlowValues DEF Typed
<1>1. CASE Listen(busy)
  <2>1. PICK s \in Stream : /\ stream[s] # <<>>
                            /\ loop' = Append(loop, Head(stream[s]))
                            /\ stream' = [stream EXCEPT ![s] = Tail(@)]
    BY <1>1 DEF Listen
  <2>2. /\ IsSeq(Tail(stream[s]))
        /\ \A i \in 1 .. Len(Tail(stream[s])) : MessageOK(Tail(stream[s])[i])
        /\ MessageOK(Head(stream[s]))
    BY <2>1, TailIsSeq DEF Typed, StreamTyped
  <2>3. StreamTyped'
    BY <2>1, <2>2 DEF Typed, StreamTyped
  <2>4. LoopTyped'
    BY <2>1, <2>2, MessagesAreEvents, EventsAppend DEF Typed, LoopTyped
  <2>5. QED BY <1>0, <2>3, <2>4 DEF Typed
<1>2. CASE UNCHANGED <<loop, stream>>
  BY <1>0, <1>2 DEF Typed, LoopTyped, StreamTyped
<1>3. ASSUME UNCHANGED stream, Events(loop')
      PROVE  Typed'
  BY <1>0, <1>3 DEF Typed, StreamTyped, LoopTyped
<1>4. CASE Launch
  <2>1. EventOK(Plain("iteration"))
    BY DEF EventOK, SliceKind, Quantity
  <2>2. Events(loop')
    BY <1>4, <2>1, EventsAppend DEF Launch, Typed, LoopTyped
  <2>3. QED BY <1>3, <1>4, <2>2 DEF Launch
<1>5. CASE \/ HandleStateUpdate(busy) \/ HandleOidUpdate(busy) \/ HandleLoadBranchDone(busy)
           \/ NotifyClients(busy) \/ HandleStatusRequest(busy) \/ HandleSubscribeRequest(busy)
           \/ HandleDisconnect(busy)
  <2>1. loop # <<>> /\ UNCHANGED stream /\ loop' = Tail(loop)
    BY <1>5 DEF HandleStateUpdate, HandleOidUpdate, HandleLoadBranchDone, NotifyClients,
       HandleStatusRequest, HandleSubscribeRequest, HandleDisconnect, Dispatch
  <2>2. QED BY <1>3, <2>1, EventsTail DEF Typed, LoopTyped
<1>6. ASSUME loop # <<>>, UNCHANGED stream,
             NEW t, Events(t), loop' = Tail(loop) \o t
      PROVE  Typed'
  <2>1. Events(Tail(loop))
    BY <1>6, EventsTail DEF Typed, LoopTyped
  <2>2. QED BY <1>3, <1>6, <2>1, EventsConcat
<1>7. \A q, v : EventOK(News(q, v))
  BY DEF EventOK, SliceKind, Quantity
<1>8. CASE HandleVoltageUpdate(busy)
  <2> DEFINE m == Head(loop)
             t == MainsNews(m.old, m.new)
  <2>1. loop # <<>> /\ UNCHANGED stream
    BY <1>8 DEF HandleVoltageUpdate, Dispatch
  <2>2. CASE m.old = m.new
    <3>1. Events(loop')
      BY <1>8, <2>1, <2>2, EventsTail DEF HandleVoltageUpdate, Typed, LoopTyped
    <3>2. QED BY <1>3, <2>1, <3>1
  <2>3. CASE m.old # m.new
    <3>1. loop' = Tail(loop) \o t
      BY <1>8, <2>3 DEF HandleVoltageUpdate
    <3>2. t = <<>> \/ \E v : t = <<News("voltage", v)>>
      BY DEF MainsNews
    <3> HIDE DEF t
    <3>3. Events(t)
      BY <1>7, <3>2, FewEvents
    <3>4. QED BY <1>6, <2>1, <3>1, <3>3
  <2>4. QED BY <2>2, <2>3
<1>9. CASE HandleAmbientUpdate(busy)
  <2> DEFINE m == Head(loop)
             t == IF m.old = m.new THEN <<>> ELSE <<News("ambient", m.new)>>
  <2>1. loop # <<>> /\ UNCHANGED stream /\ loop' = Tail(loop) \o t
    BY <1>9 DEF HandleAmbientUpdate, Dispatch
  <2>2. t = <<>> \/ \E v : t = <<News("ambient", v)>>
    OBVIOUS
  <2> HIDE DEF t
  <2>3. Events(t)
    BY <1>7, <2>2, FewEvents
  <2>4. QED BY <1>6, <2>1, <2>3
<1>10. CASE HandleIteration(busy)
  <2> DEFINE it == Head(iterations)
             press == IF it.kind = "news" THEN <<it>> ELSE <<>>
  <2>1. loop # <<>> /\ UNCHANGED stream /\ loop' = (Tail(loop) \o press) \o <<Plain("done")>>
    BY <1>10 DEF HandleIteration, Dispatch
  <2>2. it.kind = "news" => EventOK(it)
    BY DEF EventOK, SliceKind, Quantity
  <2>3. Events(press)
    BY <2>2, FewEvents
  <2> HIDE DEF press
  <2>4. EventOK(Plain("done"))
    BY DEF EventOK, SliceKind, Quantity
  <2>5. Events(<<Plain("done")>>)
    BY <2>4, FewEvents
  <2>6. Events(Tail(loop) \o press)
    BY <2>1, <2>3, EventsTail, EventsConcat DEF Typed, LoopTyped
  <2>7. Events((Tail(loop) \o press) \o <<Plain("done")>>)
    BY <2>5, <2>6, EventsConcat
  <2>8. QED BY <1>3, <2>1, <2>7
<1>11. QED
  BY <1>1, <1>2, <1>4, <1>5, <1>8, <1>9, <1>10 DEF FlowNext, GiveUp

-----------------------------------------------------------------------------
\* Programs, put together and taken apart.
LEMMA ProgramTail ==
  ASSUME NEW a, NEW s, Program(a, s), s # <<>>
  PROVE  /\ Program(a, Tail(s)) /\ OpOK(Head(s))
         /\ a = "random" => Head(s).op \in {"call", "write", "publish"}
<1>1. Head(s) = s[1] /\ Len(s) \in Nat \ {0}
  BY TailIsSeq DEF Program
<1>2. OpOK(Head(s)) /\ (a = "random" => Head(s).op \in {"call", "write", "publish"})
  BY <1>1 DEF Program
<1>3. QED BY <1>2, TailIsSeq DEF Program

\* A program after a program is one.
LEMMA ProgramConcat ==
  ASSUME NEW a, NEW s, Program(a, s), NEW t, Program(a, t)
  PROVE  Program(a, s \o t)
<1> DEFINE OK(o) == OpOK(o) /\ (a = "random" => o.op \in {"call", "write", "publish"})
<1>1. /\ IsSeq(s) /\ \A i \in 1 .. Len(s) : OK(s[i])
      /\ IsSeq(t) /\ \A i \in 1 .. Len(t) : OK(t[i])
  BY DEF Program
<1> HIDE DEF OK
<1>2. IsSeq(s \o t) /\ \A i \in 1 .. Len(s \o t) : OK((s \o t)[i])
  BY <1>1, ConcatIsSeq
<1>3. QED BY <1>2 DEF Program, OK

\* What a call becomes once it has read the old value: a write, a publication.
Deed(s, q) ==
  /\ IsSeq(s)
  /\ \A i \in 1 .. Len(s) : s[i].op \in {"write", "publish"} /\ s[i].about = q

\* Deeds are programs any actor may have.
LEMMA DeedIsProgram ==
  ASSUME EnvTyped, NEW o, o.about \in Quantity, o.value \in Values[o.about],
         NEW a, NEW s, Deed(s, o.about),
         \A i \in 1 .. Len(s) :
           s[i] \in {DoWrite(o.about, o.value), DoPublish(o.about, env[o.about], o.value)}
  PROVE  Program(a, s)
<1>1. OpOK(DoWrite(o.about, o.value)) /\ OpOK(DoPublish(o.about, env[o.about], o.value))
  BY DEF OpOK, DoWrite, DoPublish, EnvTyped
<1>2. \A i \in 1 .. Len(s) : OpOK(s[i])
  BY <1>1
<1>3. QED BY <1>2 DEF Deed, Program

\* Reading the old value turns a call into its deed.
LEMMA EnterIsDeed ==
  ASSUME NEW a, NEW o, Enter(a, o)
  PROVE  \E s : /\ Deed(s, o.about) /\ Become(a, s)
                /\ \A i \in 1 .. Len(s) :
                     s[i] \in {DoWrite(o.about, o.value),
                              DoPublish(o.about, env[o.about], o.value)}
<1> DEFINE q == o.about
           write == DoWrite(q, o.value)
           publish == DoPublish(q, env[q], o.value)
<1>1. /\ write.op = "write" /\ write.about = q
      /\ publish.op = "publish" /\ publish.about = q
  BY DEF DoWrite, DoPublish
<1>2. \/ Become(a, <<write, publish>>)
      \/ Become(a, <<publish>>)
      \/ Become(a, <<>>)
  BY DEF Enter
<1> HIDE DEF q, write, publish
<1> DEFINE Fits(s) == Deed(s, q) /\ \A i \in 1 .. Len(s) : s[i] \in {write, publish}
<1>3. Fits(<<>>)
  BY EmptyIsSeq DEF Deed
<1>4. Fits(<<publish>>)
  <2>1. <<publish>> \in Seq({publish}) /\ Len(<<publish>>) = 1 /\ <<publish>>[1] = publish
    OBVIOUS
  <2>2. IsSeq(<<publish>>)
    BY <2>1 DEF IsSeq
  <2>3. QED BY <1>1, <2>1, <2>2 DEF Deed
<1>5. Fits(<<write, publish>>)
  <2> DEFINE s == <<write, publish>>
  <2>1. s \in Seq({write, publish}) /\ Len(s) = 2 /\ s[1] = write /\ s[2] = publish
    OBVIOUS
  <2>2. IsSeq(s)
    BY <2>1 DEF IsSeq
  <2>3. \A i \in 1 .. Len(s) : s[i] = write \/ s[i] = publish
    BY <2>1
  <2>4. QED BY <1>1, <2>2, <2>3 DEF Deed
<1> HIDE DEF Fits
<1>6. \E s : Fits(s) /\ Become(a, s)
  BY <1>2, <1>3, <1>4, <1>5
<1>7. QED BY <1>6 DEF q, write, publish, Fits

\* An actor's program gets shorter, or its first operation becomes others.
LEMMA ContinueTyped ==
  ASSUME TodoTyped, NEW a \in Actor, todo[a] # <<>>, Continue(a)
  PROVE  TodoTyped'
BY ProgramTail DEF TodoTyped, Continue

\* The same, when the first operation becomes others.
LEMMA BecomeTyped ==
  ASSUME TodoTyped, NEW a \in Actor, todo[a] # <<>>, NEW s, Program(a, s), Become(a, s)
  PROVE  TodoTyped'
<1>1. Program(a, s \o Tail(todo[a]))
  BY ProgramTail, ProgramConcat DEF TodoTyped
<1>2. QED BY <1>1 DEF TodoTyped, Become

\* What a range selects of a history, and what it leaves.
LEMMA PartIsHistory ==
  ASSUME NEW s, History(s), NEW m \in Nat, NEW n \in Nat, n <= Len(s)
  PROVE  History(SubSeq(s, m + 1, n))
BY SubSeqIsSeq DEF History

\* A history has a length.
LEMMA HistoryLength ==
  ASSUME NEW s, History(s)
  PROVE  Len(s) \in Nat
<1>1. PICK S : s \in Seq(S)
  BY DEF History, IsSeq
<1>2. QED BY <1>1

\* What the recorder's methods keep of a history is one.
LEMMA SliceIsHistory ==
  ASSUME NEW s, History(s), NEW slc \in Slice
  PROVE  History(InSlice(s, slc)) /\ History(OutOfSlice(s, slc))
<1>1. slc[1] \in Nat /\ slc[2] \in Nat /\ Len(s) \in Nat
  BY HistoryLength, DaemonAssumption DEF DaemonAssumption
<1>2. \A k \in Nat : Within(k, s) \in Nat /\ Within(k, s) <= Len(s)
  BY <1>1 DEF Within
<1>3. History(SubSeq(s, slc[1] + 1, Within(slc[2], s)))
  BY <1>1, <1>2, PartIsHistory
<1> DEFINE last == IF slc[1] < slc[2] THEN slc[2] ELSE slc[1]
<1>4. History(SubSeq(s, last + 1, Len(s)))
  BY <1>1, PartIsHistory
<1>5. History(SubSeq(s, 1, Within(slc[1], s)))
  <2>1. History(SubSeq(s, 0 + 1, Within(slc[1], s)))
    BY <1>1, <1>2, PartIsHistory
  <2>2. 0 + 1 = 1
    OBVIOUS
  <2>3. QED BY <2>1, <2>2
<1>6. ASSUME NEW u, History(u), NEW v, History(v) PROVE History(u \o v)
  BY <1>6, ConcatIsSeq DEF History
<1>7. QED BY <1>3, <1>4, <1>5, <1>6 DEF InSlice, OutOfSlice

\* The actions replayed, as a program.
LEMMA ReplayedIsProgram ==
  ASSUME HistoryTyped, NEW slc \in Slice, NEW a, a # "random",
         NEW s, s = [i \in 1 .. Len(InSlice(actions, slc)) |-> DoWork(InSlice(actions, slc)[i])]
  PROVE  /\ Program(a, s)
         /\ \A i \in 1 .. Len(s) : s[i].op = "work"
<1> DEFINE part == InSlice(actions, slc)
<1>2. /\ IsSeq(part) /\ Len(part) \in Nat
      /\ \A i \in 1 .. Len(part) : ActionOK(part[i])
  <2>1. History(part)
    BY SliceIsHistory DEF HistoryTyped
  <2>2. QED BY <2>1, HistoryLength DEF History
<1> HIDE DEF part
<1>3. s = [i \in 1 .. Len(part) |-> DoWork(part[i])]
  BY DEF part
<1>4. Len(s) = Len(part) /\ \A i \in 1 .. Len(s) : s[i] = DoWork(part[i])
  BY <1>2, <1>3
<1>5. \A i \in 1 .. Len(s) :
        s[i].op = "work" /\ s[i].about \in Quantity /\ s[i].value \in Values[s[i].about]
  <2> TAKE i \in 1 .. Len(s)
  <2>1. /\ s[i] = DoWork(part[i])
        /\ part[i].about \in Quantity /\ part[i].value \in Values[part[i].about]
    BY <1>2, <1>4, ValuesOf DEF ActionOK
  <2>2. QED BY <2>1 DEF DoWork
<1>6. s \in Seq({DoWork(part[i]) : i \in 1 .. Len(part)})
  BY <1>2, <1>3
<1>7. IsSeq(s)
  BY <1>6 DEF IsSeq
<1>8. QED BY <1>5, <1>7 DEF Program, OpOK

-----------------------------------------------------------------------------
\* Typed is an invariant: requests, handlers, operations.
LEMMA FewOperations ==
  ASSUME NEW a
  PROVE  /\ \A s : s = <<>> => Program(a, s)
         /\ \A o : OpOK(o) /\ (a = "random" => o.op = "call") => Program(a, <<o>>)
<1>1. ASSUME NEW o, OpOK(o), a = "random" => o.op = "call" PROVE Program(a, <<o>>)
  <2>1. <<o>> \in Seq({o}) /\ Len(<<o>>) = 1 /\ <<o>>[1] = o
    OBVIOUS
  <2>2. IsSeq(<<o>>)
    BY <2>1 DEF IsSeq
  <2>3. \A i \in 1 .. Len(<<o>>) : <<o>>[i] = o
    BY <2>1
  <2>4. QED BY <1>1, <2>2, <2>3 DEF Program
<1>2. QED BY <1>1, EmptyIsSeq DEF Program

\* The loop's program for a reload.
LEMMA ReloadIsProgram == Program("loop", ReloadProgram)
<1> DEFINE p == ReloadProgram
<1> USE DEF DoSet, DoCall, Do
<1>1. p \in Seq({p[1], p[2], p[3], p[4], p[5]}) /\ Len(p) = 5
  BY DEF ReloadProgram
<1>2. IsSeq(p)
  BY <1>1 DEF IsSeq
<1>3. OpOK(p[1]) /\ OpOK(p[2]) /\ OpOK(p[3]) /\ OpOK(p[4]) /\ OpOK(p[5])
  BY ValuesOf DEF ReloadProgram, OpOK, Quantity
<1> HIDE DEF p
<1>4. \A i \in 1 .. Len(p) : i = 1 \/ i = 2 \/ i = 3 \/ i = 4 \/ i = 5
  BY <1>1
<1>5. \A i \in 1 .. Len(p) : OpOK(p[i])
  BY <1>3, <1>4
<1>6. QED BY <1>2, <1>5 DEF Program, p

\* A replay thread's program.
LEMMA ReplayIsProgram ==
  ASSUME NEW a, a # "random", NEW slc \in Slice
  PROVE  Program(a, ReplayProgram(slc))
<1> DEFINE p == ReplayProgram(slc)
<1> USE DEF DoSet, DoReplay, Do
<1>1. p \in Seq({p[1], p[2], p[3], p[4], p[5], p[6]}) /\ Len(p) = 6
  BY DEF ReplayProgram
<1>2. IsSeq(p)
  BY <1>1 DEF IsSeq
<1>3. OpOK(p[1]) /\ OpOK(p[2]) /\ OpOK(p[3]) /\ OpOK(p[4]) /\ OpOK(p[5]) /\ OpOK(p[6])
  BY DEF ReplayProgram, OpOK
<1> HIDE DEF p
<1>4. \A i \in 1 .. Len(p) : i = 1 \/ i = 2 \/ i = 3 \/ i = 4 \/ i = 5 \/ i = 6
  BY <1>1
<1>5. \A i \in 1 .. Len(p) : OpOK(p[i])
  BY <1>3, <1>4
<1>6. QED BY <1>2, <1>5 DEF Program, p

\* A message published.
LEMMA PublishTyped ==
  ASSUME Typed, NEW s \in Stream, NEW m, MessageOK(m), Publish(s, m)
  PROVE  LoopTyped' /\ StreamTyped'
<1>1. stream' = [stream EXCEPT ![s] = Append(@, m)] /\ loop' = loop
  BY DEF Publish
<1>2. /\ IsSeq(Append(stream[s], m))
      /\ \A i \in 1 .. Len(Append(stream[s], m)) : MessageOK(Append(stream[s], m)[i])
  BY AppendIsSeq DEF Typed, StreamTyped
<1>3. QED BY <1>1, <1>2 DEF Typed, StreamTyped, LoopTyped

\* Requests.
Requests ==
  \/ AskForCall \/ AskForStatus \/ AskForReplay \/ AskForActions \/ AskForRandom
  \/ UpdateOid \/ ReloadModel
  \/ \E c \in Client : Connect(c) \/ Disconnect(c)

\* A request joins the loop's queue.
LEMMA AskTyped ==
  ASSUME Typed, NEW e, EventOK(e), Ask(e)
  PROVE  Typed'
<1>1. Events(loop')
  BY EventsAppend DEF Ask, Typed, LoopTyped
<1>2. QED
  BY <1>1 DEF Ask, Typed, LoopTyped, StreamTyped, HistoryTyped, TodoTyped, EnvTyped,
     IterationsTyped, recorder

\* Clients and other processes ask for what the handlers expect.
LEMMA RequestsTyped ==
  ASSUME Typed, Requests
  PROVE  Typed'
<1>1. CASE AskForCall
  <2>1. PICK c \in Calls : Ask([kind |-> "set", call |-> c])
    BY <1>1 DEF AskForCall
  <2>3. EventOK([kind |-> "set", call |-> c])
    BY DEF EventOK, SliceKind, Quantity
  <2>4. QED BY <2>1, <2>3, AskTyped
<1>2. CASE AskForStatus
  <2>1. PICK b \in BOOLEAN : Ask([kind |-> "set_recorder_status", on |-> b])
    BY <1>2 DEF AskForStatus
  <2>2. EventOK([kind |-> "set_recorder_status", on |-> b])
    BY DEF EventOK, SliceKind, Quantity
  <2>3. QED BY <2>1, <2>2, AskTyped
<1>3. CASE AskForReplay \/ AskForActions
  <2>1. PICK slc \in Slice, kind \in SliceKind : Ask([kind |-> kind, slice |-> slc])
    BY <1>3 DEF AskForReplay, AskForActions, SliceKind
  <2>2. EventOK([kind |-> kind, slice |-> slc])
    BY DEF EventOK, SliceKind, Quantity
  <2>3. QED BY <2>1, <2>2, AskTyped
<1>4. CASE AskForRandom
  <2>1. EventOK(Plain("exec_rand_actions"))
    BY DEF EventOK, SliceKind, Quantity, Plain
  <2>2. QED BY <1>4, <2>1, AskTyped DEF AskForRandom
<1>5. ASSUME NEW c \in Client, Disconnect(c) PROVE Typed'
  <2>1. EventOK([kind |-> "disconnect", client |-> c])
    BY DEF EventOK, SliceKind, Quantity
  <2>2. QED BY <1>5, <2>1, AskTyped DEF Disconnect
<1>6. ASSUME NEW c \in Client, Connect(c) PROVE Typed'
  <2> DEFINE e == [kind |-> "get_sys_status", client |-> c]
             f == [kind |-> "subscribe", client |-> c]
             t == <<e, f>>
  <2>1. EventOK(e) /\ EventOK(f)
    BY DEF EventOK, SliceKind, Quantity
  <2> HIDE DEF e, f
  <2>2. t \in Seq({e, f}) /\ Len(t) = 2 /\ t[1] = e /\ t[2] = f
    OBVIOUS
  <2>3. IsSeq(t)
    BY <2>2 DEF IsSeq
  <2>4. \A i \in 1 .. Len(t) : t[i] = e \/ t[i] = f
    BY <2>2
  <2>5. Events(t)
    BY <2>1, <2>3, <2>4 DEF Events
  <2>6. loop' = loop \o t
    BY <1>6 DEF Connect, e, f
  <2>7. Events(loop')
    BY <2>5, <2>6, EventsConcat DEF Typed, LoopTyped
  <2>8. QED
    BY <1>6, <2>7 DEF Connect, Typed, LoopTyped, StreamTyped, HistoryTyped, TodoTyped, EnvTyped,
       IterationsTyped, recorder
<1>7. CASE UpdateOid \/ ReloadModel
  <2>1. PICK s \in Stream, kind \in {"oid", "model"} : PublishPlain(s, kind)
    BY <1>7 DEF UpdateOid, ReloadModel, Stream
  <2>2. MessageOK(Plain(kind))
    BY DEF MessageOK, Plain, Quantity
  <2>3. LoopTyped' /\ StreamTyped'
    BY <2>1, <2>2, PublishTyped DEF PublishPlain
  <2>4. UNCHANGED <<actions, file, todo, env, iterations>>
    BY <2>1 DEF PublishPlain, Publish, recorder
  <2>5. QED
    BY <2>3, <2>4 DEF Typed, HistoryTyped, TodoTyped, EnvTyped, IterationsTyped
<1>8. QED BY <1>1, <1>2, <1>3, <1>4, <1>5, <1>6, <1>7 DEF Requests

\* Handlers.
LEMMA HandleTyped ==
  ASSUME Typed, NEW kind, NEW a \in Actor, NEW ops, Program(a, ops), Handle(kind, a, ops)
  PROVE  Typed'
<1>1. Events(loop')
  BY EventsTail DEF Handle, Dispatch, Typed, LoopTyped
<1>2. TodoTyped'
  BY DEF Handle, Typed, TodoTyped
<1>3. QED
  BY <1>1, <1>2 DEF Handle, Typed, LoopTyped, StreamTyped, HistoryTyped, EnvTyped,
     IterationsTyped, recorder

\* The handlers of requests give programs to actors, or edit the history.
LEMMA ServeTyped ==
  ASSUME Typed, Serve
  PROVE  Typed'
<1>1. ASSUME NEW kind, Dispatch(Busy, kind)
      PROVE  EventOK(Request) /\ Request.kind = kind /\ Events(Tail(loop))
  BY <1>1, EventsTail DEF Dispatch, Typed, LoopTyped, Request
<1>2. "loop" \in Actor /\ "random" \in Actor /\ Replayer \subseteq Actor
      /\ "random" \notin Replayer
  BY DaemonAssumption DEF DaemonAssumption, Actor
<1>3. CASE HandleCall
  <2> DEFINE o == DoCall(Request.call.about, Request.call.value)
  <2>1. Dispatch(Busy, "set") /\ Handle("set", "loop", <<o>>)
    BY <1>3 DEF HandleCall, Handle
  <2>2. Request.call \in Calls
    BY <1>1, <2>1 DEF EventOK
  <2>3. OpOK(o)
    BY <2>2, ValuesOf DEF OpOK, DoCall
  <2> HIDE DEF o
  <2>4. Program("loop", <<o>>)
    BY <2>3, FewOperations
  <2>5. QED BY <1>2, <2>1, <2>4, HandleTyped
<1>4. CASE HandleSetRecorder
  <2> DEFINE o == DoSet("enabled", Request.on)
  <2>1. Dispatch(Busy, "set_recorder_status") /\ Handle("set_recorder_status", "loop", <<o>>)
    BY <1>4 DEF HandleSetRecorder, Handle
  <2>2. OpOK(o)
    BY <1>1, <2>1 DEF OpOK, DoSet, EventOK
  <2> HIDE DEF o
  <2>3. Program("loop", <<o>>)
    BY <2>2, FewOperations
  <2>4. QED BY <1>2, <2>1, <2>3, HandleTyped
<1>5. CASE HandleReload
  BY <1>2, <1>5, ReloadIsProgram, HandleTyped DEF HandleReload
<1>6. CASE HandleReplay
  <2>1. PICK r \in Replayer : Handle("replay_actions", r, ReplayProgram(Request.slice))
    BY <1>6 DEF HandleReplay
  <2>2. Dispatch(Busy, "replay_actions")
    BY <2>1 DEF Handle
  <2>3. Request.slice \in Slice
    BY <1>1, <2>2 DEF EventOK, SliceKind
  <2>4. Program(r, ReplayProgram(Request.slice))
    BY <1>2, <2>3, ReplayIsProgram
  <2>5. QED BY <1>2, <2>1, <2>4, HandleTyped
<1>7. CASE HandleRandom
  <2>1. PICK c \in Calls :
          Handle("exec_rand_actions", "random", <<DoCall(c.about, c.value)>>)
    BY <1>7 DEF HandleRandom
  <2> DEFINE o == DoCall(c.about, c.value)
  <2>3. OpOK(o) /\ o.op = "call"
    BY ValuesOf DEF OpOK, DoCall
  <2>4. Handle("exec_rand_actions", "random", <<o>>)
    BY <2>1
  <2> HIDE DEF o
  <2>5. Program("random", <<o>>)
    BY <2>3, FewOperations
  <2>6. QED BY <1>2, <2>4, <2>5, HandleTyped
<1>8. CASE HandleActions
  <2>1. PICK kind \in SliceKind :
          /\ Dispatch(Busy, kind)
          /\ EraseRange(Request.slice) \/ SaveActions(Request.slice) \/ LoadActions(Request.slice)
    BY <1>8 DEF HandleActions, SliceKind
  <2>2. Request.slice \in Slice /\ Events(Tail(loop))
    BY <1>1, <2>1 DEF EventOK
  <2>3. HistoryTyped'
    BY <2>1, <2>2, SliceIsHistory
    DEF EraseRange, SaveActions, LoadActions, Typed, HistoryTyped
  <2>4. QED
    BY <1>8, <2>2, <2>3 DEF HandleActions, daemon, Typed, LoopTyped, StreamTyped, TodoTyped,
       EnvTyped, IterationsTyped
<1>9. QED BY <1>3, <1>4, <1>5, <1>6, <1>7, <1>8 DEF Serve

\* Operations.
LEMMA StepTyped ==
  ASSUME Typed, NEW a \in Actor, Step(a)
  PROVE  Typed'
<1> USE DEF Next_op
<1>1. ASSUME UNCHANGED <<loop, stream, iterations>>, todo[a] # <<>>,
             UNCHANGED <<actions, file>>, EnvTyped', Continue(a)
      PROVE  Typed'
  BY <1>1, ContinueTyped DEF Typed, LoopTyped, StreamTyped, HistoryTyped, IterationsTyped
<1>2. ASSUME UNCHANGED <<loop, stream, iterations, env>>, todo[a] # <<>>, HistoryTyped',
             NEW s, Program(a, s), Become(a, s)
      PROVE  Typed'
  BY <1>2, BecomeTyped DEF Typed, LoopTyped, StreamTyped, EnvTyped, IterationsTyped
<1>0. UNCHANGED env => EnvTyped'
  BY DEF Typed, EnvTyped
<1>3. todo[a] # <<>> => OpOK(Head(todo[a]))
  BY ProgramTail DEF Typed, TodoTyped
<1>4. CASE CallRecorded(a) \/ CallReplayed(a)
  <2> DEFINE o == Head(todo[a])
             c == [about |-> o.about, value |-> o.value]
  <2>1. /\ todo[a] # <<>> /\ Enter(a, o) /\ UNCHANGED <<loop, stream, iterations, env>>
        /\ o.about \in Quantity /\ o.value \in Values[o.about]
        /\ Record(c) \/ UNCHANGED recorder
    BY <1>3, <1>4 DEF CallRecorded, CallReplayed, OpOK, flow
  <2>2. PICK s : /\ Deed(s, o.about) /\ Become(a, s)
                 /\ \A i \in 1 .. Len(s) :
                      s[i] \in {DoWrite(o.about, o.value),
                               DoPublish(o.about, env[o.about], o.value)}
    BY <2>1, EnterIsDeed
  <2>3. Program(a, s)
    BY <2>1, <2>2, DeedIsProgram DEF Typed
  <2>4. ActionOK(c)
    BY <2>1, ValuesOf DEF ActionOK
  <2> HIDE DEF c
  <2>5. History(Append(actions, c))
    BY <2>4, AppendIsSeq DEF Typed, HistoryTyped, History
  <2>6. HistoryTyped'
    BY <2>1, <2>5 DEF Record, recorder, Typed, HistoryTyped
  <2>7. QED BY <1>2, <2>1, <2>2, <2>3, <2>6
<1>5. CASE Write(a)
  <2> DEFINE o == Head(todo[a])
  <2>1. o.about \in Quantity /\ o.value \in Values[o.about]
    BY <1>3, <1>5 DEF Write, OpOK
  <2>2. env' = [env EXCEPT ![o.about] = o.value]
    BY <1>5 DEF Write, WriteEnv
  <2>3. EnvTyped'
    BY <2>1, <2>2 DEF Typed, EnvTyped
  <2>4. QED BY <1>1, <1>5, <2>3 DEF Write, WriteEnv, recorder
<1>6. CASE PublishUpdate(a)
  <2> DEFINE o == Head(todo[a])
             m == Update(o.about, o.old, o.value)
  <2>1. /\ todo[a] # <<>> /\ Publish(StreamOf[o.about], m) /\ o.about \in Quantity
        /\ o.old \in Values[o.about] /\ o.value \in Values[o.about]
    BY <1>3, <1>6 DEF PublishUpdate, OpOK
  <2>2. StreamOf[o.about] \in Stream
    BY <2>1 DEF StreamOf, Stream, Quantity
  <2>3. MessageOK(m)
    BY <2>1 DEF MessageOK, Update
  <2> HIDE DEF m
  <2>4. LoopTyped' /\ StreamTyped'
    BY <2>1, <2>2, <2>3, PublishTyped
  <2>5. EnvTyped' /\ IterationsTyped'
    BY <2>1 DEF Publish, Typed, EnvTyped, IterationsTyped
  <2>6. QED
    BY <1>6, <2>4, <2>5, ContinueTyped DEF PublishUpdate, recorder, Typed, HistoryTyped
<1>7. CASE SetStatus(a)
  BY <1>0, <1>1, <1>7 DEF SetStatus, SetEnabled, flow
<1>8. CASE a = "loop" /\ Initialize
  <2>1. EnvTyped'
    BY <1>8, ValuesOf DEF Initialize, Typed, EnvTyped, Quantity
  <2>2. QED BY <1>1, <1>8, <2>1 DEF Initialize, recorder
<1>9. CASE SaveStatus(a)
  BY <1>0, <1>1, <1>9 DEF SaveStatus, flow, recorder
<1>10. CASE RestoreStatus(a)
  BY <1>0, <1>1, <1>10 DEF RestoreStatus, SetEnabled, flow
<1>11. CASE SetReplayStatus(a)
  BY <1>0, <1>1, <1>11 DEF SetReplayStatus, SetReplaying, flow
<1>12. CASE a \in Replayer /\ ReplayActions(a)
  <2> DEFINE slc == Head(todo[a]).slice
             s == [i \in 1 .. Len(InSlice(actions, slc)) |-> DoWork(InSlice(actions, slc)[i])]
  <2>1. /\ todo[a] # <<>> /\ Head(todo[a]).op = "replay" /\ Become(a, s)
        /\ UNCHANGED <<loop, stream, actions, file, iterations, env>>
    BY <1>12 DEF ReplayActions, flow, recorder
  <2>2. slc \in Slice /\ a # "random"
    BY <1>3, <1>12, <2>1, DaemonAssumption DEF OpOK, DaemonAssumption
  <2> HIDE DEF s
  <2>3. Program(a, s)
    BY <2>2, ReplayedIsProgram DEF Typed, s
  <2>4. HistoryTyped'
    BY <2>1 DEF Typed, HistoryTyped
  <2>5. QED BY <1>2, <2>1, <2>3, <2>4
<1>13. QED
  BY <1>4, <1>5, <1>6, <1>7, <1>8, <1>9, <1>10, <1>11, <1>12 DEF Step

-----------------------------------------------------------------------------
\* Launched is an invariant: the loop's queue, put together and taken apart.
LEMMA SingleTail ==
  ASSUME NEW s, IsSeq(s), s # <<>>, NEW on, Single(s, on)
  PROVE  /\ Single(Tail(s), on)
         /\ Head(s).kind = "iteration" => on /\ Single(Tail(s), FALSE)
<1>1. /\ Len(s) \in Nat \ {0} /\ Head(s) = s[1]
      /\ \A i \in 1 .. Len(Tail(s)) : i + 1 \in 1 .. Len(s) /\ Tail(s)[i] = s[i + 1]
  BY TailIsSeq
<1>2. ASSUME NEW i \in 1 .. Len(Tail(s)), Tail(s)[i].kind = "iteration"
      PROVE  /\ on /\ Head(s).kind # "iteration"
             /\ \A j \in 1 .. Len(Tail(s)) : Tail(s)[j].kind = "iteration" => i = j
  <2>1. i + 1 \in 1 .. Len(s) /\ s[i + 1].kind = "iteration" /\ 1 \in 1 .. Len(s)
    BY <1>1, <1>2
  <2>2. on /\ \A j \in 1 .. Len(s) : s[j].kind = "iteration" => i + 1 = j
    BY <2>1 DEF Single
  <2>3. Head(s).kind # "iteration"
    BY <1>1, <2>1, <2>2
  <2>4. \A j \in 1 .. Len(Tail(s)) : Tail(s)[j].kind = "iteration" => i = j
    BY <1>1, <2>2
  <2>5. QED BY <2>2, <2>3, <2>4
<1>3. Head(s).kind = "iteration" => on
  <2>1. 1 \in 1 .. Len(s)
    BY <1>1
  <2>2. QED BY <1>1, <2>1 DEF Single
<1>4. QED BY <1>2, <1>3 DEF Single

\* After a queue, one that announces no iteration.
LEMMA SingleConcat ==
  ASSUME NEW s, IsSeq(s), NEW t, IsSeq(t), NEW on, Single(s, on), Single(t, FALSE)
  PROVE  Single(s \o t, on)
<1> DEFINE u == s \o t
<1>1. ASSUME NEW i \in 1 .. Len(u), u[i].kind = "iteration"
      PROVE  i \in 1 .. Len(s) /\ s[i].kind = "iteration"
  BY <1>1, ConcatIsSeq DEF Single
<1>2. QED BY <1>1 DEF Single

\* After a queue, one event.
LEMMA SingleAppend ==
  ASSUME NEW s, IsSeq(s), NEW e, NEW on, Single(s, on), e.kind # "iteration" \/ (on /\ Single(s, FALSE))
  PROVE  Single(Append(s, e), on)
BY AppendIsSeq DEF Single

\* No event, and one that announces no iteration.
LEMMA FewSingle ==
  Single(<<>>, FALSE) /\ \A e : e.kind # "iteration" => Single(<<e>>, FALSE)
<1>1. Len(<<>>) = 0 /\ \A e : Len(<<e>>) = 1 /\ <<e>>[1] = e
  OBVIOUS
<1>2. QED BY <1>1 DEF Single

\* The loop's own steps.
LEMMA FlowLaunched ==
  ASSUME Typed, Launched, NEW busy, FlowNext(busy)
  PROVE  Launched'
<1> USE DEF Plain, News
<1>0. IsSeq(loop) /\ Single(loop, running)
  BY DEF Typed, LoopTyped, Events, Launched
<1>1. running' = running => (iterations' = iterations => (running' => iterations' # <<>>))
  BY DEF Launched
<1>2. \A it : IterationOK(it) => Append(iterations, it) # <<>>
  BY IterationsOK DEF Typed, IterationsTyped
<1>3. loop # <<>> => IsSeq(Tail(loop)) /\ Single(Tail(loop), running)
  BY <1>0, TailIsSeq, SingleTail
<1>4. CASE Listen(busy)
  <2>1. PICK s \in Stream : stream[s] # <<>> /\ loop' = Append(loop, Head(stream[s]))
    BY <1>4 DEF Listen
  <2>2. MessageOK(Head(stream[s]))
    BY <2>1, TailIsSeq DEF Typed, StreamTyped
  <2>3. Single(loop', running)
    BY <1>0, <2>1, <2>2, MessagesAreEvents, SingleAppend
  <2>4. QED BY <1>1, <1>4, <2>3 DEF Listen, Launched
<1>5. CASE Launch
  <2>1. Single(loop, TRUE) /\ Single(loop, FALSE)
    BY <1>0, <1>5 DEF Launch, Single
  <2>2. Single(loop', TRUE)
    BY <1>0, <1>5, <2>1, SingleAppend DEF Launch
  <2>3. QED BY <1>5, <2>2 DEF Launch, Launched
<1>6. CASE HandleIteration(busy)
  <2> DEFINE it == Head(iterations)
             press == IF it.kind = "news" THEN <<it>> ELSE <<>>
  <2>1. /\ loop # <<>> /\ Head(loop).kind = "iteration" /\ running' = FALSE
        /\ loop' = (Tail(loop) \o press) \o <<Plain("done")>>
    BY <1>6 DEF HandleIteration, Dispatch
  <2>2. IsSeq(Tail(loop)) /\ Single(Tail(loop), FALSE)
    BY <1>0, <2>1, TailIsSeq, SingleTail
  <2>3. Single(press, FALSE) /\ Single(<<Plain("done")>>, FALSE)
    BY FewSingle
  <2>4. IsSeq(press) /\ IsSeq(<<Plain("done")>>)
    <3>1. \A e : <<e>> \in Seq({e})
      OBVIOUS
    <3>2. \A e : IsSeq(<<e>>)
      BY <3>1 DEF IsSeq
    <3>3. QED BY <3>2, EmptyIsSeq
  <2> HIDE DEF press
  <2>5. IsSeq(Tail(loop) \o press) /\ Single(Tail(loop) \o press, FALSE)
    BY <2>2, <2>3, <2>4, ConcatIsSeq, SingleConcat
  <2>6. Single(loop', FALSE)
    BY <2>1, <2>3, <2>4, <2>5, SingleConcat
  <2>7. QED BY <2>1, <2>6 DEF Launched
<1>7. CASE HandleVoltageUpdate(busy)
  <2> DEFINE t == IF Head(loop).old = Head(loop).new THEN <<>>
                  ELSE MainsNews(Head(loop).old, Head(loop).new)
  <2>1. t = <<>> \/ \E v : t = <<News("voltage", v)>>
    BY DEF MainsNews
  <2>2. loop # <<>> /\ (loop' = Tail(loop) \/ loop' = Tail(loop) \o t) /\ running' = running
    BY <1>7 DEF HandleVoltageUpdate, Dispatch
  <2> HIDE DEF t
  <2>3. IsSeq(t) /\ Single(t, FALSE)
    <3>1. \A e : <<e>> \in Seq({e})
      OBVIOUS
    <3>2. \A e : IsSeq(<<e>>)
      BY <3>1 DEF IsSeq
    <3>3. QED BY <2>1, <3>2, EmptyIsSeq, FewSingle
  <2>4. Single(loop', running)
    BY <1>3, <2>2, <2>3, SingleConcat
  <2>5. running' => iterations' # <<>>
    <3>1. IterationOK(Plain("voltage"))
      BY DEF IterationOK
    <3>2. iterations' = iterations \/ iterations' = Append(iterations, Plain("voltage"))
      BY <1>7 DEF HandleVoltageUpdate
    <3>3. QED BY <1>1, <1>2, <2>2, <3>1, <3>2
  <2>6. QED BY <2>2, <2>4, <2>5 DEF Launched
<1>8. CASE HandleAmbientUpdate(busy)
  <2> DEFINE t == IF Head(loop).old = Head(loop).new THEN <<>>
                  ELSE <<News("ambient", Head(loop).new)>>
  <2>1. t = <<>> \/ \E v : t = <<News("ambient", v)>>
    OBVIOUS
  <2>2. loop # <<>> /\ loop' = Tail(loop) \o t /\ UNCHANGED <<running, iterations>>
    BY <1>8 DEF HandleAmbientUpdate, Dispatch
  <2> HIDE DEF t
  <2>3. IsSeq(t) /\ Single(t, FALSE)
    <3>1. \A e : <<e>> \in Seq({e})
      OBVIOUS
    <3>2. \A e : IsSeq(<<e>>)
      BY <3>1 DEF IsSeq
    <3>3. QED BY <2>1, <3>2, EmptyIsSeq, FewSingle
  <2>4. Single(loop', running)
    BY <1>3, <2>2, <2>3, SingleConcat
  <2>5. QED BY <1>1, <2>2, <2>4 DEF Launched
<1>9. CASE HandleStateUpdate(busy) \/ HandleOidUpdate(busy)
  <2>1. loop # <<>> /\ loop' = Tail(loop) /\ running' = running
    BY <1>9 DEF HandleStateUpdate, HandleOidUpdate, Dispatch
  <2>2. running' => iterations' # <<>>
    <3>1. \/ iterations' = iterations
          \/ iterations' = Append(iterations, Plain("oid"))
          \/ iterations' = Append(iterations, News("status", Head(loop).new))
      BY <1>9 DEF HandleStateUpdate, HandleOidUpdate
    <3>2. IsSeq(iterations)
      BY DEF Typed, IterationsTyped
    <3>3. \A it : Append(iterations, it) # <<>>
      BY <3>2, AppendIsSeq
    <3>4. QED BY <1>1, <2>1, <3>1, <3>3
  <2>3. QED BY <1>3, <2>1, <2>2 DEF Launched
<1>10. CASE \/ GiveUp \/ HandleLoadBranchDone(busy) \/ NotifyClients(busy)
            \/ HandleStatusRequest(busy) \/ HandleSubscribeRequest(busy) \/ HandleDisconnect(busy)
  <2>1. UNCHANGED <<running, iterations>> /\ (loop' = loop \/ (loop # <<>> /\ loop' = Tail(loop)))
    BY <1>10 DEF GiveUp, HandleLoadBranchDone, NotifyClients, HandleStatusRequest,
       HandleSubscribeRequest, HandleDisconnect, Dispatch
  <2>2. QED BY <1>0, <1>1, <1>3, <2>1 DEF Launched
<1>11. QED BY <1>4, <1>5, <1>6, <1>7, <1>8, <1>9, <1>10 DEF FlowNext

\* What clients and other processes ask for is no iteration; a request handled
\* leaves the rest of the queue.
LEMMA RequestsLaunched ==
  ASSUME Typed, Launched, Requests \/ Serve
  PROVE  Launched'
<1>0. IsSeq(loop) /\ Single(loop, running) /\ UNCHANGED <<running, iterations>>
  <2>1. IsSeq(loop) /\ Single(loop, running)
    BY DEF Typed, LoopTyped, Events, Launched
  <2>2. UNCHANGED <<running, iterations>>
    BY DEF Requests, AskForCall, AskForStatus, AskForReplay, AskForActions, AskForRandom, Ask,
       Connect, Disconnect, UpdateOid, ReloadModel, PublishPlain, Publish,
       Serve, HandleCall, HandleSetRecorder, HandleReload, HandleReplay, HandleRandom,
       HandleActions, Handle
  <2>3. QED BY <2>1, <2>2
<1>1. ASSUME NEW e, e.kind # "iteration", Ask(e) PROVE Single(loop', running)
  BY <1>0, <1>1, SingleAppend DEF Ask
<1>2. ASSUME NEW c, Connect(c) PROVE Single(loop', running)
  <2> DEFINE e == [kind |-> "get_sys_status", client |-> c]
             f == [kind |-> "subscribe", client |-> c]
             t == <<e, f>>
  <2>1. loop' = loop \o t
    BY <1>2 DEF Connect
  <2>2. e.kind # "iteration" /\ f.kind # "iteration"
    OBVIOUS
  <2> HIDE DEF e, f
  <2>3. t \in Seq({e, f}) /\ Len(t) = 2 /\ t[1] = e /\ t[2] = f
    OBVIOUS
  <2>4. IsSeq(t)
    BY <2>3 DEF IsSeq
  <2>5. Single(t, FALSE)
    BY <2>2, <2>3 DEF Single
  <2> HIDE DEF t
  <2>6. QED BY <1>0, <2>1, <2>4, <2>5, SingleConcat
<1>3. ASSUME UpdateOid \/ ReloadModel \/ Serve PROVE Single(loop', running)
  <2>1. loop' = loop \/ (loop # <<>> /\ loop' = Tail(loop))
    BY <1>3 DEF UpdateOid, ReloadModel, PublishPlain, Publish, Serve, HandleCall,
       HandleSetRecorder, HandleReload, HandleReplay, HandleRandom, HandleActions, Handle, Dispatch
  <2>2. QED BY <1>0, <2>1, SingleTail
<1>4. Single(loop', running)
  BY <1>0, <1>1, <1>2, <1>3 DEF Requests, AskForCall, AskForStatus, AskForReplay, AskForActions,
     AskForRandom, Disconnect, Plain
<1>5. QED BY <1>0, <1>4 DEF Launched

\* Typed and Launched hold from the start and after every step.
LEMMA TypedIsInvariant ==
  /\ Init => Typed /\ Launched
  /\ Typed /\ Launched /\ [Next]_vars => Typed' /\ Launched'
<1>1. ASSUME Init PROVE Typed /\ Launched
  <2>1. EnvTyped /\ IterationsTyped
    BY <1>1, EmptyIsSeq, ValuesOf DEF Init, FlowInit, EnvTyped, IterationsTyped, Quantity
  <2>2. LoopTyped /\ StreamTyped /\ HistoryTyped /\ TodoTyped
    BY <1>1, EmptyIsSeq
    DEF Init, FlowInit, RecorderInit, LoopTyped, Events, StreamTyped, HistoryTyped, History,
        TodoTyped, Program
  <2>3. Launched
    BY <1>1, FewSingle DEF Init, FlowInit, Launched
  <2>4. QED BY <2>1, <2>2, <2>3 DEF Typed
<1>2. ASSUME Typed, Launched, Next PROVE Typed'
  BY <1>2, RequestsTyped, ServeTyped, FlowTyped, StepTyped DEF Next, Requests, Flow
<1>3. ASSUME Typed, UNCHANGED vars PROVE Typed'
  BY <1>3 DEF vars, flow, recorder, daemon, Typed, LoopTyped, StreamTyped, HistoryTyped, TodoTyped,
     EnvTyped, IterationsTyped
<1>4. ASSUME Launched, UNCHANGED <<loop, running, iterations>> PROVE Launched'
  BY <1>4 DEF Launched
<1>5. \A a \in Actor : Step(a) => UNCHANGED <<loop, running, iterations>>
  BY DEF Step, CallRecorded, CallReplayed, Write, WriteEnv, PublishUpdate, Publish, SetStatus,
     Initialize, SaveStatus, RestoreStatus, SetReplayStatus, ReplayActions, flow
<1>6. ASSUME Typed, Launched, Next PROVE Launched'
  BY <1>4, <1>5, <1>6, RequestsLaunched, FlowLaunched DEF Next, Requests, Flow
<1>7. UNCHANGED vars => UNCHANGED <<loop, running, iterations>>
  BY DEF vars, flow
<1>8. QED BY <1>1, <1>2, <1>3, <1>4, <1>6, <1>7

-----------------------------------------------------------------------------
\* Type correctness.

\* Whatever a history keeps may be recorded.
LEMMA HistoryIsSeq ==
  ASSUME NEW s, History(s)
  PROVE  s \in Seq(Call)
<1>1. PICK S : s \in Seq(S)
  BY DEF History, IsSeq
<1>2. \A i \in 1 .. Len(s) : s[i] \in Call
  BY CallAssumption DEF History, ActionOK, CallAssumption
<1>3. QED BY <1>1, <1>2

\* Neither what a range selects of a history nor what it leaves is longer.
LEMMA SliceIsShort ==
  ASSUME NEW s, History(s), NEW slc \in Slice
  PROVE  Len(InSlice(s, slc)) <= Len(s) /\ Len(OutOfSlice(s, slc)) <= Len(s)
<1>1. slc[1] \in Nat /\ slc[2] \in Nat /\ s \in Seq(Call) /\ Len(s) \in Nat
  BY HistoryIsSeq, DaemonAssumption DEF DaemonAssumption
<1>2. \A k \in Nat : Within(k, s) \in Nat /\ Within(k, s) <= Len(s) /\ Within(k, s) <= k
  BY <1>1 DEF Within
<1>3. \A m, n \in Nat : n <= Len(s) =>
        /\ SubSeq(s, m + 1, n) \in Seq(Call)
        /\ Len(SubSeq(s, m + 1, n)) = IF m <= n THEN n - m ELSE 0
  BY <1>1
<1>4. Len(InSlice(s, slc)) <= Len(s)
  <2> DEFINE k == Within(slc[2], s)
             j == slc[1]
  <2>1. k \in Nat /\ k <= Len(s) /\ j \in Nat
    BY <1>1, <1>2
  <2>2. InSlice(s, slc) = SubSeq(s, j + 1, k)
    BY DEF InSlice
  <2> HIDE DEF k, j
  <2>3. Len(SubSeq(s, j + 1, k)) = IF j <= k THEN k - j ELSE 0
    BY <1>3, <2>1
  <2>4. QED BY <1>1, <2>1, <2>2, <2>3
<1> DEFINE m == Within(slc[1], s)
           n == IF slc[1] < slc[2] THEN slc[2] ELSE slc[1]
           t == SubSeq(s, 1, m)
           u == SubSeq(s, n + 1, Len(s))
<1>5. m \in Nat /\ n \in Nat /\ m <= n /\ m <= Len(s)
  <2>1. m \in Nat /\ m <= Len(s) /\ m <= slc[1]
    BY <1>1, <1>2
  <2>2. n \in Nat /\ slc[1] <= n
    BY <1>1
  <2> HIDE DEF m, n
  <2>3. QED BY <1>1, <2>1, <2>2
<1>6. t \in Seq(Call) /\ Len(t) = m
  <2>1. 0 + 1 = 1 /\ 0 \in Nat
    OBVIOUS
  <2> HIDE DEF m
  <2>2. SubSeq(s, 0 + 1, m) \in Seq(Call) /\ Len(SubSeq(s, 0 + 1, m)) = IF 0 <= m THEN m - 0 ELSE 0
    BY <1>3, <1>5
  <2>3. QED BY <1>5, <2>1, <2>2
<1>7. u \in Seq(Call) /\ Len(u) = IF n <= Len(s) THEN Len(s) - n ELSE 0
  <2> HIDE DEF n
  <2>1. QED BY <1>1, <1>3, <1>5
<1>8. OutOfSlice(s, slc) = t \o u
  BY DEF OutOfSlice
<1> HIDE DEF m, n, t, u
<1>9. Len(t \o u) = Len(t) + Len(u)
  BY <1>6, <1>7
<1>10. Len(OutOfSlice(s, slc)) <= Len(s)
  BY <1>1, <1>5, <1>6, <1>7, <1>8, <1>9
<1>11. QED BY <1>4, <1>10

\* The parts of TypeOK that Typed and Launched do not give.
FlowFlags ==
  /\ waiting \in BOOLEAN /\ running \in BOOLEAN /\ loadDone \in Nat
  /\ subscribers \subseteq Client /\ reloaded \in BOOLEAN
Bounded ==
  /\ Len(actions) <= MaxHistory /\ Len(file) <= MaxHistory
  /\ enabled \in BOOLEAN /\ replaying \in BOOLEAN
Noted ==
  /\ saved \in [Replayer -> BOOLEAN] /\ wanted \in BOOLEAN /\ asked \in 0 .. MaxRequests

\* Together they are TypeOK.
LEMMA TypeOKInParts == Typed /\ Launched => (TypeOK <=> FlowFlags /\ Bounded /\ Noted)
BY HistoryIsSeq
DEF TypeOK, FlowTypeOK, RecorderTypeOK, Typed, Launched, EnvTyped, StreamTyped, TodoTyped,
    HistoryTyped, FlowFlags, Bounded, Noted

\* The loop's flags and the clients that subscribe.
LEMMA FlowFlagsStep ==
  ASSUME Typed, FlowFlags, NEW busy, FlowNext(busy)
  PROVE  FlowFlags'
<1>1. CASE HandleSubscribeRequest(busy)
  <2>1. EventOK(Head(loop)) /\ Head(loop).kind = "subscribe"
    BY <1>1, EventsTail DEF HandleSubscribeRequest, Dispatch, Typed, LoopTyped
  <2>2. Head(loop).client \in Client
    BY <2>1 DEF EventOK
  <2>3. QED BY <1>1, <2>2 DEF HandleSubscribeRequest, FlowFlags
<1>2. CASE HandleDisconnect(busy)
  BY <1>2 DEF HandleDisconnect, FlowFlags
<1>3. CASE HandleVoltageUpdate(busy) \/ HandleStateUpdate(busy)
  <2>1. WaitLoadQueue \/ UNCHANGED <<waiting, loadDone>>
    BY <1>3 DEF HandleVoltageUpdate, HandleStateUpdate
  <2>2. waiting' \in BOOLEAN
    BY <2>1, Zenon DEF WaitLoadQueue, FlowFlags
  <2>4. loadDone' \in Nat
    BY <2>1 DEF WaitLoadQueue, FlowFlags
  <2>3. UNCHANGED <<running, subscribers, reloaded>>
    BY <1>3 DEF HandleVoltageUpdate, HandleStateUpdate
  <2>5. QED BY <2>2, <2>3, <2>4 DEF FlowFlags
<1>4. CASE GiveUp \/ Launch \/ HandleIteration(busy) \/ HandleLoadBranchDone(busy)
  <2>1. /\ waiting' = waiting \/ waiting' = FALSE
        /\ running' = running \/ running' = TRUE \/ running' = FALSE
        /\ loadDone' = loadDone \/ loadDone' = loadDone + 1
        /\ UNCHANGED <<subscribers, reloaded>>
    BY <1>4 DEF GiveUp, Launch, HandleIteration, HandleLoadBranchDone
  <2>2. waiting' \in BOOLEAN /\ running' \in BOOLEAN
    BY <2>1, Zenon DEF FlowFlags
  <2>3. loadDone' \in Nat
    BY <2>1 DEF FlowFlags
  <2>4. QED BY <2>1, <2>2, <2>3 DEF FlowFlags
<1>5. CASE \/ Listen(busy) \/ HandleAmbientUpdate(busy) \/ HandleOidUpdate(busy)
           \/ NotifyClients(busy) \/ HandleStatusRequest(busy)
  <2>1. UNCHANGED <<waiting, running, loadDone, subscribers, reloaded>>
    BY <1>5 DEF Listen, HandleAmbientUpdate, HandleOidUpdate, NotifyClients, HandleStatusRequest
  <2>2. QED BY <2>1 DEF FlowFlags
<1>6. QED BY <1>1, <1>2, <1>3, <1>4, <1>5 DEF FlowNext

\* An operation of any actor.
LEMMA StepTypes ==
  ASSUME Typed, FlowFlags, Bounded, Noted, NEW a \in Actor, Step(a)
  PROVE  FlowFlags' /\ Bounded' /\ Noted'
<1> DEFINE o == Head(todo[a])
<1>1. todo[a] # <<>> => OpOK(o)
  BY ProgramTail DEF Typed, TodoTyped
<1>2. UNCHANGED flow => FlowFlags'
  BY DEF flow, FlowFlags
<1>3. UNCHANGED recorder => Bounded'
  BY DEF recorder, Bounded
<1>4. UNCHANGED <<saved, wanted, asked>> => Noted'
  BY DEF Noted
<1>5. CASE CallRecorded(a)
  <2>1. PICK c : Record(c)
    BY <1>5 DEF CallRecorded
  <2>2. IsSeq(actions) /\ Len(actions) \in Nat /\ MaxHistory \in Nat
    BY HistoryLength, DaemonAssumption DEF Typed, HistoryTyped, History, DaemonAssumption
  <2>3. Len(Append(actions, c)) = Len(actions) + 1
    BY <2>2, AppendIsSeq
  <2>4. actions' = actions \/ (actions' = Append(actions, c) /\ Len(actions) < MaxHistory)
    BY <2>1 DEF Record
  <2>5. Len(actions') <= MaxHistory
    BY <2>2, <2>3, <2>4 DEF Bounded
  <2>6. Bounded'
    BY <2>1, <2>5 DEF Record, Bounded
  <2>7. QED BY <1>2, <1>4, <1>5, <2>6 DEF CallRecorded
<1>6. CASE CallReplayed(a) \/ ReplayActions(a)
  BY <1>2, <1>3, <1>4, <1>6 DEF CallReplayed, ReplayActions
<1>7. CASE Write(a) \/ PublishUpdate(a)
  <2>1. UNCHANGED <<waiting, running, loadDone, subscribers, reloaded>>
    BY <1>7 DEF Write, WriteEnv, PublishUpdate, Publish
  <2>2. FlowFlags'
    BY <2>1 DEF FlowFlags
  <2>3. QED BY <1>3, <1>4, <1>7, <2>2 DEF Write, PublishUpdate
<1>8. CASE SetStatus(a)
  <2>1. o.on \in BOOLEAN
    BY <1>1, <1>8 DEF SetStatus, Next_op, OpOK
  <2> HIDE DEF o
  <2>2. /\ enabled' = (IF replaying THEN enabled ELSE o.on)
        /\ wanted' = (IF a = "loop" /\ ~replaying THEN o.on ELSE wanted)
        /\ UNCHANGED <<actions, replaying, file, saved, asked>> /\ UNCHANGED flow
    BY <1>8 DEF SetStatus, SetEnabled, o
  <2>3. enabled' \in BOOLEAN
    BY <2>1, <2>2, Zenon DEF Bounded
  <2>4. wanted' \in BOOLEAN
    BY <2>1, <2>2, Zenon DEF Noted
  <2>5. QED BY <1>2, <2>2, <2>3, <2>4 DEF Bounded, Noted
<1>9. CASE a = "loop" /\ Initialize
  <2>1. reloaded' = TRUE /\ UNCHANGED <<waiting, running, loadDone, subscribers>>
    BY <1>9 DEF Initialize
  <2>2. FlowFlags'
    BY <2>1 DEF FlowFlags
  <2>3. QED BY <1>3, <1>4, <1>9, <2>2 DEF Initialize
<1>10. CASE SaveStatus(a)
  <2>1. saved' = [saved EXCEPT ![a] = enabled] /\ UNCHANGED <<wanted, asked, recorder, flow>>
    BY <1>10 DEF SaveStatus
  <2>2. saved' \in [Replayer -> BOOLEAN]
    BY <2>1 DEF Noted, Bounded
  <2>3. QED BY <1>2, <1>3, <2>1, <2>2 DEF Noted
<1>11. CASE a \in Replayer /\ RestoreStatus(a)
  <2>1. /\ enabled' = (IF replaying THEN enabled ELSE saved[a])
        /\ UNCHANGED <<actions, replaying, file, saved, wanted, asked, flow>>
    BY <1>11 DEF RestoreStatus, SetEnabled
  <2>2. saved[a] \in BOOLEAN
    BY <1>11 DEF Noted
  <2>3. enabled' \in BOOLEAN
    BY <2>1, <2>2, Zenon DEF Bounded
  <2>4. QED BY <1>2, <1>4, <2>1, <2>3 DEF Bounded
<1>12. CASE SetReplayStatus(a)
  <2>1. o.on \in BOOLEAN
    BY <1>1, <1>12 DEF SetReplayStatus, Next_op, OpOK
  <2>2. replaying' = o.on /\ UNCHANGED <<actions, enabled, file, saved, wanted, asked, flow>>
    BY <1>12 DEF SetReplayStatus, SetReplaying
  <2> HIDE DEF o
  <2>3. replaying' \in BOOLEAN
    BY <2>1, <2>2, Zenon
  <2>4. QED BY <1>2, <1>4, <2>2, <2>3 DEF Bounded
<1>13. QED
  BY <1>5, <1>6, <1>7, <1>8, <1>9, <1>10, <1>11, <1>12 DEF Step

\* Requests are counted, and those that edit the history keep it short.
LEMMA RequestsTypes ==
  ASSUME Typed, FlowFlags, Bounded, Noted, Requests \/ Serve
  PROVE  FlowFlags' /\ Bounded' /\ Noted'
<1>1. FlowFlags'
  <2>1. UNCHANGED <<waiting, running, loadDone, subscribers, reloaded>>
    BY DEF Requests, AskForCall, AskForStatus, AskForReplay, AskForActions, AskForRandom, Ask,
       Connect, Disconnect, UpdateOid, ReloadModel, PublishPlain, Publish,
       Serve, HandleCall, HandleSetRecorder, HandleReload, HandleReplay, HandleRandom,
       HandleActions, Handle
  <2>2. QED BY <2>1 DEF FlowFlags
<1>2. ASSUME Requests PROVE Bounded' /\ Noted'
  <2>1. /\ asked < MaxRequests /\ asked' = asked + 1
        /\ UNCHANGED <<recorder, saved, wanted>>
    BY <1>2 DEF Requests, AskForCall, AskForStatus, AskForReplay, AskForActions, AskForRandom, Ask,
       Connect, Disconnect, UpdateOid, ReloadModel, PublishPlain
  <2>2. asked' \in 0 .. MaxRequests
    BY <2>1, DaemonAssumption DEF Noted, DaemonAssumption
  <2>3. QED BY <2>1, <2>2 DEF Bounded, Noted, recorder
<1>3. ASSUME Serve PROVE Noted'
  BY <1>3 DEF Serve, HandleCall, HandleSetRecorder, HandleReload, HandleReplay, HandleRandom,
     HandleActions, Handle, daemon, Noted
<1>4. CASE HandleCall \/ HandleSetRecorder \/ HandleReload \/ HandleReplay \/ HandleRandom
  <2>1. UNCHANGED recorder
    BY <1>4 DEF HandleCall, HandleSetRecorder, HandleReload, HandleReplay, HandleRandom, Handle
  <2>2. Serve
    BY <1>4 DEF Serve
  <2>3. QED BY <1>1, <1>3, <2>1, <2>2 DEF recorder, Bounded
<1>5. CASE HandleActions
  <2>1. PICK kind \in SliceKind :
          /\ Dispatch(Busy, kind)
          /\ EraseRange(Request.slice) \/ SaveActions(Request.slice) \/ LoadActions(Request.slice)
    BY <1>5 DEF HandleActions, SliceKind
  <2>2. EventOK(Request) /\ Request.kind = kind
    BY <2>1, EventsTail DEF Dispatch, Typed, LoopTyped, Request
  <2>3. Request.slice \in Slice
    BY <2>1, <2>2 DEF EventOK
  <2>4. /\ Len(InSlice(actions, Request.slice)) <= Len(actions)
        /\ Len(OutOfSlice(actions, Request.slice)) <= Len(actions)
        /\ Len(InSlice(file, Request.slice)) <= Len(file)
    BY <2>3, SliceIsShort DEF Typed, HistoryTyped
  <2>5. /\ Len(InSlice(actions, Request.slice)) \in Nat
        /\ Len(OutOfSlice(actions, Request.slice)) \in Nat
        /\ Len(InSlice(file, Request.slice)) \in Nat
        /\ Len(actions) \in Nat /\ Len(file) \in Nat /\ MaxHistory \in Nat
    BY <2>3, SliceIsHistory, HistoryLength, DaemonAssumption
    DEF Typed, HistoryTyped, DaemonAssumption
  <2>6. /\ \/ actions' = actions \/ actions' = OutOfSlice(actions, Request.slice)
           \/ actions' = InSlice(file, Request.slice)
        /\ file' = file \/ file' = InSlice(actions, Request.slice)
        /\ UNCHANGED <<enabled, replaying>>
    BY <2>1 DEF EraseRange, SaveActions, LoadActions
  <2>7. Len(actions') <= MaxHistory /\ Len(file') <= MaxHistory
    BY <2>4, <2>5, <2>6 DEF Bounded
  <2>8. Serve
    BY <1>5 DEF Serve
  <2>9. QED BY <1>1, <1>3, <2>6, <2>7, <2>8 DEF Bounded
<1>6. QED BY <1>1, <1>2, <1>4, <1>5 DEF Serve

\* Type correctness: events, messages, programs and actions keep the fields and
\* values their kinds need on every way through the daemon, and an iteration is
\* launched, one at a time, only when there is one.
THEOREM TypeCorrect == Spec => []TypeOK
<1> DEFINE IInv == Typed /\ Launched /\ FlowFlags /\ Bounded /\ Noted
<1>1. Init => IInv
  <2> SUFFICES ASSUME Init PROVE IInv
    OBVIOUS
  <2>1. FlowFlags
    BY DEF Init, FlowInit, FlowFlags
  <2>2. Bounded
    <3>1. Len(<<>>) = 0 /\ MaxHistory \in Nat
      BY DaemonAssumption DEF DaemonAssumption
    <3>2. actions = <<>> /\ file = <<>> /\ enabled = TRUE /\ replaying = FALSE
      BY DEF Init, RecorderInit
    <3>3. Len(actions) <= MaxHistory /\ Len(file) <= MaxHistory
      BY <3>1, <3>2
    <3>4. enabled \in BOOLEAN /\ replaying \in BOOLEAN
      BY <3>2
    <3>5. QED BY <3>3, <3>4 DEF Bounded
  <2>3. Noted
    <3>1. saved \in [Replayer -> BOOLEAN] /\ wanted \in BOOLEAN
      BY DEF Init
    <3>2. asked \in 0 .. MaxRequests
      BY DaemonAssumption DEF Init, DaemonAssumption
    <3>3. QED BY <3>1, <3>2 DEF Noted
  <2>4. QED BY <2>1, <2>2, <2>3, TypedIsInvariant
<1>2. IInv /\ [Next]_vars => IInv'
  <2> SUFFICES ASSUME IInv, [Next]_vars PROVE IInv'
    OBVIOUS
  <2>1. Typed' /\ Launched'
    BY TypedIsInvariant
  <2>2. ASSUME Flow PROVE FlowFlags' /\ Bounded' /\ Noted'
    <3>1. FlowFlags'
      BY <2>2, FlowFlagsStep DEF Flow
    <3>2. Bounded' /\ Noted'
      BY <2>2 DEF Flow, recorder, daemon, Bounded, Noted
    <3>3. QED BY <3>1, <3>2
  <2>3. ASSUME UNCHANGED vars PROVE FlowFlags' /\ Bounded' /\ Noted'
    <3>1. FlowFlags'
      BY <2>3 DEF vars, flow, FlowFlags
    <3>2. Bounded' /\ Noted'
      BY <2>3 DEF vars, recorder, daemon, Bounded, Noted
    <3>3. QED BY <3>1, <3>2
  <2>4. FlowFlags' /\ Bounded' /\ Noted'
    BY <2>2, <2>3, RequestsTypes, StepTypes DEF Next, Requests
  <2>5. QED BY <2>1, <2>4
<1>3. IInv => TypeOK
  BY TypeOKInParts
<1>4. QED BY <1>1, <1>2, <1>3, PTL DEF Spec

-----------------------------------------------------------------------------
\* What is left of a replay: its last two operations, after the actions being
\* replayed; or what comes before those, up to all of ReplayProgram.
WorkOps == {"work", "write", "publish"}
Ending(p) ==
  /\ IsSeq(p) /\ Len(p) >= 1
  /\ p[Len(p)].op = "restore"
  /\ Len(p) >= 2 => p[Len(p) - 1].op = "replaying" /\ p[Len(p) - 1].on = FALSE
Working(p) == Ending(p) /\ \A i \in 1 .. Len(p) - 2 : p[i].op \in WorkOps
Starting(p) ==
  /\ Ending(p) /\ Len(p) \in 3 .. 6
  /\ p[Len(p) - 2].op = "replay"
  /\ Len(p) >= 4 => p[Len(p) - 3].op = "replaying" /\ p[Len(p) - 3].on = TRUE
  /\ Len(p) >= 5 => p[Len(p) - 4].op = "enabled" /\ p[Len(p) - 4].on = FALSE
  /\ Len(p) >= 6 => p[Len(p) - 5].op = "save"
Shape(p) == p = <<>> \/ Working(p) \/ Starting(p)

\* A replay that has noted the recorder's status, and is yet to put it back;
\* one that counts as running.
InProgress(p) == Working(p) \/ (Starting(p) /\ Len(p) <= 5)
During(p) == (Working(p) /\ Len(p) >= 2) \/ (Starting(p) /\ Len(p) = 3)

\* A replay with something left to do.
LEMMA NotEmpty ==
  ASSUME NEW p, Ending(p)
  PROVE  p # <<>> /\ Len(p) \in Nat
<1>1. PICK S : p \in Seq(S)
  BY DEF Ending, IsSeq
<1>2. QED BY <1>1 DEF Ending

\* The next operation of a replay tells how far it is.
LEMMA ShapeHead ==
  ASSUME NEW p, Shape(p), p # <<>>, NEW o, o = Head(p)
  PROVE  \/ o.op = "save" /\ Starting(p) /\ Len(p) = 6
         \/ o.op = "enabled" /\ o.on = FALSE /\ Starting(p) /\ Len(p) = 5
         \/ o.op = "replaying" /\ o.on = TRUE /\ Starting(p) /\ Len(p) = 4
         \/ o.op = "replay" /\ Starting(p) /\ Len(p) = 3
         \/ o.op \in WorkOps /\ Working(p) /\ Len(p) >= 3
         \/ o.op = "replaying" /\ o.on = FALSE /\ Working(p) /\ Len(p) = 2
         \/ o.op = "restore" /\ Working(p) /\ Len(p) = 1
<1>1. Len(p) \in Nat /\ Len(p) >= 1 /\ Ending(p) /\ Head(p) = p[1]
  BY NotEmpty, TailIsSeq DEF Shape, Working, Starting, Ending
<1> DEFINE n == Len(p)
<1>2. n \in Nat /\ n >= 1 /\ o = p[1]
  BY <1>1
<1>3. CASE Working(p)
  <2>1. /\ p[n].op = "restore"
        /\ n >= 2 => p[n - 1].op = "replaying" /\ p[n - 1].on = FALSE
        /\ \A i \in 1 .. n - 2 : p[i].op \in WorkOps
    BY <1>3 DEF Working, Ending
  <2> HIDE DEF n
  <2>2. \/ o.op = "restore" /\ n = 1
        \/ o.op = "replaying" /\ o.on = FALSE /\ n = 2
        \/ o.op \in WorkOps /\ n >= 3
    <3>1. CASE n = 1
      BY <1>2, <2>1, <3>1
    <3>2. CASE n = 2
      BY <1>2, <2>1, <3>2
    <3>3. CASE n >= 3
      BY <1>2, <2>1, <3>3
    <3>4. n = 1 \/ n = 2 \/ n >= 3
      BY <1>2
    <3>5. QED BY <3>1, <3>2, <3>3, <3>4
  <2>3. QED BY <1>3, <2>2 DEF n
<1>4. CASE Starting(p)
  <2>1. /\ n \in 3 .. 6
        /\ p[n - 2].op = "replay"
        /\ n >= 4 => p[n - 3].op = "replaying" /\ p[n - 3].on = TRUE
        /\ n >= 5 => p[n - 4].op = "enabled" /\ p[n - 4].on = FALSE
        /\ n >= 6 => p[n - 5].op = "save"
    BY <1>4 DEF Starting
  <2> HIDE DEF n
  <2>2. \/ o.op = "save" /\ n = 6
        \/ o.op = "enabled" /\ o.on = FALSE /\ n = 5
        \/ o.op = "replaying" /\ o.on = TRUE /\ n = 4
        \/ o.op = "replay" /\ n = 3
    <3>1. CASE n = 3
      BY <1>2, <2>1, <3>1
    <3>2. CASE n = 4
      BY <1>2, <2>1, <3>2
    <3>3. CASE n = 5
      BY <1>2, <2>1, <3>3
    <3>4. CASE n = 6
      BY <1>2, <2>1, <3>4
    <3>5. QED BY <2>1, <3>1, <3>2, <3>3, <3>4
  <2>3. QED BY <1>4, <2>2 DEF n
<1>5. QED BY <1>3, <1>4 DEF Shape

\* A replay goes on as it began.
LEMMA ShapeTail ==
  ASSUME NEW p
  PROVE  /\ Starting(p) /\ Len(p) \in 4 .. 6 => Starting(Tail(p)) /\ Len(Tail(p)) = Len(p) - 1
         /\ Working(p) /\ Len(p) >= 2 => Working(Tail(p)) /\ Len(Tail(p)) = Len(p) - 1
         /\ Working(p) /\ Len(p) = 1 => Tail(p) = <<>>
<1>1. ASSUME Ending(p)
      PROVE  /\ IsSeq(Tail(p)) /\ Len(p) \in Nat /\ Len(Tail(p)) = Len(p) - 1
             /\ \A i \in 1 .. Len(p) - 1 : Tail(p)[i] = p[i + 1]
  BY <1>1, NotEmpty, TailIsSeq DEF Ending
<1>2. ASSUME Ending(p), Len(p) >= 2
      PROVE  Ending(Tail(p))
  <2>1. Tail(p)[Len(p) - 1] = p[Len(p)]
    BY <1>1, <1>2
  <2>2. Len(p) >= 3 => Tail(p)[Len(p) - 2] = p[Len(p) - 1]
    BY <1>1, <1>2
  <2> DEFINE q == Tail(p)
  <2>3. /\ IsSeq(q) /\ Len(q) = Len(p) - 1 /\ Len(p) \in Nat /\ Len(p) - 1 >= 1
        /\ Len(q) - 1 = Len(p) - 2
        /\ q[Len(p) - 1] = p[Len(p)]
        /\ Len(p) >= 3 => q[Len(p) - 2] = p[Len(p) - 1]
    BY <1>1, <1>2, <2>1, <2>2
  <2> HIDE DEF q
  <2>4. q[Len(q)].op = "restore"
    BY <1>2, <2>3 DEF Ending
  <2>5. Len(q) >= 2 => q[Len(q) - 1].op = "replaying" /\ q[Len(q) - 1].on = FALSE
    BY <1>2, <2>3 DEF Ending
  <2>6. Ending(q)
    BY <2>3, <2>4, <2>5 DEF Ending
  <2>7. QED BY <2>6 DEF q
<1>3. ASSUME Starting(p), Len(p) \in 4 .. 6 PROVE Starting(Tail(p))
  <2>1. Ending(Tail(p))
    BY <1>2, <1>3 DEF Starting
  <2> DEFINE q == Tail(p)
  <2>2. /\ Len(q) = Len(p) - 1 /\ Len(p) \in Nat
        /\ q[Len(p) - 3] = p[Len(p) - 2]
        /\ Len(p) >= 5 => q[Len(p) - 4] = p[Len(p) - 3]
        /\ Len(p) >= 6 => q[Len(p) - 5] = p[Len(p) - 4]
    <3>1. /\ Len(q) = Len(p) - 1 /\ Len(p) \in Nat
          /\ \A i \in 1 .. Len(p) - 1 : q[i] = p[i + 1]
      BY <1>1, <1>3 DEF Starting
    <3> HIDE DEF q
    <3>2. \A n \in 4 .. 6 :
            /\ n - 3 \in 1 .. n - 1 /\ (n - 3) + 1 = n - 2
            /\ n >= 5 => n - 4 \in 1 .. n - 1 /\ (n - 4) + 1 = n - 3
            /\ n >= 6 => n - 5 \in 1 .. n - 1 /\ (n - 5) + 1 = n - 4
      OBVIOUS
    <3> DEFINE n == Len(p)
    <3>3. n \in Nat /\ n \in 4 .. 6 /\ \A i \in 1 .. n - 1 : q[i] = p[i + 1]
      BY <1>3, <3>1
    <3>4. Len(q) = n - 1
      BY <3>1
    <3> HIDE DEF n
    <3>5. /\ q[n - 3] = p[n - 2]
          /\ n >= 5 => q[n - 4] = p[n - 3]
          /\ n >= 6 => q[n - 5] = p[n - 4]
      BY <3>2, <3>3
    <3>6. QED BY <3>3, <3>4, <3>5 DEF n
  <2> HIDE DEF q
  <2>3. Len(q) - 2 = Len(p) - 3 /\ Len(q) - 3 = Len(p) - 4 /\ Len(q) - 4 = Len(p) - 5
    BY <2>2
  <2>4. Len(q) \in 3 .. 5
    BY <1>3, <2>2
  <2>5. q[Len(q) - 2].op = "replay"
    BY <1>3, <2>2, <2>3 DEF Starting
  <2>6. Len(q) >= 4 => q[Len(q) - 3].op = "replaying" /\ q[Len(q) - 3].on = TRUE
    BY <1>3, <2>2, <2>3 DEF Starting
  <2>7. Len(q) >= 5 => q[Len(q) - 4].op = "enabled" /\ q[Len(q) - 4].on = FALSE
    BY <1>3, <2>2, <2>3 DEF Starting
  <2>8. Ending(q)
    BY <2>1 DEF q
  <2>9. Len(q) \in 3 .. 6 /\ ~(Len(q) >= 6)
    <3>1. \A n \in 3 .. 5 : n \in 3 .. 6 /\ ~(n >= 6)
      OBVIOUS
    <3>2. QED BY <2>4, <3>1
  <2>10. Starting(q)
    BY <2>5, <2>6, <2>7, <2>8, <2>9 DEF Starting
  <2>11. QED BY <2>10 DEF q
<1>4. ASSUME Working(p), Len(p) >= 2 PROVE Working(Tail(p))
  <2>1. Ending(Tail(p))
    BY <1>2, <1>4 DEF Working
  <2>2. \A i \in 1 .. Len(Tail(p)) - 2 : Tail(p)[i].op \in WorkOps
    <3> TAKE i \in 1 .. Len(Tail(p)) - 2
    <3>1. i + 1 \in 1 .. Len(p) - 2 /\ Tail(p)[i] = p[i + 1]
      BY <1>1, <1>4 DEF Working
    <3>2. QED BY <1>4, <3>1 DEF Working
  <2>3. QED BY <2>1, <2>2 DEF Working
<1>5. ASSUME Working(p), Len(p) = 1 PROVE Tail(p) = <<>>
  <2>1. IsSeq(Tail(p)) /\ Len(Tail(p)) = 0
    BY <1>1, <1>5 DEF Working
  <2> DEFINE t == Tail(p)
  <2>2. PICK S : t \in Seq(S)
    BY <2>1 DEF IsSeq
  <2>3. Len(t) = 0
    BY <2>1
  <2> HIDE DEF t
  <2>4. t = <<>>
    BY <2>2, <2>3
  <2>5. QED BY <2>4 DEF t
<1>6. QED BY <1>1, <1>3, <1>4, <1>5 DEF Working, Starting

\* The same, length by length.
LEMMA ShapeTails ==
  ASSUME NEW p
  PROVE  /\ Starting(p) /\ Len(p) = 6 => Starting(Tail(p)) /\ Len(Tail(p)) = 5
         /\ Starting(p) /\ Len(p) = 5 => Starting(Tail(p)) /\ Len(Tail(p)) = 4
         /\ Starting(p) /\ Len(p) = 4 => Starting(Tail(p)) /\ Len(Tail(p)) = 3
         /\ Working(p) /\ Len(p) >= 3 => Working(Tail(p)) /\ Len(Tail(p)) >= 2
         /\ Working(p) /\ Len(p) = 2 => Working(Tail(p)) /\ Len(Tail(p)) = 1
         /\ Working(p) /\ Len(p) = 1 => Tail(p) = <<>>
<1> DEFINE n == Len(p)
           m == Len(Tail(p))
<1>1. /\ Starting(p) /\ n \in 4 .. 6 => Starting(Tail(p)) /\ m = n - 1
      /\ Working(p) /\ n >= 2 => Working(Tail(p)) /\ m = n - 1
      /\ Working(p) /\ n = 1 => Tail(p) = <<>>
  BY ShapeTail
<1>2. Working(p) => n \in Nat
  BY NotEmpty DEF Working
<1> HIDE DEF n, m
<1>3. \A k \in Nat : k >= 3 => k >= 2 /\ k - 1 >= 2
  OBVIOUS
<1>4. Working(p) /\ n >= 3 => Working(Tail(p)) /\ m >= 2
  BY <1>1, <1>2, <1>3
<1>5. Working(p) /\ n = 2 => Working(Tail(p)) /\ m = 1
  BY <1>1
<1>6. Starting(p) /\ n = 6 => Starting(Tail(p)) /\ m = 5
  BY <1>1
<1>7. Starting(p) /\ n = 5 => Starting(Tail(p)) /\ m = 4
  BY <1>1
<1>8. Starting(p) /\ n = 4 => Starting(Tail(p)) /\ m = 3
  BY <1>1
<1>9. QED BY <1>1, <1>4, <1>5, <1>6, <1>7, <1>8 DEF n, m

\* The actions replayed, and what a call becomes, come before the ending.
LEMMA ShapeBecome ==
  ASSUME NEW p, (Starting(p) /\ Len(p) = 3) \/ (Working(p) /\ Len(p) >= 3),
         NEW s, IsSeq(s), \A i \in 1 .. Len(s) : s[i].op \in WorkOps
  PROVE  Working(s \o Tail(p)) /\ Len(s \o Tail(p)) >= 2
<1> DEFINE t == Tail(p)
<1>1. Working(t) /\ Len(t) \in Nat /\ Len(t) >= 2
  <2>1. CASE Working(p) /\ Len(p) >= 3
    BY <2>1, ShapeTail, NotEmpty DEF Working
  <2>2. CASE Starting(p) /\ Len(p) = 3
    <3>0. IsSeq(p) /\ p # <<>> /\ Ending(p) /\ Len(p) = 3
      BY <2>2, NotEmpty DEF Starting, Ending
    <3>1. /\ IsSeq(t) /\ Len(t) = 2
          /\ \A i \in 1 .. Len(t) : t[i] = p[i + 1]
      BY <3>0, TailIsSeq
    <3> HIDE DEF t
    <3>2. t[1] = p[2] /\ t[2] = p[3]
      BY <3>1
    <3>4. /\ p[3].op = "restore" /\ p[2].op = "replaying" /\ p[2].on = FALSE
      <4>1. 3 - 1 = 2
        OBVIOUS
      <4>2. QED BY <3>0, <4>1 DEF Ending
    <3>5. Ending(t)
      <4>1. 2 - 1 = 1
        OBVIOUS
      <4>2. QED BY <3>1, <3>2, <3>4, <4>1 DEF Ending
    <3>6. \A i \in 1 .. Len(t) - 2 : t[i].op \in WorkOps
      BY <3>1
    <3>7. Working(t)
      BY <3>5, <3>6 DEF Working
    <3>8. QED BY <3>1, <3>7
  <2>3. QED BY <2>1, <2>2
<1> HIDE DEF t
<1> DEFINE u == s \o t
<1>2. IsSeq(t)
  BY <1>1 DEF Working, Ending
<1>3. /\ IsSeq(u) /\ Len(s) \in Nat /\ Len(u) = Len(s) + Len(t)
      /\ \A i \in 1 .. Len(u) :
           \/ i \in 1 .. Len(s) /\ u[i] = s[i]
           \/ i - Len(s) \in 1 .. Len(t) /\ u[i] = t[i - Len(s)]
  BY <1>2, ConcatIsSeq
<1> HIDE DEF u
<1>4. u[Len(u)] = t[Len(t)] /\ u[Len(u) - 1] = t[Len(t) - 1]
  BY <1>1, <1>3
<1>5. Ending(u)
  BY <1>1, <1>3, <1>4 DEF Working, Ending
<1>6. ASSUME NEW i \in 1 .. Len(u) - 2 PROVE u[i].op \in WorkOps
  <2>1. CASE i \in 1 .. Len(s) /\ u[i] = s[i]
    BY <2>1
  <2>2. CASE i - Len(s) \in 1 .. Len(t) /\ u[i] = t[i - Len(s)]
    <3>1. i - Len(s) \in 1 .. Len(t) - 2
      BY <1>1, <1>3, <2>2
    <3>2. QED BY <1>1, <2>2, <3>1 DEF Working
  <2>3. QED BY <1>1, <1>3, <2>1, <2>2
<1>7. Working(u) /\ Len(u) >= 2
  BY <1>1, <1>3, <1>5, <1>6 DEF Working
<1>8. QED BY <1>7 DEF u, t

\* A replay that has not read its actions yet is not replaying them.
LEMMA NotBoth ==
  ASSUME NEW p, Starting(p)
  PROVE  ~Working(p)
<1>1. Len(p) - 2 \in 1 .. Len(p) - 2
  <2>1. \A n \in 3 .. 6 : n - 2 \in 1 .. n - 2
    OBVIOUS
  <2>2. QED BY <2>1 DEF Starting
<1>2. p[Len(p) - 2].op \notin WorkOps
  BY DEF Starting, WorkOps
<1>3. QED BY <1>1, <1>2 DEF Working

\* A new replay has all of its program to do, and has noted nothing.
LEMMA ReplayIsStarting ==
  ASSUME NEW slc
  PROVE  Shape(ReplayProgram(slc)) /\ ~InProgress(ReplayProgram(slc))
<1> DEFINE p == ReplayProgram(slc)
<1> USE DEF DoSet, DoReplay, Do
<1>1. /\ p \in Seq({p[1], p[2], p[3], p[4], p[5], p[6]}) /\ Len(p) = 6
  BY DEF ReplayProgram
<1>2. /\ p[1].op = "save"
      /\ p[2].op = "enabled" /\ p[2].on = FALSE
      /\ p[3].op = "replaying" /\ p[3].on = TRUE
      /\ p[4].op = "replay"
      /\ p[5].op = "replaying" /\ p[5].on = FALSE
      /\ p[6].op = "restore"
  BY DEF ReplayProgram
<1>3. IsSeq(p)
  BY <1>1 DEF IsSeq
<1> HIDE DEF p
<1>4. Ending(p)
  BY <1>1, <1>2, <1>3 DEF Ending
<1>5. Starting(p)
  BY <1>1, <1>2, <1>4 DEF Starting
<1>6. ~Working(p)
  BY <1>1, <1>2 DEF Working, WorkOps
<1>7. QED BY <1>1, <1>5, <1>6 DEF Shape, InProgress, p

-----------------------------------------------------------------------------
\* One replay at a time is between noting the recorder's status and giving it
\* back.  It noted what clients wanted, and they cannot want anything else until
\* it is done; the recorder counts as replaying while it runs.  When there is
\* none, the recorder does what clients want.
Restored ==
  /\ DOMAIN saved = Replayer
  /\ \A r \in Replayer : Shape(todo[r])
  /\ \A r, s \in Replayer : InProgress(todo[r]) /\ InProgress(todo[s]) => r = s
  /\ \A r \in Replayer :
       InProgress(todo[r]) => saved[r] = wanted /\ (replaying <=> During(todo[r]))
  /\ (\A r \in Replayer : ~InProgress(todo[r])) => ~replaying /\ enabled = wanted

\* Whatever leaves the replays and the recorder's status alone.
LEMMA RestoredElsewhere ==
  ASSUME Restored, UNCHANGED <<saved, wanted, enabled, replaying>>,
         \A r \in Replayer : todo'[r] = todo[r]
  PROVE  Restored'
BY DEF Restored

\* An operation of a replay in progress that changes neither its status nor the
\* recorder's.
LEMMA RestoredWithin ==
  ASSUME Restored, UNCHANGED <<saved, wanted, enabled, replaying>>,
         NEW r \in Replayer, \A x \in Replayer \ {r} : todo'[x] = todo[x],
         InProgress(todo[r]), InProgress(todo'[r]),
         During(todo'[r]) <=> During(todo[r]), Shape(todo'[r])
  PROVE  Restored'
BY DEF Restored

\* Settled, in the words of Restored.
LEMMA SettledReplays ==
  ASSUME Patient, Restored, NEW a, Settled(a)
  PROVE  \A r \in Replayer \ {a} : InProgress(todo[r]) => replaying /\ a = "loop"
<1> TAKE r \in Replayer \ {a}
<1> HAVE InProgress(todo[r])
<1>1. todo[r] # <<>>
  BY NotEmpty DEF InProgress, Working, Starting
<1>2. ~Next_op(r, "save")
  <2>1. CASE Head(todo[r]).op = "save"
    <3>1. Starting(todo[r]) /\ Len(todo[r]) = 6
      BY <1>1, <2>1, ShapeHead DEF Restored, WorkOps
    <3>2. QED BY <3>1, NotBoth DEF InProgress
  <2>2. QED BY <2>1 DEF Next_op
<1>3. QED BY <1>1, <1>2 DEF Settled

\* Requests, updates and edits of the history leave replays alone.
LEMMA RequestsRestored ==
  ASSUME Restored, Requests \/ Flow \/ HandleActions
  PROVE  Restored'
<1>1. UNCHANGED <<saved, wanted, enabled, replaying, todo>>
  BY DEF Requests, AskForCall, AskForStatus, AskForReplay, AskForActions, AskForRandom, Ask,
     Connect, Disconnect, UpdateOid, ReloadModel, PublishPlain, Flow, HandleActions,
     EraseRange, SaveActions, LoadActions, recorder, daemon
<1>2. QED BY <1>1, RestoredElsewhere

\* The handlers of requests start replays; none has noted the status yet.
LEMMA ServeRestored ==
  ASSUME Typed, Restored, Serve
  PROVE  Restored'
<1>1. "loop" \notin Replayer /\ "random" \notin Replayer
  BY DaemonAssumption DEF DaemonAssumption
<1>2. ASSUME NEW kind, NEW a, a \notin Replayer, NEW ops, Handle(kind, a, ops)
      PROVE  Restored'
  <2>1. UNCHANGED <<saved, wanted, enabled, replaying>> /\ \A r \in Replayer : todo'[r] = todo[r]
    BY <1>2 DEF Handle, recorder, Typed, TodoTyped, Actor
  <2>2. QED BY <2>1, RestoredElsewhere
<1>3. CASE HandleCall \/ HandleSetRecorder \/ HandleReload \/ HandleRandom
  BY <1>1, <1>2, <1>3 DEF HandleCall, HandleSetRecorder, HandleReload, HandleRandom
<1>4. CASE HandleReplay
  <2>1. PICK r \in Replayer : Handle("replay_actions", r, ReplayProgram(Request.slice))
    BY <1>4 DEF HandleReplay
  <2> DEFINE p == ReplayProgram(Request.slice)
  <2>2. Shape(p) /\ ~InProgress(p)
    BY ReplayIsStarting
  <2> HIDE DEF p
  <2>3. /\ UNCHANGED <<saved, wanted, enabled, replaying>>
        /\ todo[r] = <<>> /\ todo'[r] = p
        /\ \A x \in Replayer \ {r} : todo'[x] = todo[x]
    BY <2>1 DEF Handle, recorder, Typed, TodoTyped, Actor, p
  <2>4. ~InProgress(todo[r])
    BY <2>3, NotEmpty DEF InProgress, Working, Starting
  <2>5. QED BY <2>2, <2>3, <2>4 DEF Restored
<1>5. QED BY <1>3, <1>4, RequestsRestored DEF Serve

\* The loop and the randomizer are not replays.
LEMMA OthersRestored ==
  ASSUME Patient, Typed, Restored, NEW a \in {"loop", "random"}, Step(a)
  PROVE  Restored'
<1>1. a \notin Replayer /\ a \in Actor
  BY DaemonAssumption DEF DaemonAssumption, Actor
<1>2. ASSUME UNCHANGED <<saved, wanted, enabled, replaying>>,
             Continue(a) \/ (\E s : Become(a, s))
      PROVE  Restored'
  <2>1. \E q : todo' = [todo EXCEPT ![a] = q]
    BY <1>2 DEF Continue, Become
  <2>2. \A r \in Replayer : todo'[r] = todo[r]
    BY <1>1, <2>1 DEF Typed, TodoTyped, Actor
  <2>3. QED BY <1>2, <2>2, RestoredElsewhere
<1>3. CASE CallRecorded(a) \/ CallReplayed(a)
  <2>1. Enter(a, Head(todo[a])) /\ UNCHANGED <<saved, wanted, enabled, replaying>>
    BY <1>3 DEF CallRecorded, CallReplayed, Record, recorder
  <2>2. \E s : Become(a, s)
    BY <2>1, EnterIsDeed
  <2>3. QED BY <1>2, <2>1, <2>2
<1>4. CASE Write(a) \/ PublishUpdate(a) \/ Initialize
  <2>1. CASE Write(a) \/ PublishUpdate(a)
    BY <1>2, <2>1 DEF Write, PublishUpdate, recorder
  <2>2. CASE Initialize
    <3>1. \A r \in Replayer : todo'[r] = todo[r]
      BY <2>2, DaemonAssumption DEF Initialize, Continue, Typed, TodoTyped, DaemonAssumption
    <3>2. QED BY <2>2, <3>1, RestoredElsewhere DEF Initialize, recorder
  <2>3. QED BY <1>4, <2>1, <2>2
<1>5. CASE SetStatus(a)
  <2>1. todo[a] # <<>> /\ Head(todo[a]).op = "enabled" /\ Continue(a)
    BY <1>5 DEF SetStatus, Next_op
  <2>2. a = "loop"
    <3>1. CASE a = "random"
      <4>1. Head(todo[a]).op \in {"call", "write", "publish"}
        BY <1>1, <2>1, <3>1, ProgramTail DEF Typed, TodoTyped
      <4>2. QED BY <2>1, <4>1
    <3>2. QED BY <3>1
  <2>3. \A r \in Replayer : todo'[r] = todo[r]
    BY <1>1, <2>1 DEF Continue, Typed, TodoTyped
  <2>4. CASE replaying
    <3>1. UNCHANGED <<saved, wanted, enabled, replaying>>
      BY <1>5, <2>4 DEF SetStatus, SetEnabled
    <3>2. QED BY <2>3, <3>1, RestoredElsewhere
  <2>5. CASE ~replaying
    <3>1. Settled(a)
      BY <1>5, <2>2 DEF SetStatus
    <3>2. \A r \in Replayer : ~InProgress(todo[r])
      BY <1>1, <2>5, <3>1, SettledReplays
    <3>3. enabled' = wanted' /\ UNCHANGED <<saved, replaying>>
      BY <1>5, <2>2, <2>5 DEF SetStatus, SetEnabled
    <3>4. QED BY <2>3, <2>5, <3>2, <3>3 DEF Restored
  <2>6. QED BY <2>4, <2>5
<1>6. QED BY <1>1, <1>3, <1>4, <1>5 DEF Step

\* A replay's own operations.
LEMMA ReplayRestored ==
  ASSUME Patient, Typed, Restored, NEW r \in Replayer, Step(r)
  PROVE  Restored'
<1> DEFINE p == todo[r]
           o == Head(p)
<1>1. r \in Actor /\ r # "loop" /\ r # "random" /\ DOMAIN todo = Actor
  BY DaemonAssumption DEF DaemonAssumption, Actor, Typed, TodoTyped
<1>2. p # <<>>
  BY <1>1 DEF Step, CallRecorded, CallReplayed, Write, PublishUpdate, SetStatus, SaveStatus,
     RestoreStatus, SetReplayStatus, ReplayActions, Next_op
<1>3. /\ \/ o.op = "save" /\ Starting(p) /\ Len(p) = 6
         \/ o.op = "enabled" /\ o.on = FALSE /\ Starting(p) /\ Len(p) = 5
         \/ o.op = "replaying" /\ o.on = TRUE /\ Starting(p) /\ Len(p) = 4
         \/ o.op = "replay" /\ Starting(p) /\ Len(p) = 3
         \/ o.op \in WorkOps /\ Working(p) /\ Len(p) >= 3
         \/ o.op = "replaying" /\ o.on = FALSE /\ Working(p) /\ Len(p) = 2
         \/ o.op = "restore" /\ Working(p) /\ Len(p) = 1
  BY <1>2, ShapeHead DEF Restored
<1>4. /\ Starting(p) /\ Len(p) = 6 => Starting(Tail(p)) /\ Len(Tail(p)) = 5
      /\ Starting(p) /\ Len(p) = 5 => Starting(Tail(p)) /\ Len(Tail(p)) = 4
      /\ Starting(p) /\ Len(p) = 4 => Starting(Tail(p)) /\ Len(Tail(p)) = 3
      /\ Working(p) /\ Len(p) >= 3 => Working(Tail(p)) /\ Len(Tail(p)) >= 2
      /\ Working(p) /\ Len(p) = 2 => Working(Tail(p)) /\ Len(Tail(p)) = 1
      /\ Working(p) /\ Len(p) = 1 => Tail(p) = <<>>
  BY ShapeTails
<1>5. Continue(r) =>
        todo'[r] = Tail(p) /\ \A x \in Replayer \ {r} : todo'[x] = todo[x]
  BY <1>1 DEF Continue, Actor
<1>6. ASSUME NEW s, IsSeq(s), \A i \in 1 .. Len(s) : s[i].op \in WorkOps, Become(r, s),
             o.op \in WorkOps \cup {"replay"}, UNCHANGED <<saved, wanted, enabled, replaying>>
      PROVE  Restored'
  <2>1. (Starting(p) /\ Len(p) = 3) \/ (Working(p) /\ Len(p) >= 3)
    BY <1>3, <1>6 DEF WorkOps
  <2>2. todo'[r] = s \o Tail(p) /\ \A x \in Replayer \ {r} : todo'[x] = todo[x]
    BY <1>1, <1>6 DEF Become, Actor
  <2>3. Working(todo'[r]) /\ Len(todo'[r]) >= 2
    BY <1>6, <2>1, <2>2, ShapeBecome
  <2>4. InProgress(todo'[r]) /\ Shape(todo'[r]) /\ During(todo'[r])
    BY <2>3 DEF InProgress, During, Shape
  <2>5. InProgress(todo[r]) /\ During(todo[r])
    <3>1. CASE Starting(p) /\ Len(p) = 3
      BY <3>1 DEF InProgress, During
    <3>2. CASE Working(p) /\ Len(p) >= 3
      <4>1. Len(p) \in Nat
        BY <3>2, NotEmpty DEF Working
      <4>2. QED BY <3>2, <4>1 DEF InProgress, During
    <3>3. QED BY <2>1, <3>1, <3>2
  <2>6. QED BY <1>6, <2>2, <2>4, <2>5, RestoredWithin
<1>7. CASE CallRecorded(r)
  BY <1>3, <1>7 DEF CallRecorded, Next_op, WorkOps
<1>8. CASE CallReplayed(r)
  <2>1. o.op = "work" /\ Enter(r, o) /\ UNCHANGED <<saved, wanted, enabled, replaying>>
    BY <1>8 DEF CallReplayed, Next_op, recorder
  <2>2. PICK s : Deed(s, o.about) /\ Become(r, s)
    BY <2>1, EnterIsDeed
  <2>3. IsSeq(s) /\ \A i \in 1 .. Len(s) : s[i].op \in WorkOps
    BY <2>2 DEF Deed, WorkOps
  <2>4. o.op \in WorkOps
    BY <2>1 DEF WorkOps
  <2>5. QED BY <1>6, <2>1, <2>2, <2>3, <2>4
<1>9. CASE ReplayActions(r)
  <2> DEFINE s == [i \in 1 .. Len(InSlice(actions, o.slice)) |->
                     DoWork(InSlice(actions, o.slice)[i])]
  <2>1. o.op = "replay" /\ Become(r, s) /\ UNCHANGED <<saved, wanted, enabled, replaying>>
    BY <1>9 DEF ReplayActions, Next_op, recorder
  <2>2. o.slice \in Slice
    BY <1>1, <1>2, <2>1, ProgramTail DEF Typed, TodoTyped, OpOK
  <2> HIDE DEF s
  <2>3. IsSeq(s) /\ \A i \in 1 .. Len(s) : s[i].op \in WorkOps
    <3>1. Program(r, s) /\ \A i \in 1 .. Len(s) : s[i].op = "work"
      BY <1>1, <2>2, ReplayedIsProgram DEF s, Typed
    <3>2. QED BY <3>1 DEF Program, WorkOps
  <2>4. QED BY <1>6, <2>1, <2>3
<1>10. CASE Write(r) \/ PublishUpdate(r)
  <2>1. o.op \in WorkOps /\ Continue(r) /\ UNCHANGED <<saved, wanted, enabled, replaying>>
    BY <1>10 DEF Write, PublishUpdate, Next_op, recorder, WorkOps
  <2>2. Working(p) /\ Len(p) >= 3
    BY <1>3, <2>1 DEF WorkOps
  <2>3. Working(todo'[r]) /\ Len(todo'[r]) >= 2
    BY <1>4, <1>5, <2>1, <2>2
  <2>4. InProgress(todo[r]) /\ InProgress(todo'[r]) /\ Shape(todo'[r])
        /\ During(todo[r]) /\ During(todo'[r])
    BY <2>2, <2>3 DEF InProgress, During, Shape
  <2>5. QED BY <1>5, <2>1, <2>4, RestoredWithin
<1>11. CASE SetStatus(r)
  <2>1. o.op = "enabled" /\ Continue(r) /\ UNCHANGED <<saved, wanted, replaying>>
    BY <1>1, <1>11 DEF SetStatus, SetEnabled, Next_op
  <2>2. Starting(p) /\ Len(p) = 5
    BY <1>3, <2>1 DEF WorkOps
  <2>3. Starting(todo'[r]) /\ Len(todo'[r]) = 4
    BY <1>4, <1>5, <2>1, <2>2
  <2>4. InProgress(todo[r]) /\ InProgress(todo'[r]) /\ Shape(todo'[r])
        /\ ~During(todo[r]) /\ ~During(todo'[r])
    BY <2>2, <2>3, NotBoth DEF InProgress, During, Shape
  <2>5. QED BY <1>5, <2>1, <2>4 DEF Restored
<1>12. CASE SetReplayStatus(r)
  <2>1. /\ o.op = "replaying" /\ Continue(r) /\ replaying' = o.on
        /\ UNCHANGED <<saved, wanted, enabled>>
    BY <1>12 DEF SetReplayStatus, SetReplaying, Next_op
  <2>2. CASE Starting(p) /\ Len(p) = 4 /\ o.on = TRUE
    <3>1. Starting(todo'[r]) /\ Len(todo'[r]) = 3
      BY <1>4, <1>5, <2>1, <2>2
    <3>2. InProgress(todo[r]) /\ InProgress(todo'[r]) /\ Shape(todo'[r]) /\ During(todo'[r])
      BY <2>2, <3>1 DEF InProgress, During, Shape
    <3>3. QED BY <1>5, <2>1, <2>2, <3>2 DEF Restored
  <2>3. CASE Working(p) /\ Len(p) = 2 /\ o.on = FALSE
    <3>1. Working(todo'[r]) /\ Len(todo'[r]) = 1
      BY <1>4, <1>5, <2>1, <2>3
    <3>2. InProgress(todo[r]) /\ InProgress(todo'[r]) /\ Shape(todo'[r]) /\ ~During(todo'[r])
      BY <2>3, <3>1, NotBoth DEF InProgress, During, Shape
    <3>3. QED BY <1>5, <2>1, <2>3, <3>2 DEF Restored
  <2>4. QED BY <1>3, <2>1, <2>2, <2>3 DEF WorkOps
<1>13. CASE SaveStatus(r)
  <2>1. /\ o.op = "save" /\ Continue(r) /\ Settled(r)
        /\ saved' = [saved EXCEPT ![r] = enabled] /\ UNCHANGED <<wanted, enabled, replaying>>
    BY <1>13 DEF SaveStatus, Next_op, recorder
  <2>2. Starting(p) /\ Len(p) = 6
    BY <1>3, <2>1 DEF WorkOps
  <2>3. Starting(todo'[r]) /\ Len(todo'[r]) = 5
    BY <1>4, <1>5, <2>1, <2>2
  <2>4. ~InProgress(todo[r]) /\ InProgress(todo'[r]) /\ Shape(todo'[r]) /\ ~During(todo'[r])
    BY <2>2, <2>3, NotBoth DEF InProgress, During, Shape
  <2>5. \A x \in Replayer : ~InProgress(todo[x])
    BY <1>1, <2>1, <2>4, SettledReplays
  <2>6. \A x \in Replayer \ {r} : ~InProgress(todo'[x])
    BY <1>5, <2>1, <2>5
  <2>7. ~replaying /\ enabled = wanted
    BY <2>5 DEF Restored
  <2>8. QED BY <1>5, <2>1, <2>4, <2>6, <2>7 DEF Restored
<1>14. CASE RestoreStatus(r)
  <2>1. /\ o.op = "restore" /\ Continue(r) /\ UNCHANGED <<wanted, saved, replaying>>
        /\ enabled' = IF replaying THEN enabled ELSE saved[r]
    BY <1>14 DEF RestoreStatus, SetEnabled, Next_op
  <2>2. Working(p) /\ Len(p) = 1
    BY <1>3, <2>1 DEF WorkOps
  <2>3. todo'[r] = <<>>
    BY <1>4, <1>5, <2>1, <2>2
  <2>4. ~InProgress(todo'[r]) /\ Shape(todo'[r])
    BY <2>3, NotEmpty DEF InProgress, Working, Starting, Shape
  <2>5. InProgress(todo[r]) /\ ~During(todo[r])
    BY <2>2, NotBoth DEF InProgress, During
  <2>6. ~replaying /\ saved[r] = wanted
    BY <2>5 DEF Restored
  <2>7. \A x \in Replayer : ~InProgress(todo'[x])
    BY <1>5, <2>1, <2>4, <2>5 DEF Restored
  <2>8. QED BY <1>5, <2>1, <2>4, <2>6, <2>7 DEF Restored
<1>15. QED
  BY <1>1, <1>7, <1>8, <1>9, <1>10, <1>11, <1>12, <1>13, <1>14 DEF Step

\* Restored holds from the start and after every step.
LEMMA RestoredIsInvariant ==
  ASSUME Patient
  PROVE  /\ Init => Restored
         /\ Typed /\ Restored /\ [Next]_vars => Restored'
<1>1. ASSUME Init PROVE Restored
  <2>1. \A r \in Replayer : todo[r] = <<>> /\ Shape(todo[r]) /\ ~InProgress(todo[r])
    BY <1>1, NotEmpty DEF Init, Actor, Shape, InProgress, Working, Starting
  <2>2. QED BY <1>1, <2>1 DEF Init, RecorderInit, Restored
<1>2. ASSUME Typed, Restored, Next PROVE Restored'
  BY <1>2, RequestsRestored, ServeRestored, OthersRestored, ReplayRestored
  DEF Next, Requests, Actor
<1>3. ASSUME Restored, UNCHANGED vars PROVE Restored'
  BY <1>3 DEF vars, recorder, daemon, Restored
<1>4. QED BY <1>1, <1>2, <1>3

\* At rest no replay is in progress.
LEMMA RestoredAtRest ==
  ASSUME Restored
  PROVE  RecorderRestored
<1>1. ASSUME \A a \in Actor : todo[a] = <<>>
      PROVE  \A r \in Replayer : ~InProgress(todo[r])
  BY <1>1, NotEmpty DEF Actor, InProgress, Working, Starting
<1>2. QED BY <1>1 DEF RecorderRestored, AtRest, Restored

\* Whatever is replayed, by any number of replays, and however their operations,
\* those of the loop and those of the randomizers alternate: when nothing is
\* under way the recorder does what clients last asked of it.
THEOREM RecorderIsRestored == Patient => (Spec => []RecorderRestored)
<1> SUFFICES ASSUME Patient PROVE Spec => []RecorderRestored
  OBVIOUS
<1> DEFINE IInv == Typed /\ Launched /\ Restored
<1>1. Init => IInv
  BY TypedIsInvariant, RestoredIsInvariant
<1>2. IInv /\ [Next]_vars => IInv'
  BY TypedIsInvariant, RestoredIsInvariant
<1>3. IInv => RecorderRestored
  BY RestoredAtRest
<1>4. QED BY <1>1, <1>2, <1>3, PTL DEF Spec
==============================================================================
