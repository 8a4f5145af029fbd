--------------------------- MODULE DaemonViewProofs ---------------------------
(***************************************************************************)
(* Proof that what the clients of the daemon show is what redis has, for   *)
(* any clients, replay threads, ranges, voltages and temperatures, and any *)
(* number of requests, as long as one actor at a time writes.              *)
(***************************************************************************)
EXTENDS DaemonProofs

\* One actor at a time is between reading a value and publishing the new one; what
\* it is yet to publish is what it is yet to write, or has just written.
Writes == {"write", "publish"}
Writing(p) == p # <<>> /\ Head(p).op \in Writes
NoWrites(p) == \A i \in 1 .. Len(p) : p[i].op \notin Writes
Orderly(p) ==
  \A i \in 1 .. Len(p) :
    /\ p[i].op = "write" => i = 1
    /\ p[i].op = "publish" => i = 1 \/ (i = 2 /\ p[1].op = "write")
AboutToWrite(p, e) ==
  /\ Head(p).about # "status" /\ Len(p) >= 2
  /\ p[2] = DoPublish(Head(p).about, e[Head(p).about], Head(p).value)
AboutToPublish(p, e) == Head(p).about = "status" \/ Head(p).value = e[Head(p).about]
Ready(p, e) ==
  /\ Orderly(p)
  /\ p # <<>> /\ Head(p).op = "write" => AboutToWrite(p, e)
  /\ p # <<>> /\ Head(p).op = "publish" => AboutToPublish(p, e)
OneWriter ==
  /\ \A a \in Actor : Ready(todo[a], env)
  /\ \A a, b \in Actor : Writing(todo[a]) /\ Writing(todo[b]) => a = b

\* Updates of a quantity wait in its stream only.
Sorted ==
  \A s \in Stream : \A i \in 1 .. Len(stream[s]) :
    stream[s][i].kind \in Quantity => s = StreamOf[stream[s][i].kind]

\* A client that asked for updates has just been told the state of the system.
InOneGo(s) ==
  \A i \in 2 .. Len(s) :
    s[i].kind = "subscribe" =>
      s[i - 1].kind = "get_sys_status" /\ s[i - 1].client = s[i].client

ToldTyped == DOMAIN told = Client /\ \A c \in Client : DOMAIN told[c] = Quantity

\* A change clients will hear of: an update of the mains or of the temperature
\* that changes what they show, or the news itself; and what it will have them show.
Counts(mode, q, m) ==
  IF mode = "news" THEN m.kind = "news" /\ m.about = q
  ELSE m.kind = q /\ q # "status" /\ Shown(q, m.old) # Shown(q, m.new)
Says(mode, q, m) == IF mode = "news" THEN m.value ELSE Shown(q, m.new)

\* Nothing of the kind in s; the last of them, if any, ends at v.
Hush(mode, q, s) == \A i \in 1 .. Len(s) : ~Counts(mode, q, s[i])
Ends(mode, q, s, v) ==
  \A i \in 1 .. Len(s) :
    Counts(mode, q, s[i]) /\ (\A j \in i + 1 .. Len(s) : ~Counts(mode, q, s[j]))
      => Says(mode, q, s[i]) = v

\* Whatever comes last on its way ends at v: in the stream s; among the updates of
\* the loop l, when the stream has no more of them; among the news; and when
\* nothing is on its way, what the clients show, R.
InStep(q, l, s, v, R) ==
  /\ Ends("update", q, s, v)
  /\ Hush("update", q, s) =>
       /\ Ends("update", q, l, v)
       /\ Hush("update", q, l) =>
            /\ Ends("news", q, l, v)
            /\ Hush("news", q, l) => R \subseteq {v}

\* A change that was written and not published.
Withheld(q, p) ==
  /\ p # <<>> /\ Head(p).op = "publish" /\ Head(p).about = q /\ q # "status"
  /\ Shown(q, Head(p).old) # Shown(q, Head(p).value)
Unpublished(q) == \E a \in Actor : Withheld(q, todo[a])

\* Subscribers, and a client that is about to be one; what they show.
Watching(c) ==
  c \in subscribers \/ (loop # <<>> /\ Head(loop).kind = "subscribe" /\ Head(loop).client = c)
Shows(q) == {told[c][q] : c \in {d \in Client : Watching(d)}}
Queue(q) == stream[StreamOf[q]]

Follows(q) ==
  \/ Unpublished(q)
  \/ q = "status" /\ reloaded
  \/ InStep(q, loop, Queue(q), ShownEnv[q], Shows(q))

VInv ==
  OneWriter /\ Sorted /\ InOneGo(loop) /\ ToldTyped /\ \A q \in Quantity : Follows(q)

-----------------------------------------------------------------------------
\* Changes in a sequence of events, put together and taken apart.

\* The first of them is handled.
LEMMA EndsTail ==
  ASSUME NEW mode, NEW q, NEW s, IsSeq(s), s # <<>>
  PROVE  /\ Hush(mode, q, s) <=> ~Counts(mode, q, Head(s)) /\ Hush(mode, q, Tail(s))
         /\ \A v : Ends(mode, q, s, v) => Ends(mode, q, Tail(s), v)
         /\ \A v : Ends(mode, q, s, v) /\ Counts(mode, q, Head(s)) /\ Hush(mode, q, Tail(s))
              => Says(mode, q, Head(s)) = v
<1> DEFINE t == Tail(s)
           n == Len(s)
<1>1. /\ n \in Nat \ {0} /\ Head(s) = s[1] /\ Len(t) = n - 1
      /\ \A i \in 1 .. n - 1 : t[i] = s[i + 1]
  BY TailIsSeq
<1>2. \A i \in 2 .. n : i - 1 \in 1 .. n - 1 /\ s[i] = t[i - 1]
  <2> HIDE DEF t
  <2> TAKE i \in 2 .. n
  <2>1. i - 1 \in 1 .. n - 1 /\ (i - 1) + 1 = i
    BY <1>1
  <2>2. QED BY <1>1, <2>1
<1> HIDE DEF t, n
<1>3. 1 \in 1 .. n /\ \A i \in 1 .. n : i = 1 \/ i \in 2 .. n
  BY <1>1
<1>4. \A i \in 1 .. n - 1 : i + 1 \in 2 .. n /\ i + 1 \in 1 .. n
  BY <1>1
<1>5. Hush(mode, q, s) <=> ~Counts(mode, q, Head(s)) /\ Hush(mode, q, t)
  <2>1. Hush(mode, q, s) <=> \A i \in 1 .. n : ~Counts(mode, q, s[i])
    BY DEF Hush, n
  <2>2. Hush(mode, q, t) <=> \A i \in 1 .. n - 1 : ~Counts(mode, q, t[i])
    BY <1>1 DEF Hush
  <2>3. QED BY <1>1, <1>2, <1>3, <1>4, <2>1, <2>2
<1>6. ASSUME NEW v, Ends(mode, q, s, v)
      PROVE  Ends(mode, q, t, v)
  <2> SUFFICES ASSUME NEW i \in 1 .. n - 1, Counts(mode, q, t[i]),
                      \A j \in i + 1 .. n - 1 : ~Counts(mode, q, t[j])
               PROVE  Says(mode, q, t[i]) = v
    BY <1>1 DEF Ends
  <2>1. i + 1 \in 1 .. n /\ s[i + 1] = t[i]
    BY <1>1, <1>4
  <2>2. ASSUME NEW j \in (i + 1) + 1 .. n PROVE ~Counts(mode, q, s[j])
    <3>1. j \in 2 .. n /\ j - 1 \in i + 1 .. n - 1
      BY <1>1
    <3>2. QED BY <1>2, <3>1
  <2>3. QED BY <1>6, <2>1, <2>2 DEF Ends, n
<1>7. ASSUME NEW v, Ends(mode, q, s, v), Counts(mode, q, Head(s)), Hush(mode, q, t)
      PROVE  Says(mode, q, Head(s)) = v
  <2>1. ASSUME NEW j \in 1 + 1 .. n PROVE ~Counts(mode, q, s[j])
    <3>1. j \in 2 .. n
      BY <1>1
    <3>2. j - 1 \in 1 .. Len(t) /\ s[j] = t[j - 1]
      BY <1>1, <1>2, <3>1
    <3>3. QED BY <1>7, <3>2 DEF Hush
  <2>2. QED BY <1>1, <1>3, <1>7, <2>1 DEF Ends, n
<1>8. QED BY <1>5, <1>6, <1>7 DEF t

\* One more comes.
LEMMA EndsAppend ==
  ASSUME NEW mode, NEW q, NEW s, IsSeq(s), NEW e
  PROVE  /\ Hush(mode, q, Append(s, e)) <=> ~Counts(mode, q, e) /\ Hush(mode, q, s)
         /\ \A v : Counts(mode, q, e) /\ Says(mode, q, e) = v => Ends(mode, q, Append(s, e), v)
         /\ \A v : ~Counts(mode, q, e) /\ Ends(mode, q, s, v) => Ends(mode, q, Append(s, e), v)
<1> DEFINE t == Append(s, e)
           n == Len(s)
<1>1. n \in Nat /\ Len(t) = n + 1 /\ t[n + 1] = e /\ \A i \in 1 .. n : t[i] = s[i]
  <2>1. /\ n \in Nat /\ Len(t) = n + 1
        /\ \A i \in 1 .. Len(t) : (i \in 1 .. n /\ t[i] = s[i]) \/ (i = n + 1 /\ t[i] = e)
    BY AppendIsSeq
  <2> HIDE DEF t, n
  <2>2. n + 1 \in 1 .. n + 1 /\ n + 1 \notin 1 .. n
    BY <2>1
  <2>3. \A i \in 1 .. n : i \in 1 .. n + 1 /\ i # n + 1
    BY <2>1
  <2>4. QED BY <2>1, <2>2, <2>3
<1> HIDE DEF t, n
<1>2. \A i \in 1 .. n + 1 : i = n + 1 \/ i \in 1 .. n
  BY <1>1
<1>3. n + 1 \in 1 .. n + 1 /\ \A i \in 1 .. n : i \in 1 .. n + 1
  BY <1>1
<1>4. Hush(mode, q, t) <=> ~Counts(mode, q, e) /\ Hush(mode, q, s)
  <2>1. Hush(mode, q, s) <=> \A i \in 1 .. n : ~Counts(mode, q, s[i])
    BY DEF Hush, n
  <2>2. Hush(mode, q, t) <=> \A i \in 1 .. n + 1 : ~Counts(mode, q, t[i])
    BY <1>1 DEF Hush
  <2>3. QED BY <1>1, <1>2, <1>3, <2>1, <2>2
<1>5. ASSUME NEW i \in 1 .. n, \A j \in i + 1 .. n + 1 : ~Counts(mode, q, t[j])
      PROVE  ~Counts(mode, q, e) /\ \A j \in i + 1 .. n : ~Counts(mode, q, s[j])
  <2>1. n + 1 \in i + 1 .. n + 1
    BY <1>1
  <2>2. \A j \in i + 1 .. n : j \in i + 1 .. n + 1 /\ j \in 1 .. n
    BY <1>1
  <2>3. QED BY <1>1, <1>5, <2>1, <2>2
<1>6. ASSUME NEW v, Counts(mode, q, e), Says(mode, q, e) = v
      PROVE  Ends(mode, q, t, v)
  BY <1>1, <1>2, <1>5, <1>6 DEF Ends
<1>7. ASSUME NEW v, ~Counts(mode, q, e), Ends(mode, q, s, v)
      PROVE  Ends(mode, q, t, v)
  BY <1>1, <1>2, <1>5, <1>7 DEF Ends, n
<1>8. QED BY <1>4, <1>6, <1>7 DEF t

\* An event no client will hear of comes last in the loop; or was first.
LEMMA InStepAppend ==
  ASSUME NEW q, NEW l, IsSeq(l), NEW e, ~Counts("update", q, e), ~Counts("news", q, e),
         NEW s, NEW v, NEW R, NEW Q, Q \subseteq R, InStep(q, l, s, v, R)
  PROVE  InStep(q, Append(l, e), s, v, Q)
BY EndsAppend DEF InStep

\* The same, at the other end of the loop, some clients told what redis has.
LEMMA InStepTail ==
  ASSUME NEW q, NEW l, IsSeq(l), l # <<>>,
         ~Counts("update", q, Head(l)), ~Counts("news", q, Head(l)),
         NEW s, NEW v, NEW R, NEW Q, Q \subseteq R \cup {v}, InStep(q, l, s, v, R)
  PROVE  InStep(q, Tail(l), s, v, Q)
BY EndsTail DEF InStep

\* An update is handled, and becomes news.
LEMMA InStepUpdate ==
  ASSUME NEW q, NEW l, IsSeq(l), l # <<>>,
         Counts("update", q, Head(l)), ~Counts("news", q, Head(l)),
         NEW n, Counts("news", q, n), ~Counts("update", q, n),
         Says("news", q, n) = Says("update", q, Head(l)),
         NEW s, NEW v, NEW R, NEW Q, InStep(q, l, s, v, R)
  PROVE  InStep(q, Append(Tail(l), n), s, v, Q)
<1>1. IsSeq(Tail(l))
  BY TailIsSeq
<1>2. ASSUME Hush("update", q, s) PROVE Ends("update", q, Append(Tail(l), n), v)
  BY <1>1, <1>2, EndsTail, EndsAppend DEF InStep
<1>3. ASSUME Hush("update", q, s), Hush("update", q, Append(Tail(l), n))
      PROVE  Ends("news", q, Append(Tail(l), n), v)
  <2>1. Hush("update", q, Tail(l))
    BY <1>1, <1>3, EndsAppend
  <2>2. Says("update", q, Head(l)) = v
    BY <1>3, <2>1, EndsTail DEF InStep
  <2>3. QED BY <1>1, <2>2, EndsAppend
<1>4. ~Hush("news", q, Append(Tail(l), n))
  BY <1>1, EndsAppend
<1>5. QED BY <1>2, <1>3, <1>4 DEF InStep

\* News reaches the clients.
LEMMA InStepNews ==
  ASSUME NEW q, NEW l, IsSeq(l), l # <<>>,
         Counts("news", q, Head(l)), ~Counts("update", q, Head(l)),
         NEW s, NEW v, NEW R, NEW Q, Q \subseteq {Says("news", q, Head(l))},
         InStep(q, l, s, v, R)
  PROVE  InStep(q, Tail(l), s, v, Q)
<1>1. Hush("update", q, Tail(l)) => Hush("update", q, l)
  BY EndsTail
<1>2. ASSUME Ends("news", q, l, v), Hush("news", q, Tail(l))
      PROVE  Q \subseteq {v}
  BY <1>2, EndsTail
<1>3. Ends("news", q, l, v) => Ends("news", q, Tail(l), v)
  BY EndsTail
<1>4. Ends("update", q, l, v) => Ends("update", q, Tail(l), v)
  BY EndsTail
<1>5. QED BY <1>1, <1>2, <1>3, <1>4 DEF InStep

\* A message goes from the stream to the loop.
LEMMA InStepListen ==
  ASSUME NEW q, NEW l, IsSeq(l), NEW s, IsSeq(s), s # <<>>, ~Counts("news", q, Head(s)),
         NEW v, NEW R, NEW Q, Q \subseteq R, InStep(q, l, s, v, R)
  PROVE  InStep(q, Append(l, Head(s)), Tail(s), v, Q)
<1> DEFINE e == Head(s)
<1>1. /\ Hush("update", q, s) <=> ~Counts("update", q, e) /\ Hush("update", q, Tail(s))
      /\ Ends("update", q, Tail(s), v)
      /\ Counts("update", q, e) /\ Hush("update", q, Tail(s)) => Says("update", q, e) = v
  BY EndsTail DEF InStep
<1> HIDE DEF e
<1>2. CASE Counts("update", q, e)
  <2>1. Hush("update", q, Tail(s)) => Ends("update", q, Append(l, e), v)
    BY <1>1, <1>2, EndsAppend
  <2>2. ~Hush("update", q, Append(l, e))
    BY <1>2, EndsAppend
  <2>3. QED BY <1>1, <2>1, <2>2 DEF InStep, e
<1>3. CASE ~Counts("update", q, e)
  <2>1. InStep(q, l, Tail(s), v, R)
    BY <1>1, <1>3 DEF InStep
  <2>2. QED BY <1>3, <2>1, InStepAppend DEF e
<1>4. QED BY <1>2, <1>3

\* An update is published: one that clients will hear of, or another.
LEMMA InStepPublish ==
  ASSUME NEW q, NEW l, NEW s, IsSeq(s), NEW m, NEW v, NEW R, NEW Q, Q \subseteq R,
         \/ Counts("update", q, m) /\ Says("update", q, m) = v
         \/ ~Counts("update", q, m) /\ InStep(q, l, s, v, R)
  PROVE  InStep(q, l, Append(s, m), v, Q)
<1>1. CASE Counts("update", q, m) /\ Says("update", q, m) = v
  <2>1. Ends("update", q, Append(s, m), v) /\ ~Hush("update", q, Append(s, m))
    BY <1>1, EndsAppend
  <2>2. QED BY <2>1 DEF InStep
<1>2. CASE ~Counts("update", q, m) /\ InStep(q, l, s, v, R)
  <2>1. Hush("update", q, Append(s, m)) <=> Hush("update", q, s)
    BY <1>2, EndsAppend
  <2>2. Ends("update", q, Append(s, m), v)
    BY <1>2, EndsAppend DEF InStep
  <2>3. QED BY <1>2, <2>1, <2>2 DEF InStep
<1>3. QED BY <1>1, <1>2

\* Redis has a new status, and clients will hear of it.
LEMMA InStepPress ==
  ASSUME NEW l, IsSeq(l), NEW n, Counts("news", "status", n), NEW s, NEW v,
         v = Says("news", "status", n), NEW Q
  PROVE  InStep("status", Append(l, n), s, v, Q)
<1>1. \A m : ~Counts("update", "status", m)
  BY DEF Counts
<1>2. \A t : Ends("update", "status", t, v)
  BY <1>1 DEF Ends
<1>3. Ends("news", "status", Append(l, n), v) /\ ~Hush("news", "status", Append(l, n))
  BY EndsAppend
<1>4. QED BY <1>2, <1>3 DEF InStep

-----------------------------------------------------------------------------
\* OneWriter is an invariant: programs.

\* A program that writes nothing may go on whatever redis has; so may one that
\* writes or publishes later.
LEMMA NotWriting ==
  ASSUME NEW p, NEW e
  PROVE  /\ NoWrites(p) /\ IsSeq(p) => Ready(p, e) /\ ~Writing(p)
         /\ Ready(p, e) /\ ~Writing(p) => \A f : Ready(p, f)
<1>1. ASSUME NoWrites(p), IsSeq(p) PROVE Ready(p, e) /\ ~Writing(p)
  <2>1. Orderly(p)
    BY <1>1 DEF NoWrites, Orderly, Writes
  <2>2. ASSUME p # <<>> PROVE Head(p).op \notin Writes
    <3>1. Head(p) = p[1] /\ 1 \in 1 .. Len(p)
      BY <1>1, <2>2, TailIsSeq
    <3>2. QED BY <1>1, <3>1 DEF NoWrites
  <2>3. QED BY <2>1, <2>2 DEF Ready, Writing, Writes
<1>2. QED BY <1>1 DEF Ready, Writing, Writes

\* What is left after a program's first operation.
LEMMA ReadyTail ==
  ASSUME NEW p, IsSeq(p), p # <<>>, NEW e, Ready(p, e)
  PROVE  /\ Head(p).op # "write" => NoWrites(Tail(p))
         /\ Head(p).op = "write" =>
              \A f : f[Head(p).about] = Head(p).value => Ready(Tail(p), f)
<1> DEFINE t == Tail(p)
           n == Len(p)
<1>1. /\ n \in Nat \ {0} /\ Head(p) = p[1] /\ Len(t) = n - 1
      /\ \A i \in 1 .. n - 1 : i + 1 \in 1 .. n /\ t[i] = p[i + 1]
  BY TailIsSeq
<1>2. IsSeq(t)
  BY TailIsSeq
<1>3. \A i \in 1 .. n :
        /\ p[i].op = "write" => i = 1
        /\ p[i].op = "publish" => i = 1 \/ (i = 2 /\ p[1].op = "write")
  BY DEF Ready, Orderly
<1>4. ASSUME Head(p).op # "write" PROVE NoWrites(t)
  <2> SUFFICES ASSUME NEW i \in 1 .. n - 1 PROVE t[i].op \notin Writes
    BY <1>1 DEF NoWrites
  <2>1. i + 1 \in 1 .. n /\ t[i] = p[i + 1] /\ i + 1 # 1
    BY <1>1
  <2>2. QED BY <1>1, <1>3, <1>4, <2>1 DEF Writes
<1>5. ASSUME Head(p).op = "write", NEW f, f[Head(p).about] = Head(p).value
      PROVE  Ready(t, f)
  <2>1. n >= 2 /\ p[2] = DoPublish(Head(p).about, e[Head(p).about], Head(p).value)
    BY <1>5 DEF Ready, AboutToWrite, n
  <2>2. Orderly(t)
    <3> SUFFICES ASSUME NEW i \in 1 .. n - 1
                 PROVE  t[i].op # "write" /\ (t[i].op = "publish" => i = 1)
      BY <1>1 DEF Orderly
    <3>1. i + 1 \in 1 .. n /\ t[i] = p[i + 1] /\ i + 1 # 1 /\ (i + 1 = 2 => i = 1)
      BY <1>1
    <3>2. QED BY <1>3, <3>1
  <2>3. t # <<>> => Head(t) = t[1]
    BY <1>2, TailIsSeq
  <2>4. 1 \in 1 .. n - 1
    BY <1>1, <2>1
  <2>5. t[1] = p[2]
    <3>1. t[1] = p[1 + 1]
      BY <1>1, <2>4
    <3>2. 1 + 1 = 2
      OBVIOUS
    <3>3. QED BY <3>1, <3>2
  <2>6. t # <<>> => Head(t).op = "publish" /\ Head(t).about = Head(p).about
                    /\ Head(t).value = Head(p).value
    BY <2>1, <2>3, <2>5 DEF DoPublish
  <2> HIDE DEF t
  <2>7. QED BY <1>5, <2>2, <2>6 DEF Ready, AboutToPublish
<1>6. QED BY <1>4, <1>5 DEF t

\* What comes before a program that writes nothing: a call's deed.
LEMMA ReadyEnter ==
  ASSUME NEW r, IsSeq(r), NoWrites(r), NEW e, NEW o
  PROVE  /\ o.about # "status" =>
              Ready(<<DoWrite(o.about, o.value), DoPublish(o.about, e[o.about], o.value)>> \o r, e)
         /\ o.about = "status" => Ready(<<DoPublish(o.about, e[o.about], o.value)>> \o r, e)
         /\ NoWrites(<<>> \o r)
<1> DEFINE w == DoWrite(o.about, o.value)
           u == DoPublish(o.about, e[o.about], o.value)
<1>1. PICK S : r \in Seq(S)
  BY DEF IsSeq
<1>2. \A i \in 1 .. Len(r) : r[i].op \notin Writes
  BY DEF NoWrites
<1>3. w.op = "write" /\ u.op = "publish" /\ w.about = o.about /\ u.about = o.about
      /\ w.value = o.value
  BY DEF DoWrite, DoPublish
<1>4. <<>> \o r = r
  BY <1>1
<1>5. ASSUME o.about # "status" PROVE Ready(<<w, u>> \o r, e)
  <2> HIDE DEF w, u
  <2> DEFINE p == <<w, u>> \o r
  <2>1. <<w, u>> \in Seq({w, u} \cup S) /\ r \in Seq({w, u} \cup S)
        /\ Len(<<w, u>>) = 2 /\ <<w, u>>[1] = w /\ <<w, u>>[2] = u
    BY <1>1
  <2>2. Len(p) = 2 + Len(r) /\ p[1] = w /\ p[2] = u /\ Len(r) \in Nat
        /\ \A i \in 3 .. Len(p) : p[i] = r[i - 2] /\ i - 2 \in 1 .. Len(r)
    BY <2>1
  <2>3. p # <<>> /\ Head(p) = w
    BY <2>1
  <2> HIDE DEF p
  <2>4. \A i \in 1 .. Len(p) : i = 1 \/ i = 2 \/ i \in 3 .. Len(p)
    BY <2>2
  <2>5. Orderly(p)
    BY <1>2, <1>3, <2>2, <2>4 DEF Orderly, Writes
  <2>6. AboutToWrite(p, e)
    BY <1>3, <1>5, <2>2, <2>3 DEF AboutToWrite, u
  <2>7. QED BY <1>3, <2>3, <2>5, <2>6 DEF Ready, p
<1>6. ASSUME o.about = "status" PROVE Ready(<<u>> \o r, e)
  <2> HIDE DEF w, u
  <2> DEFINE p == <<u>> \o r
  <2>1. <<u>> \in Seq({u} \cup S) /\ r \in Seq({u} \cup S) /\ Len(<<u>>) = 1 /\ <<u>>[1] = u
    BY <1>1
  <2>2. Len(p) = 1 + Len(r) /\ p[1] = u /\ Len(r) \in Nat
        /\ \A i \in 2 .. Len(p) : p[i] = r[i - 1] /\ i - 1 \in 1 .. Len(r)
    BY <2>1
  <2>3. p # <<>> /\ Head(p) = u
    BY <2>1
  <2> HIDE DEF p
  <2>4. \A i \in 1 .. Len(p) : i = 1 \/ i \in 2 .. Len(p)
    BY <2>2
  <2>5. Orderly(p)
    BY <1>2, <1>3, <2>2, <2>4 DEF Orderly, Writes
  <2>6. AboutToPublish(p, e)
    BY <1>3, <1>6, <2>3 DEF AboutToPublish
  <2>7. QED BY <1>3, <2>3, <2>5, <2>6 DEF Ready, p
<1>7. QED BY <1>4, <1>5, <1>6

\* The programs that requests start write nothing before they enter a call.
LEMMA ProgramsWait ==
  /\ NoWrites(ReloadProgram)
  /\ \A slc : NoWrites(ReplayProgram(slc))
  /\ \A q, v : NoWrites(<<DoCall(q, v)>>)
  /\ \A op, b : op \notin Writes => NoWrites(<<DoSet(op, b)>>)
<1> USE DEF NoWrites, Writes, DoSet, DoCall, DoReplay, Do
<1>1. NoWrites(ReloadProgram)
  <2> DEFINE p == ReloadProgram
  <2>1. /\ Len(p) = 5
        /\ p[1].op \notin Writes /\ p[2].op \notin Writes /\ p[3].op \notin Writes
        /\ p[4].op \notin Writes /\ p[5].op \notin Writes
    BY DEF ReloadProgram
  <2> HIDE DEF p
  <2>2. \A i \in 1 .. 5 : i = 1 \/ i = 2 \/ i = 3 \/ i = 4 \/ i = 5
    OBVIOUS
  <2>3. \A i \in 1 .. Len(p) : p[i].op \notin Writes
    BY <2>1, <2>2
  <2>4. QED BY <2>3 DEF p
<1>2. ASSUME NEW slc PROVE NoWrites(ReplayProgram(slc))
  <2> DEFINE p == ReplayProgram(slc)
  <2>1. /\ Len(p) = 6
        /\ p[1].op \notin Writes /\ p[2].op \notin Writes /\ p[3].op \notin Writes
        /\ p[4].op \notin Writes /\ p[5].op \notin Writes /\ p[6].op \notin Writes
    BY DEF ReplayProgram
  <2> HIDE DEF p
  <2>2. \A i \in 1 .. 6 : i = 1 \/ i = 2 \/ i = 3 \/ i = 4 \/ i = 5 \/ i = 6
    OBVIOUS
  <2>3. \A i \in 1 .. Len(p) : p[i].op \notin Writes
    BY <2>1, <2>2
  <2>4. QED BY <2>3 DEF p
<1>3. \A q, v : NoWrites(<<DoCall(q, v)>>)
  OBVIOUS
<1>4. \A op, b : op \notin Writes => NoWrites(<<DoSet(op, b)>>)
  OBVIOUS
<1>5. QED BY <1>1, <1>2, <1>3, <1>4

-----------------------------------------------------------------------------
\* VInv is an invariant: operations.

\* An actor's program changes, and redis does not.
LEMMA OneWriterElsewhere ==
  ASSUME Typed, OneWriter, NEW a \in Actor, NEW p, todo' = [todo EXCEPT ![a] = p], env' = env,
         Ready(p, env), Writing(p) => \A b \in Actor \ {a} : ~Writing(todo[b])
  PROVE  OneWriter'
<1>1. todo'[a] = p /\ \A b \in Actor \ {a} : todo'[b] = todo[b]
  BY DEF Typed, TodoTyped
<1>2. \A b \in Actor : Ready(todo'[b], env')
  BY <1>1 DEF OneWriter
<1>3. ASSUME NEW b \in Actor, NEW c \in Actor, Writing(todo'[b]), Writing(todo'[c])
      PROVE  b = c
  BY <1>1, <1>3 DEF OneWriter
<1>4. QED BY <1>2, <1>3 DEF OneWriter

\* A program that withholds a change is writing.
LEMMA WithheldWrites == \A q, p : Withheld(q, p) => Writing(p)
BY DEF Withheld, Writing, Writes

\* What the clients will hear is what it was.
LEMMA FollowsSame ==
  ASSUME NEW q, Follows(q), UNCHANGED flow, Unpublished(q) => Unpublished(q)'
  PROVE  Follows(q)'
<1>1. UNCHANGED <<loop, reloaded>> /\ Queue(q)' = Queue(q) /\ ShownEnv' = ShownEnv
      /\ Shows(q)' = Shows(q)
  BY DEF flow, Queue, ShownEnv, Shows, Watching
<1>2. QED BY <1>1 DEF Follows

\* Nothing but an actor's program changes.
LEMMA ProgramView ==
  ASSUME Typed, VInv, NEW a \in Actor, NEW p, todo' = [todo EXCEPT ![a] = p], UNCHANGED flow,
         Ready(p, env), Writing(p) => \A b \in Actor \ {a} : ~Writing(todo[b]),
         \A q : Withheld(q, todo[a]) => Withheld(q, p)
  PROVE  VInv'
<1>1. todo'[a] = p /\ \A b \in Actor \ {a} : todo'[b] = todo[b]
  BY DEF Typed, TodoTyped
<1>2. OneWriter'
  BY OneWriterElsewhere DEF VInv, flow
<1>3. Sorted' /\ InOneGo(loop)' /\ ToldTyped'
  BY DEF VInv, flow, Sorted, InOneGo, ToldTyped
<1>4. ASSUME NEW q \in Quantity PROVE Follows(q)'
  <2>1. Unpublished(q) => Unpublished(q)'
    BY <1>1 DEF Unpublished
  <2>2. QED BY <2>1, FollowsSame DEF VInv
<1>5. QED BY <1>2, <1>3, <1>4 DEF VInv

\* The next operation of a program, and what is left.
LEMMA ProgramNext ==
  ASSUME Typed, OneWriter, NEW a \in Actor, todo[a] # <<>>
  PROVE  /\ IsSeq(todo[a]) /\ IsSeq(Tail(todo[a])) /\ Ready(todo[a], env)
         /\ OpOK(Head(todo[a]))
         /\ Head(todo[a]).op # "write" => NoWrites(Tail(todo[a]))
<1>1. Program(a, todo[a]) /\ Ready(todo[a], env)
  BY DEF Typed, TodoTyped, OneWriter
<1>2. IsSeq(todo[a])
  BY <1>1 DEF Program
<1>3. QED BY <1>1, <1>2, TailIsSeq, ProgramTail, ReadyTail

\* A call is entered once no other actor is writing.
LEMMA CallView ==
  ASSUME Patient, Typed, VInv, NEW a \in Actor, CallRecorded(a) \/ CallReplayed(a)
  PROVE  VInv'
<1> DEFINE o == Head(todo[a])
           r == Tail(todo[a])
           w == DoWrite(o.about, o.value)
           u == DoPublish(o.about, env[o.about], o.value)
<1>1. /\ todo[a] # <<>> /\ o.op \in {"call", "work"} /\ Alone(a) /\ Enter(a, o)
      /\ UNCHANGED flow
  BY DEF CallRecorded, CallReplayed, Next_op
<1>2. IsSeq(r) /\ NoWrites(r)
  BY <1>1, ProgramNext DEF VInv
<1>3. \A b \in Actor \ {a} : ~Writing(todo[b])
  BY <1>1 DEF Alone, Next_op, Writing, Writes
<1>4. ~Writing(todo[a])
  BY <1>1 DEF Writing, Writes
<1>5. \A q : ~Withheld(q, todo[a])
  BY <1>4, WithheldWrites
<1>6. PICK ops \in {<<w, u>>, <<u>>, <<>>} :
        /\ todo' = [todo EXCEPT ![a] = ops \o r]
        /\ ops = <<w, u>> => o.about # "status"
        /\ ops = <<u>> => o.about = "status"
  <2>1. CASE o.about # "status"
    <3>1. todo' = [todo EXCEPT ![a] = <<w, u>> \o r]
      BY <1>1, <2>1 DEF Enter, Become
    <3>2. <<w, u>> # <<u>>
      OBVIOUS
    <3>3. QED BY <2>1, <3>1, <3>2
  <2>2. CASE o.about = "status"
    <3>1. \/ todo' = [todo EXCEPT ![a] = <<u>> \o r]
          \/ todo' = [todo EXCEPT ![a] = <<>> \o r]
      BY <1>1, <2>2 DEF Enter, Become
    <3>2. <<w, u>> # <<u>> /\ <<w, u>> # <<>> /\ <<u>> # <<>>
      OBVIOUS
    <3>3. QED BY <2>2, <3>1, <3>2
  <2>3. QED BY <2>1, <2>2
<1> HIDE DEF r, w, u
<1>7. Ready(ops \o r, env)
  <2>1. CASE ops = <<w, u>> \/ ops = <<u>>
    BY <1>2, <1>6, <2>1, ReadyEnter DEF w, u
  <2>2. CASE ops = <<>>
    <3>1. <<>> \o r = r
      BY <1>2 DEF IsSeq
    <3>2. QED BY <1>2, <2>2, <3>1, NotWriting
  <2>3. QED BY <1>6, <2>1, <2>2
<1>8. QED BY <1>1, <1>3, <1>5, <1>6, <1>7, ProgramView

\* Operations that neither write nor publish.
LEMMA OtherView ==
  ASSUME Typed, VInv, NEW a \in Actor,
         SetStatus(a) \/ SaveStatus(a) \/ RestoreStatus(a) \/ SetReplayStatus(a)
           \/ (a \in Replayer /\ ReplayActions(a))
  PROVE  VInv'
<1> DEFINE o == Head(todo[a])
           r == Tail(todo[a])
<1>1. todo[a] # <<>> /\ o.op \notin Writes /\ UNCHANGED flow
  BY DEF SetStatus, SaveStatus, RestoreStatus, SetReplayStatus, ReplayActions, Next_op, Writes
<1>2. IsSeq(r) /\ NoWrites(r) /\ OpOK(o)
  BY <1>1, ProgramNext DEF VInv, Writes
<1>3. \A q : ~Withheld(q, todo[a])
  BY <1>1, WithheldWrites DEF Writing
<1>4. ASSUME NEW p, IsSeq(p), NoWrites(p), todo' = [todo EXCEPT ![a] = p] PROVE VInv'
  BY <1>1, <1>3, <1>4, NotWriting, ProgramView
<1>5. CASE Continue(a)
  BY <1>2, <1>4, <1>5 DEF Continue
<1>6. CASE a \in Replayer /\ ReplayActions(a)
  <2> DEFINE slc == o.slice
             s == [i \in 1 .. Len(InSlice(actions, slc)) |-> DoWork(InSlice(actions, slc)[i])]
  <2>1. o.op = "replay" /\ todo' = [todo EXCEPT ![a] = s \o r]
    BY <1>6 DEF ReplayActions, Become, Next_op
  <2>2. slc \in Slice /\ a # "random"
    BY <1>2, <1>6, <2>1, DaemonAssumption DEF OpOK, DaemonAssumption
  <2> HIDE DEF s
  <2>3. Program(a, s) /\ \A i \in 1 .. Len(s) : s[i].op = "work"
    BY <2>2, ReplayedIsProgram DEF Typed, s
  <2>4. IsSeq(s) /\ NoWrites(s)
    BY <2>3 DEF Program, NoWrites, Writes
  <2> HIDE DEF r
  <2>5. /\ \A i \in 1 .. Len(s) : s[i].op \notin Writes
        /\ \A i \in 1 .. Len(r) : r[i].op \notin Writes
    BY <1>2, <2>4 DEF NoWrites
  <2>6. /\ IsSeq(s \o r)
        /\ \A i \in 1 .. Len(s \o r) :
             \/ i \in 1 .. Len(s) /\ (s \o r)[i] = s[i]
             \/ i - Len(s) \in 1 .. Len(r) /\ (s \o r)[i] = r[i - Len(s)]
    BY <1>2, <2>4, ConcatIsSeq
  <2>7. NoWrites(s \o r)
    BY <2>5, <2>6 DEF NoWrites
  <2>8. QED BY <1>4, <2>1, <2>6, <2>7
<1>7. QED BY <1>5, <1>6 DEF SetStatus, SaveStatus, RestoreStatus, SetReplayStatus

\* Redis gets a new value.
LEMMA WriteView ==
  ASSUME Typed, VInv, NEW a \in Actor, Write(a)
  PROVE  VInv'
<1> DEFINE p == todo[a]
           o == Head(p)
           r == Tail(p)
<1>1. /\ p # <<>> /\ o.op = "write" /\ env' = [env EXCEPT ![o.about] = o.value]
      /\ todo' = [todo EXCEPT ![a] = r]
      /\ UNCHANGED <<stream, loop, subscribers, told, reloaded>>
  BY DEF Write, WriteEnv, Next_op, Continue
<1>2. IsSeq(p) /\ IsSeq(r) /\ Ready(p, env) /\ OpOK(o)
  BY <1>1, ProgramNext DEF VInv
<1>3. o.about \in Quantity /\ AboutToWrite(p, env)
  BY <1>1, <1>2 DEF OpOK, Ready
<1>4. \A b \in Actor \ {a} : ~Writing(todo[b])
  BY <1>1 DEF VInv, OneWriter, Writing, Writes
<1>5. /\ r # <<>> /\ Head(r).op = "publish" /\ Head(r).about = o.about
      /\ Head(r).old = env[o.about] /\ Head(r).value = o.value
  <2>1. Len(p) >= 2 /\ p[2] = DoPublish(o.about, env[o.about], o.value)
    BY <1>3 DEF AboutToWrite
  <2>2. Len(p) \in Nat /\ Len(r) = Len(p) - 1 /\ \A i \in 1 .. Len(r) : r[i] = p[i + 1]
    BY <1>1, <1>2, TailIsSeq
  <2> HIDE DEF r
  <2>3. 1 \in 1 .. Len(r) /\ 1 + 1 = 2
    BY <2>1, <2>2
  <2>4. r[1] = p[2]
    BY <2>2, <2>3
  <2>5. r # <<>>
    <3>1. Len(<<>>) = 0
      OBVIOUS
    <3>2. QED BY <2>1, <2>2, <3>1
  <2>6. Head(r) = r[1]
    BY <1>2, <2>5, TailIsSeq
  <2>7. QED BY <2>1, <2>4, <2>5, <2>6 DEF DoPublish
<1>6. env'[o.about] = o.value /\ \A q \in Quantity \ {o.about} : env'[q] = env[q]
  BY <1>1, <1>3 DEF Typed, EnvTyped
<1>7. todo'[a] = r /\ \A b \in Actor \ {a} : todo'[b] = todo[b]
  BY <1>1 DEF Typed, TodoTyped
<1>8. Ready(r, env')
  BY <1>1, <1>2, <1>6, ReadyTail
<1> HIDE DEF r
<1>9. OneWriter'
  <2>1. \A b \in Actor : Ready(todo'[b], env')
    BY <1>4, <1>7, <1>8, NotWriting DEF VInv, OneWriter
  <2>2. \A b, c \in Actor : Writing(todo'[b]) /\ Writing(todo'[c]) => b = c
    BY <1>4, <1>7
  <2>3. QED BY <2>1, <2>2 DEF OneWriter
<1>10. Sorted' /\ InOneGo(loop)' /\ ToldTyped'
  BY <1>1 DEF VInv, Sorted, InOneGo, ToldTyped
<1>11. ASSUME NEW q \in Quantity PROVE Follows(q)'
  <2>1. ~Unpublished(q)
    <3>1. ~Withheld(q, todo[a])
      BY <1>1 DEF Withheld
    <3>2. QED BY <1>4, <3>1, WithheldWrites DEF Unpublished
  <2>2. /\ Queue(q)' = Queue(q) /\ Shows(q)' = Shows(q)
    BY <1>1 DEF Queue, Shows, Watching
  <2>3. CASE ShownEnv'[q] = ShownEnv[q]
    BY <1>1, <2>1, <2>2, <2>3 DEF Follows, VInv
  <2>4. CASE ShownEnv'[q] # ShownEnv[q]
    <3>1. Shown(q, env'[q]) # Shown(q, env[q])
      BY <2>4 DEF ShownEnv
    <3>2. q = o.about
      BY <1>6, <3>1
    <3>3. q # "status"
      BY <1>3, <3>2 DEF AboutToWrite
    <3>4. Withheld(q, r)
      BY <1>5, <1>6, <3>1, <3>2, <3>3 DEF Withheld
    <3>5. Unpublished(q)'
      BY <1>7, <3>4 DEF Unpublished
    <3>6. QED BY <3>5 DEF Follows
  <2>5. QED BY <2>3, <2>4
<1>12. QED BY <1>9, <1>10, <1>11 DEF VInv

\* The old and the new value go into the stream.
LEMMA PublishView ==
  ASSUME Typed, VInv, NEW a \in Actor, PublishUpdate(a)
  PROVE  VInv'
<1> DEFINE p == todo[a]
           o == Head(p)
           r == Tail(p)
           m == Update(o.about, o.old, o.value)
           k == StreamOf[o.about]
<1>1. /\ p # <<>> /\ o.op = "publish" /\ todo' = [todo EXCEPT ![a] = r]
      /\ stream' = [stream EXCEPT ![k] = Append(@, m)]
      /\ UNCHANGED <<env, loop, subscribers, told, reloaded>>
  BY DEF PublishUpdate, Publish, Next_op, Continue
<1>2. IsSeq(r) /\ NoWrites(r) /\ Ready(p, env) /\ OpOK(o)
  BY <1>1, ProgramNext DEF VInv
<1>3. o.about \in Quantity /\ (o.about = "status" \/ o.value = env[o.about])
  BY <1>1, <1>2 DEF OpOK, Ready, AboutToPublish
<1>4. \A b \in Actor \ {a} : ~Writing(todo[b])
  BY <1>1 DEF VInv, OneWriter, Writing, Writes
<1>5. Ready(r, env) /\ ~Writing(r)
  BY <1>2, NotWriting
<1>6. m.kind = o.about /\ m.old = o.old /\ m.new = o.value
  BY DEF Update
<1>7. k \in Stream /\ \A q \in Quantity : StreamOf[q] \in Stream
  BY <1>3 DEF StreamOf, Stream, Quantity
<1> HIDE DEF r, m, k
<1>8. OneWriter'
  BY <1>1, <1>5, OneWriterElsewhere DEF VInv
<1>9. \A s \in Stream : IsSeq(stream[s]) /\ stream'[s] = IF s = k THEN Append(stream[s], m) ELSE stream[s]
  BY <1>1 DEF Typed, StreamTyped
<1>10. Sorted'
  <2> SUFFICES ASSUME NEW s \in Stream, NEW i \in 1 .. Len(stream'[s]),
                      stream'[s][i].kind \in Quantity
               PROVE  s = StreamOf[stream'[s][i].kind]
    BY DEF Sorted
  <2>1. CASE s # k
    <3>1. stream'[s] = stream[s]
      BY <1>9, <2>1
    <3>2. QED BY <3>1 DEF VInv, Sorted
  <2>2. CASE s = k
    <3>1. stream'[s] = Append(stream[s], m) /\ IsSeq(stream[s])
      BY <1>9, <2>2
    <3>2. \/ i \in 1 .. Len(stream[s]) /\ stream'[s][i] = stream[s][i]
          \/ stream'[s][i] = m
      BY <3>1, AppendIsSeq
    <3>3. CASE i \in 1 .. Len(stream[s]) /\ stream'[s][i] = stream[s][i]
      BY <3>3 DEF VInv, Sorted
    <3>4. CASE stream'[s][i] = m
      BY <1>6, <2>2, <3>4 DEF k
    <3>5. QED BY <3>2, <3>3, <3>4
  <2>3. QED BY <2>1, <2>2
<1>11. InOneGo(loop)' /\ ToldTyped'
  BY <1>1 DEF VInv, InOneGo, ToldTyped
<1>12. ASSUME NEW q \in Quantity PROVE Follows(q)'
  <2>1. Unpublished(q) => Withheld(q, p)
    BY <1>4, WithheldWrites DEF Unpublished
  <2>2. /\ ShownEnv' = ShownEnv /\ Shows(q)' = Shows(q) /\ UNCHANGED <<loop, reloaded>>
    BY <1>1 DEF ShownEnv, Shows, Watching
  <2>3. IsSeq(Queue(q)) /\ (Queue(q)' = Queue(q) \/ Queue(q)' = Append(Queue(q), m))
    BY <1>7, <1>9 DEF Queue
  <2>4. q = o.about => Queue(q)' = Append(Queue(q), m)
    BY <1>7, <1>9 DEF Queue, k
  <2>5. CASE Withheld(q, p)
    <3>1. q = o.about /\ q # "status" /\ Shown(q, o.old) # Shown(q, o.value)
      BY <2>5 DEF Withheld
    <3>2. Counts("update", q, m) /\ Says("update", q, m) = Shown(q, o.value)
      BY <1>6, <3>1 DEF Counts, Says
    <3>3. Shown(q, o.value) = ShownEnv[q]
      BY <1>3, <3>1 DEF ShownEnv
    <3>4. InStep(q, loop, Append(Queue(q), m), ShownEnv[q], Shows(q))
      BY <2>3, <3>2, <3>3, InStepPublish
    <3>5. QED BY <2>2, <2>4, <3>1, <3>4 DEF Follows
  <2>6. CASE ~Withheld(q, p)
    <3>1. ~Counts("update", q, m)
      BY <1>1, <1>6, <2>6 DEF Withheld, Counts
    <3>2. (q = "status" /\ reloaded) \/ InStep(q, loop, Queue(q), ShownEnv[q], Shows(q))
      BY <2>1, <2>6 DEF VInv, Follows
    <3>3. InStep(q, loop, Queue(q), ShownEnv[q], Shows(q)) =>
            InStep(q, loop, Append(Queue(q), m), ShownEnv[q], Shows(q))
      BY <2>3, <3>1, InStepPublish
    <3>4. QED BY <2>2, <2>3, <3>2, <3>3 DEF Follows
  <2>7. QED BY <2>5, <2>6
<1>13. QED BY <1>8, <1>10, <1>11, <1>12 DEF VInv

\* initialize() changes the status, and nobody is told; nor will anybody be.
LEMMA InitializeView ==
  ASSUME Typed, VInv, Initialize
  PROVE  VInv'
<1> DEFINE p == todo["loop"]
           r == Tail(p)
<1>1. /\ p # <<>> /\ Head(p).op = "initialize" /\ todo' = [todo EXCEPT !["loop"] = r]
      /\ env' = [env EXCEPT !["status"] = 1] /\ reloaded' = TRUE
      /\ UNCHANGED <<stream, loop, subscribers, told>>
  BY DEF Initialize, Next_op, Continue
<1>2. "loop" \in Actor
  BY DEF Actor
<1>3. IsSeq(r) /\ NoWrites(r)
  BY <1>1, <1>2, ProgramNext DEF VInv
<1>4. \A f : Ready(r, f) /\ ~Writing(r)
  BY <1>3, NotWriting
<1> HIDE DEF r
<1>5. todo'["loop"] = r /\ \A b \in Actor \ {"loop"} : todo'[b] = todo[b]
  BY <1>1, <1>2 DEF Typed, TodoTyped
<1>6. OneWriter'
  <2>1. \A b \in Actor \ {"loop"} : Ready(todo[b], env) /\ Ready(todo[b], env')
    <3> SUFFICES ASSUME NEW b \in Actor, Ready(todo[b], env)
                 PROVE  Ready(todo[b], env')
      BY DEF VInv, OneWriter
    <3>1. todo[b] # <<>> => OpOK(Head(todo[b]))
      BY ProgramNext DEF VInv
    <3>2. \A q \in Quantity : q # "status" => env'[q] = env[q]
      BY <1>1 DEF Typed, EnvTyped
    <3>3. QED BY <3>1, <3>2 DEF Ready, AboutToWrite, AboutToPublish, OpOK
  <2>2. \A b \in Actor : Ready(todo'[b], env')
    BY <1>4, <1>5, <2>1
  <2>3. \A b, c \in Actor : Writing(todo'[b]) /\ Writing(todo'[c]) => b = c
    BY <1>4, <1>5 DEF VInv, OneWriter
  <2>4. QED BY <2>2, <2>3 DEF OneWriter
<1>7. Sorted' /\ InOneGo(loop)' /\ ToldTyped'
  BY <1>1 DEF VInv, Sorted, InOneGo, ToldTyped
<1>8. ASSUME NEW q \in Quantity PROVE Follows(q)'
  <2>1. CASE q = "status"
    BY <1>1, <2>1 DEF Follows
  <2>2. CASE q # "status"
    <3>1. ShownEnv'[q] = ShownEnv[q]
      BY <1>1, <2>2 DEF ShownEnv, Typed, EnvTyped
    <3>2. Queue(q)' = Queue(q) /\ Shows(q)' = Shows(q) /\ loop' = loop
      BY <1>1 DEF Queue, Shows, Watching
    <3>3. ~Withheld(q, p)
      BY <1>1 DEF Withheld
    <3>4. Unpublished(q) => Unpublished(q)'
      BY <1>5, <3>3 DEF Unpublished
    <3>5. QED BY <2>2, <3>1, <3>2, <3>4 DEF VInv, Follows
  <2>3. QED BY <2>1, <2>2
<1>9. QED BY <1>6, <1>7, <1>8 DEF VInv

-----------------------------------------------------------------------------
\* VInv is an invariant: requests and their handlers.

\* Two sequences put together: nothing, or one event, at the end.
LEMMA PushIsAppend ==
  ASSUME NEW s, IsSeq(s)
  PROVE  s \o <<>> = s /\ \A e : s \o <<e>> = Append(s, e)
<1>1. PICK S : s \in Seq(S)
  BY DEF IsSeq
<1>2. QED BY <1>1

\* A client subscribes right after it was told the state: the queue put together
\* and taken apart.
LEMMA InOneGoTail ==
  ASSUME NEW s, IsSeq(s), s # <<>>, InOneGo(s)
  PROVE  /\ InOneGo(Tail(s))
         /\ Tail(s) # <<>> /\ Head(Tail(s)).kind = "subscribe" =>
              Head(s).kind = "get_sys_status" /\ Head(s).client = Head(Tail(s)).client
<1> DEFINE t == Tail(s)
           n == Len(s)
<1>1. /\ n \in Nat \ {0} /\ Head(s) = s[1] /\ Len(t) = n - 1 /\ IsSeq(t)
      /\ \A i \in 1 .. n - 1 : t[i] = s[i + 1]
  BY TailIsSeq
<1>2. \A i \in 2 .. n :
        s[i].kind = "subscribe" =>
          s[i - 1].kind = "get_sys_status" /\ s[i - 1].client = s[i].client
  BY DEF InOneGo
<1> HIDE DEF n
<1>3. InOneGo(t)
  <2> HIDE DEF t
  <2> SUFFICES ASSUME NEW i \in 2 .. n - 1, t[i].kind = "subscribe"
               PROVE  t[i - 1].kind = "get_sys_status" /\ t[i - 1].client = t[i].client
    BY <1>1 DEF InOneGo
  <2>1. i + 1 \in 2 .. n /\ (i + 1) - 1 = i /\ (i - 1) + 1 = i /\ i - 1 \in 1 .. n - 1
        /\ i \in 1 .. n - 1
    BY <1>1
  <2>2. t[i] = s[i + 1] /\ t[i - 1] = s[i]
    BY <1>1, <2>1
  <2>3. QED BY <1>2, <2>1, <2>2
<1>4. ASSUME t # <<>>, Head(t).kind = "subscribe"
      PROVE  Head(s).kind = "get_sys_status" /\ Head(s).client = Head(t).client
  <2>1. Head(t) = t[1] /\ 1 \in 1 .. Len(t)
    BY <1>1, <1>4, TailIsSeq
  <2> HIDE DEF t
  <2>2. 2 \in 2 .. n /\ 1 + 1 = 2 /\ 2 - 1 = 1 /\ 1 \in 1 .. n - 1
    BY <1>1, <2>1
  <2>3. t[1] = s[2]
    BY <1>1, <2>2
  <2>4. QED BY <1>1, <1>2, <1>4, <2>1, <2>2, <2>3
<1>5. QED BY <1>3, <1>4 DEF t

\* An event more.
LEMMA InOneGoAppend ==
  ASSUME NEW s, IsSeq(s), InOneGo(s), NEW e,
         e.kind = "subscribe" =>
           /\ s # <<>> /\ s[Len(s)].kind = "get_sys_status" /\ s[Len(s)].client = e.client
  PROVE  InOneGo(Append(s, e))
<1> DEFINE t == Append(s, e)
           n == Len(s)
<1>1. n \in Nat /\ Len(t) = n + 1 /\ t[n + 1] = e /\ \A i \in 1 .. n : t[i] = s[i]
  <2>1. PICK S : s \in Seq(S)
    BY DEF IsSeq
  <2>2. s \in Seq(S \cup {e})
    BY <2>1
  <2>3. QED BY <2>2
<1> HIDE DEF t, n
<1> SUFFICES ASSUME NEW i \in 2 .. n + 1, t[i].kind = "subscribe"
             PROVE  t[i - 1].kind = "get_sys_status" /\ t[i - 1].client = t[i].client
  BY <1>1 DEF InOneGo, t
<1>2. i - 1 \in 1 .. n /\ t[i - 1] = s[i - 1]
  BY <1>1
<1>3. CASE i \in 2 .. n
  <2>1. t[i] = s[i]
    BY <1>1, <1>3
  <2>2. QED BY <1>2, <1>3, <2>1 DEF InOneGo, n
<1>4. CASE i = n + 1
  <2>1. i - 1 = n
    BY <1>1, <1>4
  <2>2. QED BY <1>1, <1>2, <1>4, <2>1 DEF n
<1>5. QED BY <1>1, <1>3, <1>4

\* Whether the first event is a subscription.
Subscribing(s) == s # <<>> /\ Head(s).kind = "subscribe"

\* An event more, or less.
LEMMA SubscribingNext ==
  ASSUME NEW s, IsSeq(s)
  PROVE  /\ \A e : e.kind # "subscribe" /\ ~Subscribing(s) => ~Subscribing(Append(s, e))
         /\ \A e : s # <<>> => Append(s, e) # <<>> /\ Head(Append(s, e)) = Head(s)
         /\ \A e : s = <<>> => Head(Append(s, e)) = e
         /\ s # <<>> /\ InOneGo(s) /\ Head(s).kind # "get_sys_status" => ~Subscribing(Tail(s))
<1>1. PICK S : s \in Seq(S)
  BY DEF IsSeq
<1>2. ASSUME NEW e PROVE s # <<>> => Append(s, e) # <<>> /\ Head(Append(s, e)) = Head(s)
  <2>1. s \in Seq(S \cup {e})
    BY <1>1
  <2>2. QED BY <2>1
<1>3. \A e : s = <<>> => Head(Append(s, e)) = e
  OBVIOUS
<1>4. s # <<>> /\ InOneGo(s) /\ Head(s).kind # "get_sys_status" => ~Subscribing(Tail(s))
  BY InOneGoTail DEF Subscribing
<1>5. QED BY <1>2, <1>3, <1>4 DEF Subscribing

\* Clients show what they showed, and no other client watches.
LEMMA ShowsLess ==
  ASSUME told' = told, \A d \in Client : Watching(d)' => Watching(d)
  PROVE  \A q : Shows(q)' \subseteq Shows(q)
BY DEF Shows

\* Events no client will hear of: none of them is about a value, or the news.
Silent(e) == e.kind \notin Quantity \cup {"news"}
LEMMA SilentEvents ==
  \A e : Silent(e) =>
    \A q \in Quantity : ~Counts("update", q, e) /\ ~Counts("news", q, e)
BY DEF Silent, Counts

\* What the clients will hear, when it is what it was or will be once more.
LEMMA FollowsNext ==
  ASSUME NEW q, Follows(q), Unpublished(q) => Unpublished(q)', reloaded' = reloaded,
         InStep(q, loop, Queue(q), ShownEnv[q], Shows(q)) =>
           InStep(q, loop', Queue(q)', ShownEnv'[q], Shows(q)')
  PROVE  Follows(q)'
BY DEF Follows

\* A silent event comes last in the loop.
LEMMA SilentComes ==
  ASSUME Typed, VInv, NEW e, Silent(e), e.kind # "subscribe", loop' = Append(loop, e),
         UNCHANGED <<todo, env, stream, subscribers, told, reloaded>>
  PROVE  VInv'
<1>0. IsSeq(loop)
  BY DEF Typed, LoopTyped, Events
<1>1. OneWriter' /\ Sorted' /\ ToldTyped'
  BY DEF VInv, OneWriter, Sorted, ToldTyped
<1>2. InOneGo(loop)'
  BY <1>0, InOneGoAppend DEF VInv
<1>3. \A d \in Client : Watching(d)' => Watching(d)
  BY <1>0, SubscribingNext DEF Watching
<1>4. ASSUME NEW q \in Quantity PROVE Follows(q)'
  <2>1. ~Counts("update", q, e) /\ ~Counts("news", q, e)
    BY SilentEvents
  <2>2. Shows(q)' \subseteq Shows(q) /\ Queue(q)' = Queue(q) /\ ShownEnv' = ShownEnv
    BY <1>3, ShowsLess DEF Queue, ShownEnv
  <2>3. Unpublished(q) => Unpublished(q)'
    BY DEF Unpublished
  <2>4. InStep(q, loop, Queue(q), ShownEnv[q], Shows(q)) =>
          InStep(q, loop', Queue(q)', ShownEnv'[q], Shows(q)')
    BY <1>0, <2>1, <2>2, InStepAppend
  <2>5. QED BY <2>3, <2>4, FollowsNext DEF VInv
<1>5. QED BY <1>1, <1>2, <1>4 DEF VInv

\* A silent event is handled: an actor may get a program that writes nothing yet,
\* and fewer clients may watch.
LEMMA SilentGoes ==
  ASSUME Typed, VInv, loop # <<>>, Silent(Head(loop)), Head(loop).kind # "get_sys_status",
         loop' = Tail(loop), \A d \in Client : d \in subscribers' => Watching(d),
         OneWriter', \A q : Unpublished(q) => Unpublished(q)',
         UNCHANGED <<env, stream, told, reloaded>>
  PROVE  VInv'
<1>0. IsSeq(loop)
  BY DEF Typed, LoopTyped, Events
<1>1. Sorted' /\ ToldTyped'
  BY DEF VInv, Sorted, ToldTyped
<1>2. InOneGo(loop)' /\ ~Subscribing(loop')
  BY <1>0, InOneGoTail, SubscribingNext DEF VInv
<1>3. \A d \in Client : Watching(d)' => Watching(d)
  BY <1>2 DEF Watching, Subscribing
<1>4. ASSUME NEW q \in Quantity PROVE Follows(q)'
  <2>1. ~Counts("update", q, Head(loop)) /\ ~Counts("news", q, Head(loop))
    BY SilentEvents
  <2>2. Shows(q)' \subseteq Shows(q) /\ Queue(q)' = Queue(q) /\ ShownEnv' = ShownEnv
    BY <1>3, ShowsLess DEF Queue, ShownEnv
  <2>3. InStep(q, loop, Queue(q), ShownEnv[q], Shows(q)) =>
          InStep(q, loop', Queue(q)', ShownEnv'[q], Shows(q)')
    BY <1>0, <2>1, <2>2, InStepTail
  <2>4. QED BY <2>3, FollowsNext DEF VInv
<1>5. QED BY <1>1, <1>2, <1>4 DEF VInv

\* Requests.
LEMMA RequestsView ==
  ASSUME Typed, VInv, Requests
  PROVE  VInv'
<1>1. ASSUME NEW e, Silent(e), e.kind # "subscribe", Ask(e) PROVE VInv'
  BY <1>1, SilentComes DEF Ask
<1>2. CASE AskForCall \/ AskForStatus \/ AskForReplay \/ AskForActions \/ AskForRandom
  BY <1>1, <1>2 DEF AskForCall, AskForStatus, AskForReplay, AskForActions, AskForRandom, Plain,
     Silent, Quantity
<1>3. ASSUME NEW c \in Client, Disconnect(c) PROVE VInv'
  BY <1>1, <1>3 DEF Disconnect, Silent, Quantity
<1>4. ASSUME NEW c \in Client, Connect(c) PROVE VInv'
  <2> DEFINE e == [kind |-> "get_sys_status", client |-> c]
             f == [kind |-> "subscribe", client |-> c]
             l == Append(loop, e)
  <2>0. IsSeq(loop)
    BY DEF Typed, LoopTyped, Events
  <2>1. /\ loop' = loop \o <<e, f>>
        /\ UNCHANGED <<todo, env, stream, subscribers, told, reloaded>>
    BY <1>4 DEF Connect
  <2>2. /\ Silent(e) /\ Silent(f) /\ e.kind = "get_sys_status" /\ f.kind = "subscribe"
        /\ e.client = f.client
    BY DEF Silent, Quantity
  <2> HIDE DEF e, f
  <2>3. loop \o <<e, f>> = Append(l, f)
    <3>1. PICK S : loop \in Seq(S)
      BY <2>0 DEF IsSeq
    <3>2. loop \in Seq(S \cup {e, f})
      BY <3>1
    <3>3. QED BY <3>2
  <2>4. IsSeq(l) /\ l # <<>> /\ l[Len(l)] = e
    <3>1. PICK S : loop \in Seq(S)
      BY <2>0 DEF IsSeq
    <3>2. loop \in Seq(S \cup {e})
      BY <3>1
    <3>3. l[Len(l)] = e
      BY <3>2
    <3>4. QED BY <2>0, <3>3, AppendIsSeq
  <2>5. InOneGo(l)
    BY <2>0, <2>2, InOneGoAppend DEF VInv
  <2>6. Head(l) = e \/ (loop # <<>> /\ Head(l) = Head(loop))
    BY <2>0, SubscribingNext
  <2> HIDE DEF l
  <2>7. InOneGo(loop)'
    BY <2>1, <2>2, <2>3, <2>4, <2>5, InOneGoAppend
  <2>8. Head(loop') = e \/ (loop # <<>> /\ Head(loop') = Head(loop))
    BY <2>1, <2>3, <2>4, <2>6, SubscribingNext
  <2>9. \A d \in Client : Watching(d)' => Watching(d)
    BY <2>1, <2>2, <2>8 DEF Watching
  <2>10. OneWriter' /\ Sorted' /\ ToldTyped'
    BY <2>1 DEF VInv, OneWriter, Sorted, ToldTyped
  <2>11. ASSUME NEW q \in Quantity PROVE Follows(q)'
    <3>1. /\ ~Counts("update", q, e) /\ ~Counts("news", q, e)
          /\ ~Counts("update", q, f) /\ ~Counts("news", q, f)
      BY <2>2, SilentEvents
    <3>2. Shows(q)' \subseteq Shows(q) /\ Queue(q)' = Queue(q) /\ ShownEnv' = ShownEnv
      BY <2>1, <2>9, ShowsLess DEF Queue, ShownEnv
    <3>3. Unpublished(q) => Unpublished(q)'
      BY <2>1 DEF Unpublished
    <3>4. ASSUME InStep(q, loop, Queue(q), ShownEnv[q], Shows(q))
          PROVE  InStep(q, loop', Queue(q)', ShownEnv'[q], Shows(q)')
      <4>1. InStep(q, l, Queue(q), ShownEnv[q], Shows(q))
        BY <2>0, <3>1, <3>4, InStepAppend DEF l
      <4>2. InStep(q, Append(l, f), Queue(q), ShownEnv[q], Shows(q)')
        BY <2>4, <3>1, <3>2, <4>1, InStepAppend
      <4>3. QED BY <2>1, <2>3, <3>2, <4>2
    <3>5. QED BY <2>1, <3>3, <3>4, FollowsNext DEF VInv
  <2>12. QED BY <2>7, <2>10, <2>11 DEF VInv
<1>5. CASE UpdateOid \/ ReloadModel
  <2>1. PICK k \in Stream, kind \in {"oid", "model"} : PublishPlain(k, kind)
    BY <1>5 DEF UpdateOid, ReloadModel, Stream
  <2> DEFINE m == Plain(kind)
  <2>2. /\ stream' = [stream EXCEPT ![k] = Append(@, m)]
        /\ UNCHANGED <<todo, env, loop, subscribers, told, reloaded>>
    BY <2>1 DEF PublishPlain, Publish
  <2>3. Silent(m) /\ m.kind \notin Quantity
    BY DEF Silent, Plain, Quantity
  <2> HIDE DEF m
  <2>4. \A s \in Stream :
          IsSeq(stream[s]) /\ stream'[s] = IF s = k THEN Append(stream[s], m) ELSE stream[s]
    BY <2>2 DEF Typed, StreamTyped
  <2>5. Sorted'
    <3> SUFFICES ASSUME NEW s \in Stream, NEW i \in 1 .. Len(stream'[s]),
                        stream'[s][i].kind \in Quantity
                 PROVE  s = StreamOf[stream'[s][i].kind]
      BY DEF Sorted
    <3>1. i \in 1 .. Len(stream[s]) /\ stream'[s][i] = stream[s][i]
      <4>1. CASE s # k
        BY <2>4, <4>1
      <4>2. CASE s = k
        <5>1. stream'[s] = Append(stream[s], m) /\ IsSeq(stream[s])
          BY <2>4, <4>2
        <5>2. QED BY <2>3, <5>1, AppendIsSeq
      <4>3. QED BY <4>1, <4>2
    <3>2. QED BY <3>1 DEF VInv, Sorted
  <2>6. OneWriter' /\ InOneGo(loop)' /\ ToldTyped'
    BY <2>2 DEF VInv, OneWriter, InOneGo, ToldTyped
  <2>7. ASSUME NEW q \in Quantity PROVE Follows(q)'
    <3>0. StreamOf[q] \in Stream
      BY DEF StreamOf, Stream, Quantity
    <3>1. IsSeq(Queue(q)) /\ (Queue(q)' = Queue(q) \/ Queue(q)' = Append(Queue(q), m))
      BY <2>4, <3>0 DEF Queue
    <3>2. ~Counts("update", q, m)
      BY <2>3, SilentEvents
    <3>3. /\ Unpublished(q) => Unpublished(q)'
          /\ ShownEnv' = ShownEnv /\ Shows(q)' = Shows(q)
      BY <2>2 DEF Unpublished, ShownEnv, Shows, Watching
    <3>4. InStep(q, loop, Queue(q), ShownEnv[q], Shows(q)) =>
            InStep(q, loop', Queue(q)', ShownEnv'[q], Shows(q)')
      BY <2>2, <3>1, <3>2, <3>3, InStepPublish
    <3>5. QED BY <2>2, <3>3, <3>4, FollowsNext DEF VInv
  <2>8. QED BY <2>5, <2>6, <2>7 DEF VInv
<1>6. QED BY <1>2, <1>3, <1>4, <1>5 DEF Requests

\* Handlers of requests.
LEMMA ServeView ==
  ASSUME Typed, VInv, Serve
  PROVE  VInv'
<1>1. ASSUME NEW kind, kind \notin Quantity \cup {"news", "get_sys_status"}, NEW a \in Actor,
             NEW ops, Handle(kind, a, ops), IsSeq(ops), NoWrites(ops)
      PROVE  VInv'
  <2>1. /\ loop # <<>> /\ Head(loop).kind = kind /\ loop' = Tail(loop)
        /\ todo[a] = <<>> /\ todo' = [todo EXCEPT ![a] = ops]
        /\ UNCHANGED <<env, stream, subscribers, told, reloaded>>
    BY <1>1 DEF Handle, Dispatch
  <2>2. Ready(ops, env) /\ ~Writing(ops)
    BY <1>1, NotWriting
  <2>3. OneWriter'
    BY <2>1, <2>2, OneWriterElsewhere DEF VInv
  <2>4. \A q : Unpublished(q) => Unpublished(q)'
    BY <2>1 DEF Unpublished, Withheld, Typed, TodoTyped
  <2>5. QED BY <1>1, <2>1, <2>3, <2>4, SilentGoes DEF Silent, Watching
<1>2. "loop" \in Actor /\ "random" \in Actor /\ Replayer \subseteq Actor
      /\ "random" \notin Replayer
  BY DaemonAssumption DEF DaemonAssumption, Actor
<1>3. \A o : IsSeq(<<o>>)
  <2>1. \A o : <<o>> \in Seq({o})
    OBVIOUS
  <2>2. QED BY <2>1 DEF IsSeq
<1>4. /\ "set" \notin Quantity \cup {"news", "get_sys_status"}
      /\ "set_recorder_status" \notin Quantity \cup {"news", "get_sys_status"}
      /\ "model" \notin Quantity \cup {"news", "get_sys_status"}
      /\ "replay_actions" \notin Quantity \cup {"news", "get_sys_status"}
      /\ "exec_rand_actions" \notin Quantity \cup {"news", "get_sys_status"}
  BY DEF Quantity
<1>5. CASE HandleCall
  <2>1. Handle("set", "loop", <<DoCall(Request.call.about, Request.call.value)>>)
    BY <1>5 DEF HandleCall
  <2>2. QED BY <1>1, <1>2, <1>3, <1>4, <2>1, ProgramsWait
<1>6. CASE HandleSetRecorder
  <2>1. Handle("set_recorder_status", "loop", <<DoSet("enabled", Request.on)>>)
    BY <1>6 DEF HandleSetRecorder
  <2>2. NoWrites(<<DoSet("enabled", Request.on)>>)
    BY ProgramsWait DEF Writes
  <2>3. QED BY <1>1, <1>2, <1>3, <1>4, <2>1, <2>2
<1>7. CASE HandleReload
  <2>1. IsSeq(ReloadProgram)
    BY ReloadIsProgram DEF Program
  <2>2. QED BY <1>1, <1>2, <1>4, <1>7, <2>1, ProgramsWait DEF HandleReload
<1>8. CASE HandleReplay
  <2>1. PICK r \in Replayer : Handle("replay_actions", r, ReplayProgram(Request.slice))
    BY <1>8 DEF HandleReplay
  <2>2. Request.slice \in Slice
    BY <2>1, EventsTail DEF Handle, Dispatch, Typed, LoopTyped, EventOK, Request, SliceKind
  <2>3. IsSeq(ReplayProgram(Request.slice))
    BY <1>2, <2>2, ReplayIsProgram DEF Program
  <2>4. QED BY <1>1, <1>2, <1>4, <2>1, <2>3, ProgramsWait
<1>9. CASE HandleRandom
  <2>1. PICK c \in Calls : Handle("exec_rand_actions", "random", <<DoCall(c.about, c.value)>>)
    BY <1>9 DEF HandleRandom
  <2>2. QED BY <1>1, <1>2, <1>3, <1>4, <2>1, ProgramsWait
<1>10. CASE HandleActions
  <2>1. /\ loop # <<>> /\ Head(loop).kind \in {"clear_actions", "save_actions", "load_actions"}
        /\ loop' = Tail(loop)
        /\ UNCHANGED <<todo, env, stream, subscribers, told, reloaded>>
    BY <1>10 DEF HandleActions, Dispatch, daemon
  <2>2. Silent(Head(loop)) /\ Head(loop).kind # "get_sys_status"
    BY <2>1 DEF Silent, Quantity
  <2>3. OneWriter' /\ \A q : Unpublished(q) => Unpublished(q)'
    BY <2>1 DEF VInv, OneWriter, Unpublished
  <2>4. QED BY <2>1, <2>2, <2>3, SilentGoes DEF Watching
<1>11. QED BY <1>5, <1>6, <1>7, <1>8, <1>9, <1>10 DEF Serve

-----------------------------------------------------------------------------
\* VInv is an invariant: the loop.

\* A message reaches the loop.
LEMMA ListenView ==
  ASSUME Typed, VInv, NEW busy, Listen(busy), UNCHANGED todo
  PROVE  VInv'
<1>1. PICK k \in Stream : /\ stream[k] # <<>>
                          /\ loop' = Append(loop, Head(stream[k]))
                          /\ stream' = [stream EXCEPT ![k] = Tail(@)]
  BY DEF Listen
<1> DEFINE m == Head(stream[k])
<1>2. UNCHANGED <<env, subscribers, told, reloaded>>
  BY DEF Listen
<1>3. IsSeq(loop) /\ \A s \in Stream : IsSeq(stream[s])
  BY DEF Typed, LoopTyped, Events, StreamTyped
<1>4. /\ Len(stream[k]) \in Nat \ {0} /\ m = stream[k][1]
      /\ \A i \in 1 .. Len(Tail(stream[k])) :
           i + 1 \in 1 .. Len(stream[k]) /\ Tail(stream[k])[i] = stream[k][i + 1]
  BY <1>1, <1>3, TailIsSeq
<1>5. 1 \in 1 .. Len(stream[k])
  BY <1>4
<1>6. m.kind \in Quantity => k = StreamOf[m.kind]
  BY <1>4, <1>5 DEF VInv, Sorted
<1>7. MessageOK(m)
  BY <1>4, <1>5 DEF Typed, StreamTyped
<1>8. m.kind # "news" /\ m.kind # "subscribe"
  BY <1>7 DEF MessageOK, Quantity
<1>9. \A s \in Stream : stream'[s] = IF s = k THEN Tail(stream[s]) ELSE stream[s]
  BY <1>1 DEF Typed, StreamTyped
<1>10. Sorted'
  <2> SUFFICES ASSUME NEW s \in Stream, NEW i \in 1 .. Len(stream'[s]),
                      stream'[s][i].kind \in Quantity
               PROVE  s = StreamOf[stream'[s][i].kind]
    BY DEF Sorted
  <2>1. \E j \in 1 .. Len(stream[s]) : stream'[s][i] = stream[s][j]
    <3>1. CASE s = k
      <4>1. stream'[s] = Tail(stream[s])
        BY <1>9, <3>1
      <4>2. QED BY <1>4, <3>1, <4>1
    <3>2. CASE s # k
      BY <1>9, <3>2
    <3>3. QED BY <3>1, <3>2
  <2>2. QED BY <2>1 DEF VInv, Sorted
<1> HIDE DEF m
<1>11. OneWriter' /\ ToldTyped'
  BY <1>2 DEF VInv, OneWriter, ToldTyped
<1>12. InOneGo(loop)'
  BY <1>1, <1>3, <1>8, InOneGoAppend DEF VInv, m
<1>13. \A d \in Client : Watching(d)' => Watching(d)
  <2>1. loop # <<>> => Head(loop') = Head(loop)
    BY <1>1, <1>3, SubscribingNext
  <2>2. loop = <<>> => Head(loop') = m
    BY <1>1, <1>3, SubscribingNext DEF m
  <2>3. QED BY <1>2, <1>8, <2>1, <2>2 DEF Watching
<1>14. ASSUME NEW q \in Quantity PROVE Follows(q)'
  <2>1. Shows(q)' \subseteq Shows(q) /\ ShownEnv' = ShownEnv
    BY <1>2, <1>13, ShowsLess DEF ShownEnv
  <2>2. Unpublished(q) => Unpublished(q)'
    BY DEF Unpublished
  <2>3. StreamOf[q] \in Stream
    BY DEF StreamOf, Stream, Quantity
  <2>4. ~Counts("news", q, m)
    BY <1>8 DEF Counts
  <2>5. ASSUME InStep(q, loop, Queue(q), ShownEnv[q], Shows(q))
        PROVE  InStep(q, loop', Queue(q)', ShownEnv'[q], Shows(q)')
    <3>1. CASE k = StreamOf[q]
      <4>1. Queue(q) = stream[k] /\ Queue(q)' = Tail(stream[k]) /\ loop' = Append(loop, Head(stream[k]))
        BY <1>1, <1>9, <3>1 DEF Queue
      <4>2. QED BY <1>1, <1>3, <2>1, <2>4, <2>5, <4>1, InStepListen DEF m
    <3>2. CASE k # StreamOf[q]
      <4>1. ~Counts("update", q, m)
        BY <1>6, <3>2 DEF Counts
      <4>2. Queue(q)' = Queue(q)
        BY <1>9, <2>3, <3>2 DEF Queue
      <4>3. QED BY <1>1, <1>3, <2>1, <2>4, <2>5, <4>1, <4>2, InStepAppend DEF m
    <3>3. QED BY <3>1, <3>2
  <2>6. QED BY <1>2, <2>2, <2>5, FollowsNext DEF VInv
<1>15. QED BY <1>10, <1>11, <1>12, <1>14 DEF VInv

\* An update is handled, and clients will hear of it; or no client needs to.
LEMMA UpdateView ==
  ASSUME Typed, VInv, loop # <<>>, NEW p \in Quantity, Head(loop).kind = p,
         UNCHANGED <<todo, env, stream, subscribers, told, reloaded>>,
         \/ ~Counts("update", p, Head(loop)) /\ loop' = Tail(loop)
         \/ Counts("update", p, Head(loop)) /\ \E v : /\ loop' = Append(Tail(loop), News(p, v))
                                                    /\ v = Shown(p, Head(loop).new)
         \/ p = "status" /\ loop' = Tail(loop)
  PROVE  VInv'
<1> DEFINE m == Head(loop)
<1>0. IsSeq(loop) /\ IsSeq(Tail(loop)) /\ InOneGo(Tail(loop)) /\ ~Subscribing(Tail(loop))
  <2>1. IsSeq(loop)
    BY DEF Typed, LoopTyped, Events
  <2>2. Head(loop).kind # "get_sys_status"
    BY DEF Quantity
  <2>3. QED BY <2>1, <2>2, TailIsSeq, InOneGoTail, SubscribingNext DEF VInv
<1>1. loop' = Tail(loop) \/ \E v : loop' = Append(Tail(loop), News(p, v))
  OBVIOUS
<1>2. InOneGo(loop') /\ ~Subscribing(loop')
  <2>1. \A v : News(p, v).kind # "subscribe"
    BY DEF News
  <2>2. QED BY <1>0, <1>1, <2>1, InOneGoAppend, SubscribingNext
<1>3. \A d \in Client : Watching(d)' => Watching(d)
  BY <1>2 DEF Watching, Subscribing
<1>4. OneWriter' /\ Sorted' /\ ToldTyped'
  BY DEF VInv, OneWriter, Sorted, ToldTyped
<1>5. ASSUME NEW q \in Quantity PROVE Follows(q)'
  <2>1. Shows(q)' \subseteq Shows(q) /\ Queue(q)' = Queue(q) /\ ShownEnv' = ShownEnv
    BY <1>3, ShowsLess DEF Queue, ShownEnv
  <2>2. Unpublished(q) => Unpublished(q)'
    BY DEF Unpublished
  <2>3. \A x : ~Counts("news", x, m)
    BY DEF Counts, Quantity
  <2>4. q # p => ~Counts("update", q, m)
    BY DEF Counts
  <2>5. ~Counts("update", "status", m)
    BY DEF Counts
  <2>6. ASSUME InStep(q, loop, Queue(q), ShownEnv[q], Shows(q))
        PROVE  InStep(q, loop', Queue(q)', ShownEnv'[q], Shows(q)')
    <3>1. CASE loop' = Tail(loop) /\ ~Counts("update", q, m)
      BY <1>0, <2>1, <2>3, <2>6, <3>1, InStepTail
    <3>2. ASSUME NEW v, loop' = Append(Tail(loop), News(p, v)), v = Shown(p, m.new),
                 Counts("update", p, m)
          PROVE  InStep(q, loop', Queue(q)', ShownEnv'[q], Shows(q)')
      <4> DEFINE n == News(p, v)
      <4>1. /\ ~Counts("update", q, n) /\ Counts("news", p, n)
            /\ q # p => ~Counts("news", q, n)
            /\ Says("news", p, n) = Says("update", p, m)
        BY <3>2 DEF Counts, Says, News, Quantity
      <4> HIDE DEF n, m
      <4>2. CASE q = p
        <5>1. InStep(q, Append(Tail(loop), n), Queue(q), ShownEnv[q], Shows(q)')
          BY <1>0, <2>3, <2>6, <3>2, <4>1, <4>2, InStepUpdate DEF m
        <5>2. QED BY <2>1, <3>2, <5>1 DEF n
      <4>3. CASE q # p
        <5>1. InStep(q, Tail(loop), Queue(q), ShownEnv[q], Shows(q))
          BY <1>0, <2>3, <2>4, <2>6, <4>3, InStepTail DEF m
        <5>2. InStep(q, Append(Tail(loop), n), Queue(q), ShownEnv[q], Shows(q)')
          BY <1>0, <2>1, <4>1, <4>3, <5>1, InStepAppend
        <5>3. QED BY <2>1, <3>2, <5>2 DEF n
      <4>4. QED BY <4>2, <4>3
    <3>3. QED BY <2>4, <2>5, <3>1, <3>2
  <2>7. QED BY <2>2, <2>6, FollowsNext DEF VInv
<1>6. QED BY <1>2, <1>4, <1>5 DEF VInv

\* The mains' and the temperature's updates.
LEMMA HandleUpdateView ==
  ASSUME Typed, VInv, NEW busy, UNCHANGED todo,
         HandleVoltageUpdate(busy) \/ HandleAmbientUpdate(busy) \/ HandleStateUpdate(busy)
  PROVE  VInv'
<1> DEFINE m == Head(loop)
<1>0. /\ loop # <<>> /\ UNCHANGED <<env, stream, subscribers, told, reloaded>>
      /\ m.kind \in Quantity
  BY DEF HandleVoltageUpdate, HandleAmbientUpdate, HandleStateUpdate, Dispatch, Quantity
<1>1. IsSeq(Tail(loop))
  BY <1>0, TailIsSeq DEF Typed, LoopTyped, Events
<1>2. CASE HandleStateUpdate(busy)
  <2>1. m.kind = "status" /\ loop' = Tail(loop)
    BY <1>2 DEF HandleStateUpdate, Dispatch
  <2>2. QED BY <1>0, <2>1, UpdateView
<1>3. CASE HandleAmbientUpdate(busy)
  <2>1. /\ m.kind = "ambient"
        /\ m.old = m.new => loop' = Tail(loop) \o <<>>
        /\ m.old # m.new => loop' = Tail(loop) \o <<News("ambient", m.new)>>
    BY <1>3 DEF HandleAmbientUpdate, Dispatch
  <2>2. Counts("update", "ambient", m) <=> m.old # m.new
    BY <2>1 DEF Counts, Shown
  <2>3. Shown("ambient", m.new) = m.new
    BY DEF Shown
  <2> HIDE DEF m
  <2>4. CASE m.old = m.new
    <3>1. loop' = Tail(loop)
      BY <1>1, <2>1, <2>4, PushIsAppend
    <3>2. QED BY <1>0, <2>1, <2>2, <2>4, <3>1, UpdateView DEF m
  <2>5. CASE m.old # m.new
    <3>1. loop' = Append(Tail(loop), News("ambient", m.new))
      BY <1>1, <2>1, <2>5, PushIsAppend
    <3>2. QED BY <1>0, <2>1, <2>2, <2>3, <2>5, <3>1, UpdateView DEF m
  <2>6. QED BY <2>4, <2>5
<1>4. CASE HandleVoltageUpdate(busy)
  <2> DEFINE v == IF m.old = 0 THEN 1 ELSE 0
  <2>1. /\ m.kind = "voltage"
        /\ m.old = m.new => loop' = Tail(loop)
        /\ m.old # m.new => loop' = Tail(loop) \o MainsNews(m.old, m.new)
    BY <1>4 DEF HandleVoltageUpdate, Dispatch
  <2>2. Counts("update", "voltage", m) <=> m.old # m.new /\ (m.old = 0 \/ m.new = 0)
    BY <2>1 DEF Counts, Shown
  <2>3. m.old # m.new /\ (m.old = 0 \/ m.new = 0) =>
          MainsNews(m.old, m.new) = <<News("voltage", v)>> /\ v = Shown("voltage", m.new)
    BY DEF MainsNews, Shown
  <2>4. ~(m.old = 0 \/ m.new = 0) => MainsNews(m.old, m.new) = <<>>
    BY DEF MainsNews
  <2> HIDE DEF m, v
  <2>5. CASE m.old # m.new /\ (m.old = 0 \/ m.new = 0)
    <3>1. loop' = Append(Tail(loop), News("voltage", v))
      BY <1>1, <2>1, <2>3, <2>5, PushIsAppend
    <3>2. QED BY <1>0, <2>1, <2>2, <2>3, <2>5, <3>1, UpdateView DEF m
  <2>6. CASE ~(m.old # m.new /\ (m.old = 0 \/ m.new = 0))
    <3>1. loop' = Tail(loop)
      BY <1>1, <2>1, <2>4, <2>6, PushIsAppend
    <3>2. QED BY <1>0, <2>1, <2>2, <2>6, <3>1, UpdateView DEF m
  <2>7. QED BY <2>5, <2>6
<1>5. QED BY <1>2, <1>3, <1>4

\* The loop's other steps: an iteration is launched, one is queued, trackers hear of
\* its end, a client comes or goes.
LEMMA SilentView ==
  ASSUME Typed, VInv, NEW busy, UNCHANGED todo,
         \/ GiveUp \/ Launch \/ HandleOidUpdate(busy) \/ HandleLoadBranchDone(busy)
         \/ HandleSubscribeRequest(busy) \/ HandleDisconnect(busy)
  PROVE  VInv'
<1>1. CASE GiveUp
  <2>1. UNCHANGED <<todo, env, stream, loop, subscribers, told, reloaded>>
    BY <1>1 DEF GiveUp
  <2>2. OneWriter' /\ Sorted' /\ InOneGo(loop)' /\ ToldTyped'
    BY <2>1 DEF VInv, OneWriter, Sorted, InOneGo, ToldTyped
  <2>3. ASSUME NEW q \in Quantity PROVE Follows(q)'
    <3>1. Unpublished(q)' = Unpublished(q) /\ Queue(q)' = Queue(q) /\ Shows(q)' = Shows(q)
      BY <2>1 DEF Unpublished, Queue, Shows, Watching
    <3>2. ShownEnv' = ShownEnv
      BY <2>1 DEF ShownEnv
    <3>3. QED BY <2>1, <3>1, <3>2, FollowsNext DEF VInv
  <2>4. QED BY <2>2, <2>3 DEF VInv
<1>2. CASE Launch
  <2>1. Silent(Plain("iteration")) /\ Plain("iteration").kind # "subscribe"
    BY DEF Silent, Plain, Quantity
  <2>2. QED BY <1>2, <2>1, SilentComes DEF Launch
<1>3. ASSUME \/ HandleOidUpdate(busy) \/ HandleLoadBranchDone(busy)
             \/ HandleSubscribeRequest(busy) \/ HandleDisconnect(busy)
      PROVE  VInv'
  <2>1. /\ loop # <<>> /\ Head(loop).kind \in {"oid", "done", "subscribe", "disconnect"}
        /\ loop' = Tail(loop) /\ UNCHANGED <<todo, env, stream, told, reloaded>>
    BY <1>3 DEF HandleOidUpdate, HandleLoadBranchDone, HandleSubscribeRequest,
       HandleDisconnect, Dispatch
  <2>2. Silent(Head(loop)) /\ Head(loop).kind # "get_sys_status"
    BY <2>1 DEF Silent, Quantity
  <2>3. ASSUME NEW d \in Client, d \in subscribers' PROVE Watching(d)
    BY <1>3, <2>3 DEF HandleOidUpdate, HandleLoadBranchDone, HandleSubscribeRequest,
       HandleDisconnect, Dispatch, Watching
  <2>4. OneWriter' /\ \A q : Unpublished(q) => Unpublished(q)'
    BY <2>1 DEF VInv, OneWriter, Unpublished
  <2>5. QED BY <2>1, <2>2, <2>3, <2>4, SilentGoes
<1>4. QED BY <1>1, <1>2, <1>3

\* A client is told what redis has.
LEMMA StatusRequestView ==
  ASSUME Typed, VInv, NEW busy, UNCHANGED todo, HandleStatusRequest(busy)
  PROVE  VInv'
<1> DEFINE m == Head(loop)
           c == m.client
<1>1. /\ loop # <<>> /\ m.kind = "get_sys_status" /\ loop' = Tail(loop)
      /\ told' = [told EXCEPT ![c] = ShownEnv]
      /\ UNCHANGED <<env, stream, subscribers, reloaded>>
  BY DEF HandleStatusRequest, Dispatch
<1>2. IsSeq(loop) /\ c \in Client
  BY <1>1, EventsTail DEF Typed, LoopTyped, Events, EventOK
<1>3. OneWriter' /\ Sorted'
  BY <1>1 DEF VInv, OneWriter, Sorted
<1>4. /\ told'[c] = ShownEnv /\ \A d \in Client \ {c} : told'[d] = told[d]
      /\ DOMAIN told' = Client
  BY <1>1, <1>2 DEF VInv, ToldTyped
<1>5. ToldTyped'
  <2>1. DOMAIN ShownEnv = Quantity
    BY DEF ShownEnv
  <2>2. \A d \in Client : DOMAIN told'[d] = Quantity
    BY <1>4, <2>1 DEF VInv, ToldTyped
  <2>3. QED BY <1>4, <2>2 DEF ToldTyped
<1>6. /\ InOneGo(loop')
      /\ loop' # <<>> /\ Head(loop').kind = "subscribe" => Head(loop').client = c
  BY <1>1, <1>2, InOneGoTail DEF VInv
<1> HIDE DEF c
<1>7. \A d \in Client \ {c} : Watching(d)' => Watching(d)
  BY <1>1, <1>6 DEF Watching
<1>8. ASSUME NEW q \in Quantity PROVE Follows(q)'
  <2>1. ~Counts("update", q, m) /\ ~Counts("news", q, m)
    BY <1>1 DEF Counts, Quantity
  <2>2. ShownEnv' = ShownEnv /\ Queue(q)' = Queue(q) /\ (Unpublished(q) => Unpublished(q)')
    BY <1>1 DEF ShownEnv, Queue, Unpublished
  <2>3. Shows(q)' \subseteq Shows(q) \cup {ShownEnv[q]}
    <3>1. ASSUME NEW d \in Client, Watching(d)'
          PROVE  told'[d][q] \in Shows(q) \cup {ShownEnv[q]}
      <4>1. CASE d = c
        BY <1>4, <4>1
      <4>2. CASE d # c
        BY <1>4, <1>7, <3>1, <4>2 DEF Shows
      <4>3. QED BY <4>1, <4>2
    <3>2. QED BY <3>1 DEF Shows
  <2> HIDE DEF m
  <2>4. InStep(q, loop, Queue(q), ShownEnv[q], Shows(q)) =>
          InStep(q, loop', Queue(q)', ShownEnv'[q], Shows(q)')
    BY <1>1, <1>2, <2>1, <2>2, <2>3, InStepTail DEF m
  <2>5. QED BY <1>1, <2>2, <2>4, FollowsNext DEF VInv
<1>9. QED BY <1>3, <1>5, <1>6, <1>8 DEF VInv

\* The news reach the subscribers.
LEMMA NotifyView ==
  ASSUME Typed, VInv, NEW busy, UNCHANGED todo, NotifyClients(busy)
  PROVE  VInv'
<1> DEFINE m == Head(loop)
<1>1. /\ loop # <<>> /\ m.kind = "news" /\ loop' = Tail(loop)
      /\ told' = [c \in Client |->
                    IF c \in subscribers THEN [told[c] EXCEPT ![m.about] = m.value] ELSE told[c]]
      /\ UNCHANGED <<env, stream, subscribers, reloaded>>
  BY DEF NotifyClients, Dispatch
<1>2. IsSeq(loop)
  BY DEF Typed, LoopTyped, Events
<1>3. OneWriter' /\ Sorted'
  BY <1>1 DEF VInv, OneWriter, Sorted
<1>4. ToldTyped'
  BY <1>1 DEF VInv, ToldTyped
<1>5. InOneGo(loop') /\ ~Subscribing(loop')
  BY <1>1, <1>2, InOneGoTail, SubscribingNext DEF VInv
<1>6. \A d \in Client : Watching(d)' => d \in subscribers
  BY <1>1, <1>5 DEF Watching, Subscribing
<1>7. ASSUME NEW q \in Quantity PROVE Follows(q)'
  <2>1. \A x \in Quantity : ~Counts("update", x, m)
    BY <1>1 DEF Counts, Quantity
  <2>2. ShownEnv' = ShownEnv /\ Queue(q)' = Queue(q) /\ (Unpublished(q) => Unpublished(q)')
    BY <1>1 DEF ShownEnv, Queue, Unpublished
  <2>3. \A d \in Client :
          d \in subscribers => told'[d][q] = IF q = m.about THEN m.value ELSE told[d][q]
    BY <1>1 DEF VInv, ToldTyped
  <2>4. CASE q = m.about
    <3>1. Counts("news", q, m) /\ Says("news", q, m) = m.value
      BY <1>1, <2>4 DEF Counts, Says
    <3>2. Shows(q)' \subseteq {m.value}
      BY <1>6, <2>3, <2>4 DEF Shows
    <3> HIDE DEF m
    <3>3. InStep(q, loop, Queue(q), ShownEnv[q], Shows(q)) =>
            InStep(q, loop', Queue(q)', ShownEnv'[q], Shows(q)')
      BY <1>1, <1>2, <2>1, <2>2, <3>1, <3>2, InStepNews DEF m
    <3>4. QED BY <1>1, <2>2, <3>3, FollowsNext DEF VInv
  <2>5. CASE q # m.about
    <3>1. ~Counts("news", q, m)
      BY <2>5 DEF Counts
    <3>2. Shows(q)' \subseteq Shows(q)
      BY <1>6, <2>3, <2>5 DEF Shows, Watching
    <3> HIDE DEF m
    <3>3. InStep(q, loop, Queue(q), ShownEnv[q], Shows(q)) =>
            InStep(q, loop', Queue(q)', ShownEnv'[q], Shows(q)')
      BY <1>1, <1>2, <2>1, <2>2, <3>1, <3>2, InStepTail DEF m
    <3>4. QED BY <1>1, <2>2, <3>3, FollowsNext DEF VInv
  <2>6. QED BY <2>4, <2>5
<1>8. QED BY <1>3, <1>4, <1>5, <1>7 DEF VInv

\* An iteration ends: redis has the status it was about, and clients will hear of it.
LEMMA IterationView ==
  ASSUME Typed, Launched, VInv, NEW busy, UNCHANGED todo, HandleIteration(busy)
  PROVE  VInv'
<1> DEFINE it == Head(iterations)
           done == Plain("done")
           t == Tail(loop)
<1>1. /\ loop # <<>> /\ Head(loop).kind = "iteration"
      /\ UNCHANGED <<stream, subscribers, told, reloaded>>
      /\ it.kind = "news" => env' = [env EXCEPT !["status"] = it.value]
                             /\ loop' = (t \o <<it>>) \o <<done>>
      /\ it.kind # "news" => env' = env /\ loop' = (t \o <<>>) \o <<done>>
  BY DEF HandleIteration, Dispatch
<1>2. IsSeq(loop) /\ IsSeq(t)
  BY <1>1, TailIsSeq DEF Typed, LoopTyped, Events
<1>3. it.kind = "news" => it.about = "status"
  <2>1. running
    BY <1>1, <1>2, TailIsSeq DEF Launched, Single
  <2>2. IterationOK(it)
    BY <2>1, IterationsOK DEF Launched, Typed, IterationsTyped
  <2>3. QED BY <2>2 DEF IterationOK
<1>4. Silent(done) /\ done.kind # "subscribe"
  BY DEF Silent, Plain, Quantity
<1>5. InOneGo(t) /\ ~Subscribing(t)
  BY <1>1, <1>2, InOneGoTail, SubscribingNext DEF VInv
<1> DEFINE u == IF it.kind = "news" THEN Append(t, it) ELSE t
<1>6. IsSeq(u) /\ InOneGo(u) /\ ~Subscribing(u)
  BY <1>2, <1>5, AppendIsSeq, InOneGoAppend, SubscribingNext
<1>7. loop' = Append(u, done)
  <2>1. t \o <<>> = t /\ t \o <<it>> = Append(t, it)
    BY <1>2, PushIsAppend
  <2> HIDE DEF t, it, done
  <2>2. u \o <<done>> = Append(u, done)
    BY <1>6, PushIsAppend
  <2>3. QED BY <1>1, <2>1, <2>2
<1> HIDE DEF done, u
<1>8. InOneGo(loop)' /\ ~Subscribing(loop')
  BY <1>4, <1>6, <1>7, InOneGoAppend, SubscribingNext
<1>9. \A d \in Client : Watching(d)' => Watching(d)
  BY <1>1, <1>8 DEF Watching, Subscribing
<1>10. \A q \in Quantity : q # "status" \/ it.kind # "news" => env'[q] = env[q]
  BY <1>1 DEF Typed, EnvTyped
<1>11. OneWriter'
  <2>1. ASSUME NEW b \in Actor PROVE Ready(todo[b], env')
    <3>1. todo[b] # <<>> => OpOK(Head(todo[b]))
      BY ProgramNext DEF VInv
    <3>2. Ready(todo[b], env)
      BY DEF VInv, OneWriter
    <3>3. QED BY <1>10, <3>1, <3>2 DEF Ready, AboutToWrite, AboutToPublish, OpOK
  <2>2. QED BY <2>1 DEF VInv, OneWriter
<1>12. Sorted' /\ ToldTyped'
  BY <1>1 DEF VInv, Sorted, ToldTyped
<1>13. ASSUME NEW q \in Quantity PROVE Follows(q)'
  <2>1. /\ ~Counts("update", q, Head(loop)) /\ ~Counts("news", q, Head(loop))
        /\ ~Counts("update", q, done) /\ ~Counts("news", q, done)
    BY <1>1, <1>4, SilentEvents DEF Silent, Quantity
  <2>2. Shows(q)' \subseteq Shows(q) /\ Queue(q)' = Queue(q) /\ (Unpublished(q) => Unpublished(q)')
    BY <1>1, <1>9, ShowsLess DEF Queue, Unpublished
  <2>3. CASE it.kind = "news" /\ q = "status"
    <3>1. Counts("news", "status", it) /\ Says("news", "status", it) = it.value
      BY <1>3, <2>3 DEF Counts, Says
    <3>2. ShownEnv'["status"] = it.value
      BY <1>1, <2>3 DEF ShownEnv, Shown, Quantity, Typed, EnvTyped
    <3>3. u = Append(t, it)
      BY <2>3 DEF u
    <3> HIDE DEF it, t
    <3>4. InStep("status", u, Queue(q), ShownEnv'["status"], Shows(q))
      BY <1>2, <3>1, <3>2, <3>3, InStepPress
    <3>5. InStep("status", Append(u, done), Queue(q), ShownEnv'["status"], Shows(q)')
      BY <1>6, <2>1, <2>2, <2>3, <3>4, InStepAppend
    <3>6. QED BY <1>7, <2>2, <2>3, <3>5 DEF Follows
  <2>4. CASE ~(it.kind = "news" /\ q = "status")
    <3>1. ShownEnv'[q] = ShownEnv[q]
      BY <1>10, <2>4 DEF ShownEnv
    <3>2. it.kind = "news" => ~Counts("update", q, it) /\ ~Counts("news", q, it)
      BY <1>3, <2>4 DEF Counts, Quantity
    <3>3. ASSUME InStep(q, loop, Queue(q), ShownEnv[q], Shows(q))
          PROVE  InStep(q, loop', Queue(q)', ShownEnv'[q], Shows(q)')
      <4> HIDE DEF it
      <4>1. InStep(q, t, Queue(q), ShownEnv[q], Shows(q))
        BY <1>1, <1>2, <2>1, <3>3, InStepTail
      <4>2. InStep(q, u, Queue(q), ShownEnv[q], Shows(q))
        BY <1>2, <3>2, <4>1, InStepAppend DEF u
      <4>3. InStep(q, Append(u, done), Queue(q), ShownEnv[q], Shows(q)')
        BY <1>6, <2>1, <2>2, <4>2, InStepAppend
      <4>4. QED BY <1>7, <2>2, <3>1, <4>3
    <3>4. QED BY <1>1, <2>2, <3>3, FollowsNext DEF VInv
  <2>5. QED BY <2>3, <2>4
<1>14. QED BY <1>8, <1>11, <1>12, <1>13 DEF VInv

\* VInv is an invariant.
LEMMA VInvIsInvariant ==
  ASSUME Patient
  PROVE  /\ Init => VInv
         /\ Typed /\ Launched /\ VInv /\ [Next]_vars => VInv'
<1>1. ASSUME Init PROVE VInv
  <2>1. /\ todo = [a \in Actor |-> <<>>] /\ loop = <<>> /\ stream = [s \in Stream |-> <<>>]
        /\ told = [c \in Client |-> ShownEnv] /\ subscribers = {}
    BY <1>1 DEF Init, FlowInit
  <2>2. Len(<<>>) = 0 /\ IsSeq(<<>>) /\ \A i : i \notin 1 .. 0 /\ i \notin 2 .. 0
    BY EmptyIsSeq
  <2>3. OneWriter
    <3>1. NoWrites(<<>>)
      BY <2>2 DEF NoWrites
    <3>2. QED BY <2>1, <2>2, <3>1, NotWriting DEF OneWriter
  <2>4. Sorted /\ InOneGo(loop)
    BY <2>1, <2>2 DEF Sorted, InOneGo
  <2>5. ToldTyped
    BY <2>1 DEF ToldTyped, ShownEnv
  <2>6. ASSUME NEW q \in Quantity PROVE Follows(q)
    <3>1. Shows(q) = {}
      BY <2>1 DEF Shows, Watching
    <3>2. Queue(q) = <<>>
      BY <2>1 DEF Queue, StreamOf, Stream, Quantity
    <3>3. QED BY <2>1, <2>2, <3>1, <3>2 DEF Follows, InStep, Ends
  <2>7. QED BY <2>3, <2>4, <2>5, <2>6 DEF VInv
<1>2. ASSUME Typed, Launched, VInv, Flow PROVE VInv'
  <2>1. FlowNext(Busy) /\ UNCHANGED todo
    BY <1>2 DEF Flow, daemon
  <2>2. QED BY <1>2, <2>1, ListenView, SilentView, HandleUpdateView, StatusRequestView, NotifyView,
               IterationView DEF FlowNext
<1>3. ASSUME Typed, VInv, NEW a \in Actor, Step(a) PROVE VInv'
  BY <1>3, CallView, OtherView, WriteView, PublishView, InitializeView DEF Step
<1>4. ASSUME Typed, Launched, VInv, Next PROVE VInv'
  BY <1>2, <1>3, <1>4, RequestsView, ServeView DEF Next, Requests
<1>5. ASSUME VInv, UNCHANGED vars PROVE VInv'
  <2>1. UNCHANGED flow /\ UNCHANGED todo
    BY <1>5 DEF vars, daemon
  <2>2. OneWriter' /\ Sorted' /\ InOneGo(loop)' /\ ToldTyped'
    BY <1>5, <2>1 DEF VInv, flow, OneWriter, Sorted, InOneGo, ToldTyped
  <2>3. \A q : Unpublished(q) => Unpublished(q)'
    BY <2>1 DEF Unpublished
  <2>4. QED BY <1>5, <2>1, <2>2, <2>3, FollowsSame DEF VInv
<1>6. QED BY <1>1, <1>4, <1>5

\* Nothing is under way: what the clients show is what redis has.
LEMMA ViewAtRest ==
  ASSUME Typed, VInv, AtRest
  PROVE  \A c \in subscribers \cap Client, q \in Quantity :
           (reloaded /\ q = "status") \/ told[c][q] = ShownEnv[q]
<1> SUFFICES ASSUME NEW c \in subscribers \cap Client, NEW q \in Quantity,
                    ~(reloaded /\ q = "status")
             PROVE  told[c][q] = ShownEnv[q]
  OBVIOUS
<1>1. loop = <<>> /\ Queue(q) = <<>>
  BY DEF AtRest, Delivered, Queue, StreamOf, Stream, Quantity
<1>2. ~Unpublished(q)
  BY DEF AtRest, Unpublished, Withheld
<1>3. InStep(q, <<>>, <<>>, ShownEnv[q], Shows(q))
  BY <1>1, <1>2 DEF VInv, Follows
<1>4. \A mode : Hush(mode, q, <<>>)
  <2>1. Len(<<>>) = 0 /\ \A i : i \notin 1 .. 0
    OBVIOUS
  <2>2. QED BY <2>1 DEF Hush
<1>5. Shows(q) \subseteq {ShownEnv[q]}
  BY <1>3, <1>4 DEF InStep
<1>6. told[c][q] \in Shows(q)
  BY DEF Shows, Watching
<1>7. QED BY <1>5, <1>6

\* Whatever clients ask and whoever changes the environment, when nothing is under
\* way every subscriber shows what redis has (but for the status after a reload, which
\* tells nobody), as long as two writers are never between reading a value and
\* publishing it: no update is lost or overtaken between its writer, the channels,
\* the handlers and the trackers.
THEOREM ClientsSeeRedis == Patient => (Spec => []ViewIsCurrent)
<1> SUFFICES ASSUME Patient PROVE Spec => []ViewIsCurrent
  OBVIOUS
<1>1. Init => Typed /\ Launched /\ VInv
  BY TypedIsInvariant, VInvIsInvariant
<1>2. Typed /\ Launched /\ VInv /\ [Next]_vars => (Typed /\ Launched /\ VInv)'
  BY TypedIsInvariant, VInvIsInvariant
<1>3. Typed /\ Launched /\ VInv /\ TypeOK => ViewIsCurrent
  <2>1. TypeOK => subscribers \subseteq Client
    BY DEF TypeOK, FlowTypeOK
  <2>2. QED BY <2>1, ViewAtRest DEF ViewIsCurrent
<1>4. Spec => []TypeOK
  BY TypeCorrect
<1>5. QED BY <1>1, <1>2, <1>3, <1>4, PTL DEF Spec
===============================================================================
