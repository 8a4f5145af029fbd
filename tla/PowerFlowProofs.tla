---------------------------- MODULE PowerFlowProofs ----------------------------
(***************************************************************************)
(* Proofs about PowerFlow, for every rack.                                 *)
(*                                                                         *)
(*   TypeCorrect: voltages and loads are whole amounts, stored or on their *)
(*   way.  The invariant TInv also types the queues.                       *)
(*                                                                         *)
(*   SupplyIsFollowed: in a steady system, the state follows the supply    *)
(*   whenever the engine is at rest.  The property says nothing of the     *)
(*   states in which the engine works; the invariant SInv says for each    *)
(*   part of it what an event on its way still has to repair.  It is shown *)
(*   with two facts about the graph: an asset with one parent has what     *)
(*   that parent puts out unless an event is on its way (FollowParents),   *)
(*   and no such event is below another (Wave), so that an event never     *)
(*   finds what it was told out of date.                                   *)
(*                                                                         *)
(*   LoadIsCarried: in a lossless one, outlets and PDUs then carry what    *)
(*   they power.  The invariant LInv follows the load events on their way: *)
(*   handled one after the other they take the load of each outlet and PDU *)
(*   to what it is due (OnCourse), never below its own, so that the cut at *)
(*   0 hides nothing.  A lamp is ahead of what it has reported from the    *)
(*   moment a client switches it (Lamps).                                  *)
(*                                                                         *)
(* Sums over sets of PSUs are folds; what they add up to is shown from the *)
(* library's well-founded order of subsets.                                *)
(***************************************************************************)
EXTENDS PowerFlow, FiniteSetTheorems, WellFoundedInduction, TLAPS

\* What holds of a set of subsets of S whenever it holds of their proper subsets
\* holds of all.
LEMMA SetInduction ==
  ASSUME NEW S, IsFiniteSet(S), NEW P,
         \A T \in SUBSET S : (\A U \in SUBSET T : U # T => U \in P) => T \in P
  PROVE  SUBSET S \subseteq P
<1> DEFINE Bad == (SUBSET S) \ P
           R == StrictSubsetOrdering(S)
<1>1. IsWellFoundedOn(R, SUBSET S)
  BY FS_StrictSubsetOrderingWellFounded, FS_FiniteSubsetsOfFinite
<1>2. \A U, T \in SUBSET S : U \subseteq T /\ U # T => <<U, T>> \in R
  BY DEF StrictSubsetOrdering
<1>3. ASSUME Bad # {} PROVE FALSE
  <2>1. Bad \subseteq SUBSET S
    OBVIOUS
  <2> HIDE DEF R, Bad
  <2>2. PICK T \in Bad : \A U \in Bad : <<U, T>> \notin R
    <3>1. \E T \in Bad : \A U \in Bad : ~ (<<U, T>> \in R)
      BY <1>1, <1>3, <2>1, WFMin
    <3>2. QED BY <3>1
  <2>3. ASSUME NEW U \in SUBSET T, U # T PROVE U \in P
    <3>1. U \in SUBSET S /\ T \in SUBSET S
      BY <2>1
    <3>2. <<U, T>> \in R
      BY <1>2, <2>3, <3>1
    <3>3. QED BY <2>2, <3>1, <3>2 DEF Bad
  <2>4. QED BY <2>1, <2>3 DEF Bad
<1>4. QED BY <1>3

\* The least of some natural numbers.
LEMMA LeastOf ==
  ASSUME NEW S \in SUBSET Nat, S # {}
  PROVE  \E x \in S : \A y \in S : x <= y
<1> DEFINE R == {ss \in Nat \X Nat : ss[1] < ss[2]}
<1>1. IsWellFoundedOn(R, Nat)
  BY NatLessThanWellFounded, Zenon DEF OpToRel
<1>2. \A x, y \in Nat : y < x => <<y, x>> \in R
  OBVIOUS
<1> HIDE DEF R
<1>3. \E x \in S : \A y \in S : ~ (<<y, x>> \in R)
  BY <1>1, WFMin
<1>4. PICK x \in S : \A y \in S : ~ (<<y, x>> \in R)
  BY <1>3
<1>5. ASSUME NEW y \in S PROVE x <= y
  <2>1. x \in Nat /\ y \in Nat /\ ~(y < x)
    BY <1>2, <1>4
  <2>2. QED BY <2>1
<1>6. QED BY <1>5

\* Sums are taken an element at a time.
Pick(s) == CHOOSE x \in s : TRUE
IsSum(g, f, T) ==
  g = [s \in SUBSET T |-> IF s = {} THEN 0 ELSE f[Pick(s)] + g[s \ {Pick(s)}]]

\* The library's definition.
LEMMA SumIs ==
  ASSUME NEW f, NEW S
  PROVE  SumFunctionOnSet(f, S) = (CHOOSE g : IsSum(g, f, S))[S]
BY DEF SumFunctionOnSet, FoldFunctionOnSet, MapThenFoldSet, IsSum, Pick

\* Two sums of the same function agree where both are defined.
LEMMA SumUnique ==
  ASSUME NEW f, NEW S, IsFiniteSet(S), NEW T \in SUBSET S, NEW U \in SUBSET S,
         NEW g, NEW h, IsSum(g, f, T), IsSum(h, f, U)
  PROVE  \A s \in SUBSET T : s \in SUBSET U => g[s] = h[s]
<1> DEFINE P == {s \in SUBSET S : s \in SUBSET T /\ s \in SUBSET U => g[s] = h[s]}
<1>1. ASSUME NEW s \in SUBSET S, \A r \in SUBSET s : r # s => r \in P
      PROVE  s \in P
  <2> SUFFICES ASSUME s \in SUBSET T, s \in SUBSET U PROVE g[s] = h[s]
    OBVIOUS
  <2> DEFINE r == s \ {Pick(s)}
  <2>1. g[s] = IF s = {} THEN 0 ELSE f[Pick(s)] + g[r]
    BY DEF IsSum
  <2>2. h[s] = IF s = {} THEN 0 ELSE f[Pick(s)] + h[r]
    BY DEF IsSum
  <2>3. ASSUME s # {} PROVE g[r] = h[r]
    <3>1. Pick(s) \in s
      BY <2>3 DEF Pick
    <3>2. r \in SUBSET s /\ r # s
      BY <3>1
    <3>3. QED BY <1>1, <3>2
  <2>4. QED BY <2>1, <2>2, <2>3
<1> HIDE DEF P
<1>2. SUBSET S \subseteq P
  BY <1>1, SetInduction
<1>3. QED BY <1>2 DEF P

\* Every finite set has one.
LEMMA SumExists ==
  ASSUME NEW f, NEW S, IsFiniteSet(S)
  PROVE  \E g : IsSum(g, f, S)
<1> DEFINE P == {T \in SUBSET S : \E g : IsSum(g, f, T)}
<1>1. ASSUME NEW T \in SUBSET S, \A U \in SUBSET T : U # T => U \in P
      PROVE  T \in P
  <2> DEFINE Of(s) == CHOOSE h : IsSum(h, f, s)
             g == [s \in SUBSET T |->
                     IF s = {} THEN 0 ELSE f[Pick(s)] + Of(s \ {Pick(s)})[s \ {Pick(s)}]]
  <2>1. ASSUME NEW r \in SUBSET T, r # T PROVE IsSum(Of(r), f, r)
    <3>1. \E h : IsSum(h, f, r)
      BY <1>1, <2>1
    <3>2. QED BY <3>1
  <2> HIDE DEF Of
  <2>2. ASSUME NEW r \in SUBSET T, r # T PROVE g[r] = Of(r)[r]
    <3> DEFINE q == r \ {Pick(r)}
    <3>1. Of(r)[r] = IF r = {} THEN 0 ELSE f[Pick(r)] + Of(r)[q]
      BY <2>1, <2>2 DEF IsSum
    <3>2. ASSUME r # {} PROVE Of(r)[q] = Of(q)[q]
      <4>1. q \in SUBSET T /\ q \in SUBSET r /\ q # T
        BY <2>2, <3>2
      <4>2. IsSum(Of(q), f, q) /\ IsSum(Of(r), f, r)
        BY <2>1, <2>2, <4>1
      <4>3. QED BY <4>1, <4>2, SumUnique
    <3>3. g[r] = IF r = {} THEN 0 ELSE f[Pick(r)] + Of(q)[q]
      OBVIOUS
    <3>4. QED BY <3>1, <3>2, <3>3
  <2>3. ASSUME NEW s \in SUBSET T, s # {}
        PROVE  s \ {Pick(s)} \in SUBSET T /\ s \ {Pick(s)} # T
    BY <2>3 DEF Pick
  <2>4. \A s \in SUBSET T : s # {} => g[s \ {Pick(s)}] = Of(s \ {Pick(s)})[s \ {Pick(s)}]
    BY <2>2, <2>3
  <2>5. g = [s \in SUBSET T |-> IF s = {} THEN 0 ELSE f[Pick(s)] + g[s \ {Pick(s)}]]
    BY <2>4
  <2>6. IsSum(g, f, T)
    BY <2>5 DEF IsSum
  <2>7. QED BY <2>6
<1> HIDE DEF P
<1>2. SUBSET S \subseteq P
  BY <1>1, SetInduction
<1>3. QED BY <1>2 DEF P

\* The sum of nothing, and of an element more.
LEMMA SumStep ==
  ASSUME NEW f, NEW S, IsFiniteSet(S)
  PROVE  /\ SumFunctionOnSet(f, {}) = 0
         /\ S # {} => Pick(S) \in S /\ SumFunctionOnSet(f, S) =
                        f[Pick(S)] + SumFunctionOnSet(f, S \ {Pick(S)})
<1> DEFINE Of(s) == CHOOSE h : IsSum(h, f, s)
<1>1. ASSUME NEW T \in SUBSET S PROVE IsSum(Of(T), f, T) /\ SumFunctionOnSet(f, T) = Of(T)[T]
  <2>1. IsFiniteSet(T)
    BY FS_Subset
  <2>2. \E h : IsSum(h, f, T)
    BY <2>1, SumExists
  <2>3. QED BY <2>2, SumIs
<1> HIDE DEF Of
<1>2. SumFunctionOnSet(f, {}) = 0
  <2>1. SumFunctionOnSet(f, {}) = Of({})[{}] /\ IsSum(Of({}), f, {})
    BY <1>1
  <2>2. QED BY <2>1 DEF IsSum
<1>3. ASSUME S # {}
      PROVE  Pick(S) \in S /\ SumFunctionOnSet(f, S) =
               f[Pick(S)] + SumFunctionOnSet(f, S \ {Pick(S)})
  <2> DEFINE T == S \ {Pick(S)}
  <2>1. Pick(S) \in S
    BY <1>3 DEF Pick
  <2>2. Of(S)[S] = f[Pick(S)] + Of(S)[T]
    BY <1>1, <1>3 DEF IsSum
  <2>3. T \in SUBSET S
    OBVIOUS
  <2>4. Of(S)[T] = Of(T)[T]
    BY <1>1, <2>3, SumUnique
  <2> HIDE DEF T
  <2>5. SumFunctionOnSet(f, T) = Of(T)[T] /\ SumFunctionOnSet(f, S) = Of(S)[S]
    BY <1>1, <2>3
  <2>6. QED BY <2>1, <2>2, <2>4, <2>5 DEF T
<1>4. QED BY <1>2, <1>3

\* Natural numbers add up to one.
LEMMA SumIsNat ==
  ASSUME NEW f, NEW S, IsFiniteSet(S), \A x \in S : f[x] \in Nat
  PROVE  SumFunctionOnSet(f, S) \in Nat
<1> DEFINE P == {T \in SUBSET S : SumFunctionOnSet(f, T) \in Nat}
<1>1. ASSUME NEW T \in SUBSET S, \A U \in SUBSET T : U # T => U \in P
      PROVE  T \in P
  <2>1. IsFiniteSet(T)
    BY FS_Subset
  <2>2. CASE T = {}
    <3>1. SumFunctionOnSet(f, {}) = 0
      BY <2>1, SumStep
    <3>2. QED BY <2>2, <3>1
  <2>3. CASE T # {}
    <3>1. /\ Pick(T) \in T
          /\ SumFunctionOnSet(f, T) = f[Pick(T)] + SumFunctionOnSet(f, T \ {Pick(T)})
      BY <2>1, <2>3, SumStep
    <3>2. T \ {Pick(T)} \in P
      BY <1>1, <3>1
    <3>3. QED BY <3>1, <3>2
  <2>4. QED BY <2>2, <2>3
<1> HIDE DEF P
<1>2. SUBSET S \subseteq P
  BY <1>1, SetInduction
<1>3. QED BY <1>2 DEF P

-----------------------------------------------------------------------------
\* Operators.

\* The order of the database lists every asset of a set once.
LEMMA OrderedLists ==
  ASSUME NEW S \in SUBSET Asset
  PROVE  /\ Ordered(S) \in Seq(S) /\ Len(Ordered(S)) \in Nat
         /\ DOMAIN Ordered(S) = 1 .. Len(Ordered(S))
         /\ \A i \in 1 .. Len(Ordered(S)) : Ordered(S)[i] \in S
         /\ \A i, j \in 1 .. Len(Ordered(S)) : Ordered(S)[i] = Ordered(S)[j] => i = j
         /\ \A x \in S : \E i \in 1 .. Len(Ordered(S)) : Ordered(S)[i] = x
<1> DEFINE n == Cardinality(S)
           o == Ordered(S)
<1>1. IsFiniteSet(S)
  BY FS_Subset, FlowAssumption DEF FlowAssumption
<1>2. n \in Nat /\ ExistsBijection(1 .. n, S)
  BY <1>1, FS_CardinalityType
<1>3. \E f \in [1 .. n -> S] : IsInjective(f)
  BY <1>2 DEF ExistsBijection, Bijection, Injection
<1>4. o \in [1 .. n -> S] /\ IsInjective(o)
  BY <1>3 DEF Ordered, SetToSeq
<1>5. o \in Injection(1 .. n, S)
  BY <1>4 DEF Injection
<1>6. IsFiniteSet(1 .. n) /\ Cardinality(1 .. n) = n
  BY <1>2, FS_Interval
<1> HIDE DEF o, n
<1>7. o \in Surjection(1 .. n, S)
  BY <1>1, <1>5, <1>6, FS_Injection DEF n
<1>8. o \in Seq(S) /\ Len(o) = n
  BY <1>2, <1>4
<1>9. \A x \in S : \E i \in 1 .. n : o[i] = x
  BY <1>7 DEF Surjection
<1>10. \A i, j \in 1 .. n : o[i] = o[j] => i = j
  BY <1>4 DEF IsInjective
<1>11. QED BY <1>2, <1>4, <1>8, <1>9, <1>10 DEF o

\* Amperes of whole watts and volts; shares of them.
LEMMA AmpsAreNat ==
  /\ \A w, v \in Nat : Amps(w, v) \in Nat
  /\ \A x, part \in Nat : Share(x, part) \in Nat
  /\ \A x \in Int : NotBelow0(x) \in Nat
  /\ \A x, y \in Nat : Larger(x, y) \in Nat
<1>1. \A x \in Nat, y \in Nat \ {0} : x \div y \in Nat
  OBVIOUS
<1>2. \A w, v \in Nat : Amps(w, v) \in Nat
  BY <1>1 DEF Amps
<1>3. ASSUME NEW x \in Nat, NEW part \in Nat PROVE Share(x, part) \in Nat
  <2>1. x * part \in Nat
    OBVIOUS
  <2>2. QED BY <1>1, <2>1, FlowAssumption DEF FlowAssumption, Share
<1>4. QED BY <1>2, <1>3 DEF NotBelow0, Larger

-----------------------------------------------------------------------------
\* Types.

Binary == [old : {0, 1}, new : {0, 1}]
Event ==
  [kind : {"volt", "load"}, asset : Asset, src : Asset, upd : Update]
    \cup [kind : {"press", "signal"}, asset : Asset, src : Asset, upd : Binary]
Request == [kind : {"wall"}, upd : Update] \cup Event

TInv == TypeOK /\ queue \in Seq(Event) /\ requests \in Seq(Request)

AnswerOK(a, r) ==
  /\ r.out \in Update /\ r.upd \in Update
  /\ r.status \in {0, 1} /\ r.volt \in Nat /\ r.load \in Nat
  /\ r.streams = NoStreams \/ r.streams \in [Parents[a] -> Update]

\* The constants, with their types.
LEMMA Constants ==
  /\ Kind \in [Asset -> {"outlet", "pdu", "static", "psu", "server"}]
  /\ Parents \in [Asset -> SUBSET Asset]
  /\ Consumption \in [Asset -> Nat] /\ MinVoltage \in [Asset -> Nat]
  /\ Draw \in [Asset -> Nat] /\ Whole \in Nat \ {0}
  /\ Volts \subseteq Nat /\ Nominal \in Volts
  /\ OnAc \subseteq Asset /\ Switched \subseteq Asset
  /\ \A a \in Asset : Children(a) \subseteq Asset /\ IsFiniteSet(Parents[a])
  /\ Mains \subseteq Asset /\ Servers \subseteq Asset
<1>1. \A a \in Asset : IsFiniteSet(Parents[a])
  BY FS_Subset, FlowAssumption DEF FlowAssumption
<1>2. QED BY <1>1, FlowAssumption DEF FlowAssumption, Children, Mains, Servers

\* Voltages that are put out.
LEMMA OutVoltIsNat ==
  ASSUME TypeOK, NEW a \in Asset
  PROVE  OutVolt(a) \in Nat /\ (status[a] = 0 => OutVolt(a) = 0) /\ (status[a] = 1 => OutVolt(a) = volt[a])
BY DEF TypeOK, OutVolt

\* A server is fed by one of its PSUs that are on, if there is any.
LEMMA PsuOutVoltageIsNat ==
  ASSUME TypeOK, NEW s \in Asset
  PROVE  \/ PsuOutVoltage(s) = 0 /\ OnlinePsus(s) = {}
         \/ \E p \in OnlinePsus(s) : PsuOutVoltage(s) = OutVolt(p)
<1> DEFINE psu == Ordered(Psus(s))
           on == {i \in DOMAIN psu : status[psu[i]] = 1}
<1>1. Psus(s) \in SUBSET Asset
  BY Constants DEF Psus
<1>2. /\ DOMAIN psu = 1 .. Len(psu) /\ Len(psu) \in Nat
      /\ \A i \in 1 .. Len(psu) : psu[i] \in Psus(s)
      /\ \A x \in Psus(s) : \E i \in 1 .. Len(psu) : psu[i] = x
  BY <1>1, OrderedLists
<1>3. PsuOutVoltage(s) = IF on = {} THEN 0 ELSE OutVolt(psu[Min(on)])
  BY DEF PsuOutVoltage
<1>4. CASE on = {}
  BY <1>2, <1>3, <1>4 DEF OnlinePsus
<1>5. CASE on # {}
  <2>1. PICK x \in on : \A y \in on : x <= y
    <3>1. on \subseteq Nat
      BY <1>2
    <3>2. QED BY <1>5, <3>1, LeastOf
  <2>2. Min(on) \in on
    BY <2>1 DEF Min
  <2>3. psu[Min(on)] \in OnlinePsus(s)
    BY <1>2, <2>2 DEF OnlinePsus
  <2>4. QED BY <1>3, <1>5, <2>3
<1>6. QED BY <1>4, <1>5

\* The records answers are made of.
LEMMA AnswerFields ==
  \A a, out, upd, streams, st, v, l :
    out \in Update /\ upd \in Update /\ st \in {0, 1} /\ v \in Nat /\ l \in Nat
      /\ (streams = NoStreams \/ streams \in [Parents[a] -> Update])
    => AnswerOK(a, Answer(out, upd, streams, st, v, l))
BY DEF Answer, AnswerOK

\* Events carry a pair of values.
LEMMA PairIsUpdate ==
  /\ \A x, y \in Nat : Pair(x, y) \in Update
  /\ \A x, y : Pair(x, y).old = x /\ Pair(x, y).new = y
BY DEF Pair, Update

\* A voltage event is answered.
LEMMA VoltageAnswered ==
  ASSUME TInv, NEW a \in Asset, NEW new \in Nat
  PROVE  AnswerOK(a, OnInputVoltage(a, new))
<1> DEFINE down == new <= MinVoltage[a] /\ status[a] = 1
           up == new > MinVoltage[a] /\ status[a] = 0 /\ a \notin userOff /\ a \in OnAc
           starts == up /\ ParentsAvailable(a)
           st == IF down THEN 0 ELSE IF starts THEN 1 ELSE status[a]
           out == IF down \/ up THEN Pair(OutVolt(a) * status[a], new * st)
                  ELSE Pair(OutVolt(a), new)
           base == IF down THEN LoadOnPowerOff(a)
                   ELSE IF starts THEN LoadOnPowerUp(a) ELSE load[a]
           counted == st = 1 \/ st # status[a]
           upd == IF counted THEN Pair(Amps(Consumption[a], out.old),
                                       Amps(Consumption[a], out.new))
                  ELSE Pair(0, 0)
           l == IF Same(upd) THEN base ELSE NotBelow0(base - upd.old + upd.new)
<1>1. OnInputVoltage(a, new) = Answer(out, upd, NoStreams, st, new, l)
  BY DEF OnInputVoltage
<1>2. status[a] \in {0, 1} /\ volt[a] \in Nat /\ load[a] \in Nat /\ OutVolt(a) \in Nat
  BY OutVoltIsNat DEF TInv, TypeOK
<1>3. st \in {0, 1}
  BY <1>2
<1>4. out \in Update
  <2>1. OutVolt(a) * status[a] \in Nat /\ new * st \in Nat
    <3> HIDE DEF st
    <3>1. QED BY <1>2, <1>3
  <2> HIDE DEF st
  <2>2. QED BY <1>2, <2>1, PairIsUpdate
<1>5. base \in Nat
  <2>1. LoadOnPowerOff(a) \in Nat
    BY <1>2 DEF LoadOnPowerOff
  <2>2. Amps(Consumption[a], volt[a]) \in Nat
    BY <1>2, Constants, AmpsAreNat
  <2>3. LoadOnPowerUp(a) \in Nat
    BY <1>2, <2>2 DEF LoadOnPowerUp, PsuLoadOnPowerUp
  <2>4. QED BY <1>2, <2>1, <2>3
<1> HIDE DEF st, out, base
<1>6. upd \in Update
  <2>1. out.old \in Nat /\ out.new \in Nat
    BY <1>4 DEF Update
  <2>2. Amps(Consumption[a], out.old) \in Nat /\ Amps(Consumption[a], out.new) \in Nat
    BY <2>1, Constants, AmpsAreNat
  <2>3. QED BY <2>2, PairIsUpdate
<1> HIDE DEF upd
<1>7. l \in Nat
  <2>1. base - upd.old + upd.new \in Int
    BY <1>5, <1>6 DEF Update
  <2>2. QED BY <1>5, <2>1, AmpsAreNat
<1> HIDE DEF l
<1>8. QED BY <1>1, <1>3, <1>4, <1>6, <1>7, AnswerFields

\* So are buttons and signals.
LEMMA PressAnswered ==
  ASSUME TInv, NEW a \in Asset, NEW st \in {0, 1}
  PROVE  AnswerOK(a, OnPress(a, st)) /\ AnswerOK(a, OnSignal(a, st))
<1>1. status[a] \in {0, 1} /\ volt[a] \in Nat /\ load[a] \in Nat /\ OutVolt(a) \in Nat
  BY OutVoltIsNat DEF TInv, TypeOK
<1>2. (1 - st) * volt[a] \in Nat /\ st * volt[a] \in Nat
  BY <1>1
<1>3. AnswerOK(a, OnPress(a, st))
  <2> DEFINE out == Pair((1 - st) * volt[a], st * volt[a])
             upd == Pair(Amps(Consumption[a], out.old), Amps(Consumption[a], out.new))
  <2>1. OnPress(a, st) = Answer(out, upd, NoStreams, st, volt[a], load[a])
    BY DEF OnPress
  <2>2. out \in Update /\ out.old \in Nat /\ out.new \in Nat
    BY <1>2, PairIsUpdate DEF Update
  <2> HIDE DEF out
  <2>3. Amps(Consumption[a], out.old) \in Nat /\ Amps(Consumption[a], out.new) \in Nat
    BY <2>2, Constants, AmpsAreNat
  <2>4. upd \in Update
    BY <2>3, PairIsUpdate
  <2> HIDE DEF upd
  <2>5. QED BY <1>1, <2>1, <2>2, <2>4, AnswerFields
<1>4. AnswerOK(a, OnSignal(a, st))
  <2> DEFINE on == IF st = 0 THEN 0 ELSE IF ParentsAvailable(a) THEN 1 ELSE status[a]
  <2>1. OnSignal(a, st) =
          Answer(Pair(OutVolt(a), st * volt[a]), Pair(0, 0), NoStreams, on, volt[a], load[a])
    BY DEF OnSignal
  <2>2. on \in {0, 1}
    BY <1>1
  <2> HIDE DEF on
  <2>3. Pair(OutVolt(a), st * volt[a]) \in Update /\ Pair(0, 0) \in Update
    BY <1>1, <1>2, PairIsUpdate
  <2>4. QED BY <1>1, <2>1, <2>2, <2>3, AnswerFields
<1>5. QED BY <1>3, <1>4

\* The values a server's answers are computed from.
LEMMA ServerValues ==
  ASSUME TInv, NEW s \in Asset
  PROVE  /\ status[s] \in {0, 1} /\ volt[s] \in Nat /\ load[s] \in Nat
         /\ PsuOutVoltage(s) \in Nat
         /\ Psus(s) = Parents[s] /\ Psus(s) \subseteq Asset /\ OnlinePsus(s) \subseteq Psus(s)
         /\ \A p \in Psus(s) : /\ status[p] \in {0, 1} /\ volt[p] \in Nat /\ load[p] \in Nat
                               /\ Draw[p] \in Nat /\ Amps(Consumption[p], volt[p]) \in Nat
         /\ \A w \in Nat : Amps(Consumption[s], w) \in Nat
         /\ \A S \in SUBSET Psus(s) :
              IsFiniteSet(S) /\ SumFunctionOnSet(Draw, S) \in Nat /\ Cardinality(S) \in Nat
                /\ (S # {} => Cardinality(S) # 0)
<1>1. Psus(s) = Parents[s] /\ Psus(s) \subseteq Asset /\ OnlinePsus(s) \subseteq Psus(s)
  BY Constants DEF Psus, OnlinePsus
<1>2. ASSUME NEW S \in SUBSET Psus(s)
      PROVE  IsFiniteSet(S) /\ SumFunctionOnSet(Draw, S) \in Nat /\ Cardinality(S) \in Nat
               /\ (S # {} => Cardinality(S) # 0)
  <2>1. IsFiniteSet(S)
    BY <1>1, Constants, FS_Subset
  <2>2. \A x \in S : Draw[x] \in Nat
    BY <1>1, Constants
  <2>3. QED BY <2>1, <2>2, SumIsNat, FS_CardinalityType, FS_EmptySet
<1>3. PsuOutVoltage(s) \in Nat
  <2>1. \A p \in OnlinePsus(s) : OutVolt(p) \in Nat
    BY <1>1, OutVoltIsNat DEF TInv
  <2>2. QED BY <2>1, PsuOutVoltageIsNat DEF TInv
<1>4. status[s] \in {0, 1} /\ volt[s] \in Nat /\ load[s] \in Nat
  BY DEF TInv, TypeOK
<1>5. ASSUME NEW p \in Psus(s)
      PROVE  /\ status[p] \in {0, 1} /\ volt[p] \in Nat /\ load[p] \in Nat
             /\ Draw[p] \in Nat /\ Amps(Consumption[p], volt[p]) \in Nat
  <2>1. p \in Asset
    BY <1>1
  <2>2. status[p] \in {0, 1} /\ volt[p] \in Nat /\ load[p] \in Nat
    BY <2>1 DEF TInv, TypeOK
  <2>3. QED BY <2>1, <2>2, Constants, AmpsAreNat
<1>6. \A w \in Nat : Amps(Consumption[s], w) \in Nat
  BY Constants, AmpsAreNat
<1>7. QED BY <1>1, <1>2, <1>3, <1>4, <1>5, <1>6

\* A server's button is answered.
LEMMA ServerPressAnswered ==
  ASSUME TInv, NEW s \in Asset
  PROVE  /\ AnswerOK(s, ServerOff(s))
         /\ OnlinePsus(s) # {} => AnswerOK(s, ServerOn(s))
<1> USE ServerValues
<1>1. AnswerOK(s, ServerOff(s))
  <2> DEFINE to(p) == IF status[p] = 1 /\ volt[p] # 0 THEN Amps(Consumption[p], volt[p]) ELSE load[p]
             streams == [p \in Psus(s) |-> Pair(load[p], to(p))]
  <2>1. \A p \in Psus(s) : load[p] \in Nat /\ to(p) \in Nat
    OBVIOUS
  <2>2. ServerOff(s) = Answer(Pair(volt[s], 0), Pair(Amps(Consumption[s], volt[s]), 0),
                              streams, 0, volt[s], load[s])
    BY DEF ServerOff
  <2> HIDE DEF to
  <2>3. streams \in [Parents[s] -> Update]
    BY <2>1, PairIsUpdate
  <2>4. Pair(volt[s], 0) \in Update /\ Pair(Amps(Consumption[s], volt[s]), 0) \in Update
    BY PairIsUpdate
  <2> HIDE DEF streams
  <2>5. QED BY <2>2, <2>3, <2>4, AnswerFields
<1>2. ASSUME OnlinePsus(s) # {} PROVE AnswerOK(s, ServerOn(s))
  <2> DEFINE needed == Amps(Consumption[s], volt[s])
             missing == SumFunctionOnSet(Draw, Psus(s) \ OnlinePsus(s))
             extra == Share(needed, missing) \div Cardinality(OnlinePsus(s))
             to(p) == IF status[p] = 1 THEN load[p] + Share(needed, Draw[p]) + extra ELSE load[p]
             streams == [p \in Psus(s) |-> Pair(load[p], to(p))]
  <2>1. needed \in Nat /\ missing \in Nat /\ Cardinality(OnlinePsus(s)) \in Nat \ {0}
    BY <1>2
  <2>2. ServerOn(s) = Answer(Pair(0, volt[s]), Pair(0, needed), streams, 1, volt[s], load[s])
    BY DEF ServerOn
  <2> HIDE DEF needed, missing
  <2>3. extra \in Nat
    <3>1. Share(needed, missing) \in Nat
      BY <2>1, AmpsAreNat
    <3>2. \A x \in Nat, y \in Nat \ {0} : x \div y \in Nat
      OBVIOUS
    <3>3. QED BY <2>1, <3>1, <3>2
  <2> HIDE DEF extra
  <2>4. ASSUME NEW p \in Psus(s) PROVE load[p] \in Nat /\ to(p) \in Nat
    <3>1. Share(needed, Draw[p]) \in Nat
      BY <2>1, AmpsAreNat
    <3>2. QED BY <2>3, <3>1
  <2> HIDE DEF to
  <2>5. streams \in [Parents[s] -> Update]
    BY <2>4, PairIsUpdate
  <2> HIDE DEF streams
  <2>6. Pair(0, volt[s]) \in Update /\ Pair(0, needed) \in Update
    BY <2>1, PairIsUpdate
  <2>7. QED BY <2>2, <2>5, <2>6, AnswerFields
<1>3. QED BY <1>1, <1>2

\* A server's answers to a rise ...
LEMMA ServerUpAnswered ==
  ASSUME TInv, NEW s \in Asset, NEW src \in Asset, NEW in \in Update
  PROVE  AnswerOK(s, ServerVoltageUp(s, src, in))
<1> DEFINE v == Larger(PsuOutVoltage(s), in.new)
           starting == (status[s] = 0 \/ s \notin vm) /\ in.new # 0
           newLoad == Amps(Consumption[s], in.new)
           oldLoad == Amps(Consumption[s], in.old)
           others == Psus(s) \ {src}
           overdrawn == {p \in others : status[p] = 1 /\ in.old = 0 /\ DrawingExtra(s, p)}
           drawn == Draw[src] + SumFunctionOnSet(Draw, others \ OnlinePsus(s))
           to(p) == IF p = src THEN Pair(Share(oldLoad, drawn), Share(newLoad, drawn))
             ELSE IF p \in overdrawn
                  THEN Pair(load[p], NotBelow0(load[p] - Share(newLoad, Draw[src])))
             ELSE IF status[p] = 1 /\ starting
                  THEN Pair(0, Share(newLoad, Draw[p]))
             ELSE Pair(0, 0)
           streams == [p \in Psus(s) |-> to(p)]
           boots == starting /\ s \in OnAc
           up == boots /\ status[s] = 0 /\ \E p \in Psus(s) : OutVolt(p) > MinVoltage[s]
           settles == ~starting /\ overdrawn = {}
           out == Pair(v * status[s], in.new)
           st == IF up THEN 1 ELSE status[s]
           str == IF status[s] = 0 /\ s \notin OnAc THEN NoStreams ELSE streams
<1>1. ServerVoltageUp(s, src, in) =
        IF boots \/ settles THEN Answer(out, Pair(oldLoad, newLoad), streams, st, v, newLoad)
        ELSE Answer(out, Pair(0, 0), str, status[s], v, load[s])
  BY DEF ServerVoltageUp
<1>2. in.new \in Nat /\ in.old \in Nat
  BY DEF Update
<1>3. v \in Nat /\ newLoad \in Nat /\ oldLoad \in Nat /\ st \in {0, 1}
  BY <1>2, ServerValues, AmpsAreNat
<1>4. drawn \in Nat
  <2>1. Draw[src] \in Nat /\ SumFunctionOnSet(Draw, others \ OnlinePsus(s)) \in Nat
    BY ServerValues, Constants
  <2>2. QED BY <2>1
<1> HIDE DEF boots, settles, starting, overdrawn, st, v, newLoad, oldLoad, drawn
<1>5. streams \in [Parents[s] -> Update]
  <2>1. ASSUME NEW p \in Psus(s) PROVE to(p) \in Update
    <3>1. load[p] \in Nat /\ Draw[p] \in Nat /\ Draw[src] \in Nat
      BY ServerValues, Constants
    <3>2. /\ Share(oldLoad, drawn) \in Nat /\ Share(newLoad, drawn) \in Nat
          /\ Share(newLoad, Draw[p]) \in Nat /\ Share(newLoad, Draw[src]) \in Nat
      BY <1>3, <1>4, <3>1, AmpsAreNat
    <3>3. load[p] - Share(newLoad, Draw[src]) \in Int
      BY <3>1, <3>2
    <3>4. NotBelow0(load[p] - Share(newLoad, Draw[src])) \in Nat
      BY <3>3, AmpsAreNat
    <3>5. QED BY <3>1, <3>2, <3>4, PairIsUpdate
  <2> HIDE DEF to
  <2>2. QED BY <2>1, ServerValues
<1> HIDE DEF streams
<1>6. str = NoStreams \/ str \in [Parents[s] -> Update]
  BY <1>5
<1>7. out \in Update /\ Pair(oldLoad, newLoad) \in Update /\ Pair(0, 0) \in Update
  <2>1. v * status[s] \in Nat
    BY <1>3, ServerValues
  <2>2. QED BY <1>2, <1>3, <2>1, PairIsUpdate
<1> HIDE DEF out, str
<1>8. status[s] \in {0, 1} /\ load[s] \in Nat
  BY ServerValues
<1>9. /\ AnswerOK(s, Answer(out, Pair(oldLoad, newLoad), streams, st, v, newLoad))
      /\ AnswerOK(s, Answer(out, Pair(0, 0), str, status[s], v, load[s]))
  BY <1>3, <1>5, <1>6, <1>7, <1>8, AnswerFields
<1>10. QED BY <1>1, <1>9

\* ... and to a drop of the voltage of a PSU.
LEMMA ServerDownAnswered ==
  ASSUME TInv, NEW s \in Asset, NEW src \in Asset, NEW in \in Update
  PROVE  AnswerOK(s, ServerVoltageDown(s, src, in))
<1> DEFINE v == Larger(PsuOutVoltage(s), in.new)
           own == IF load[src] = Share(load[s], Draw[src]) THEN 0
                  ELSE Amps(Consumption[src], in.old)
           newLoad == Amps(Consumption[s], in.new)
           oldLoad == Amps(Consumption[s], in.old)
           kept == Share(newLoad, Draw[src])
           lost == in.new = 0
           alternative == OnlinePsus(s) \ {src} # {}
           to(p) == IF p = src THEN Pair(load[p], kept)
             ELSE IF status[p] = 1 /\ lost
                  THEN Pair(load[p], NotBelow0(load[p] + load[src] - kept - own))
             ELSE Pair(load[p], load[p])
           streams == [p \in Psus(s) |-> to(p)]
           off == lost /\ ~alternative
           out == Pair(v * status[s], in.new)
           st == IF off THEN 0 ELSE status[s]
<1>1. ServerVoltageDown(s, src, in) =
        IF lost /\ alternative THEN Answer(out, Pair(0, 0), streams, status[s], v, load[s])
        ELSE Answer(out, Pair(oldLoad, newLoad), streams, st, v, newLoad)
  BY DEF ServerVoltageDown
<1>2. in.new \in Nat /\ in.old \in Nat /\ load[src] \in Nat /\ Draw[src] \in Nat
  BY Constants DEF Update, TInv, TypeOK
<1>3. v \in Nat /\ newLoad \in Nat /\ oldLoad \in Nat /\ st \in {0, 1}
  BY <1>2, ServerValues, AmpsAreNat
<1>4. own \in Nat
  BY <1>2, Constants, AmpsAreNat
<1> HIDE DEF lost, alternative, off, st, v, newLoad, oldLoad, own
<1>5. kept \in Nat
  BY <1>2, <1>3, AmpsAreNat
<1> HIDE DEF kept
<1>6. streams \in [Parents[s] -> Update]
  <2>1. ASSUME NEW p \in Psus(s) PROVE to(p) \in Update
    <3>1. load[p] \in Nat
      BY ServerValues
    <3>2. load[p] + load[src] - kept - own \in Int
      BY <1>2, <1>4, <1>5, <3>1
    <3>3. NotBelow0(load[p] + load[src] - kept - own) \in Nat
      BY <3>2, AmpsAreNat
    <3>4. QED BY <1>5, <3>1, <3>3, PairIsUpdate
  <2> HIDE DEF to
  <2>2. QED BY <2>1, ServerValues
<1> HIDE DEF streams
<1>7. out \in Update /\ Pair(oldLoad, newLoad) \in Update /\ Pair(0, 0) \in Update
  <2>1. v * status[s] \in Nat
    BY <1>3, ServerValues
  <2>2. QED BY <1>2, <1>3, <2>1, PairIsUpdate
<1> HIDE DEF out
<1>8. status[s] \in {0, 1} /\ load[s] \in Nat
  BY ServerValues
<1>9. /\ AnswerOK(s, Answer(out, Pair(oldLoad, newLoad), streams, st, v, newLoad))
      /\ AnswerOK(s, Answer(out, Pair(0, 0), streams, status[s], v, load[s]))
  BY <1>3, <1>6, <1>7, <1>8, AnswerFields
<1>10. QED BY <1>1, <1>9

\* The events that follow an answer.
LEMMA FiredTyped ==
  ASSUME TInv, NEW a \in Asset, NEW r, AnswerOK(a, r)
  PROVE  Fired(a, r) \in Seq(Event)
<1>1. ToChildren(a, r.out) \in Seq(Event)
  <2> DEFINE c == Ordered(Children(a))
  <2>1. Len(c) \in Nat /\ \A i \in 1 .. Len(c) : c[i] \in Asset
    BY Constants, OrderedLists
  <2> HIDE DEF c
  <2>2. \A i \in 1 .. Len(c) : VoltEvent(c[i], a, r.out) \in Event
    BY <2>1 DEF VoltEvent, Event, AnswerOK
  <2>3. [i \in 1 .. Len(c) |-> VoltEvent(c[i], a, r.out)] \in Seq(Event)
    BY <2>1, <2>2
  <2>4. QED BY <2>3 DEF ToChildren, c
<1>2. ToParents(a, r.streams, r.upd) \in Seq(Event)
  <2>1. ASSUME NEW S \in SUBSET Asset, NEW u, \A x \in S : u[x] \in Update
        PROVE  [i \in 1 .. Len(Ordered(S)) |-> LoadEvent(Ordered(S)[i], u[Ordered(S)[i]])] \in Seq(Event)
    <3>1. Len(Ordered(S)) \in Nat /\ \A i \in 1 .. Len(Ordered(S)) : Ordered(S)[i] \in S
      BY OrderedLists
    <3>2. \A i \in 1 .. Len(Ordered(S)) : LoadEvent(Ordered(S)[i], u[Ordered(S)[i]]) \in Event
      BY <2>1, <3>1 DEF LoadEvent, Event
    <3>3. QED BY <3>1, <3>2
  <2>2. ASSUME r.streams # NoStreams PROVE ToParents(a, r.streams, r.upd) \in Seq(Event)
    <3> DEFINE S == {q \in DOMAIN r.streams : ~Same(r.streams[q])}
    <3>1. r.streams \in [Parents[a] -> Update]
      BY <2>2 DEF AnswerOK
    <3>2. S \in SUBSET Asset /\ \A x \in S : r.streams[x] \in Update
      BY <3>1, Constants
    <3>3. ToParents(a, r.streams, r.upd) =
            [i \in 1 .. Len(Ordered(S)) |-> LoadEvent(Ordered(S)[i], r.streams[Ordered(S)[i]])]
      BY <2>2 DEF ToParents
    <3> HIDE DEF S
    <3>4. QED BY <2>1, <3>2, <3>3
  <2>3. ASSUME r.streams = NoStreams PROVE ToParents(a, r.streams, r.upd) \in Seq(Event)
    <3> DEFINE p == Ordered(Parents[a])
    <3>1. ToParents(a, r.streams, r.upd) =
            IF Same(r.upd) THEN <<>> ELSE [i \in 1 .. Len(p) |-> LoadEvent(p[i], r.upd)]
      BY <2>3 DEF ToParents
    <3>2. Len(p) \in Nat /\ \A i \in 1 .. Len(p) : p[i] \in Asset
      BY Constants, OrderedLists
    <3> HIDE DEF p
    <3>3. \A i \in 1 .. Len(p) : LoadEvent(p[i], r.upd) \in Event
      BY <3>2 DEF LoadEvent, Event, AnswerOK
    <3>4. QED BY <3>1, <3>2, <3>3
  <2>4. QED BY <2>2, <2>3
<1>3. QED BY <1>1, <1>2 DEF Fired

\* A queue of events holds what TypeOK asks of it.
LEMMA QueueTyped ==
  ASSUME NEW q \in Seq(Event)
  PROVE  /\ \A i \in 1 .. Len(q) : /\ q[i].kind \in {"volt", "load", "press", "signal"}
                                   /\ q[i].asset \in Asset /\ q[i].upd \in Update
         /\ q # <<>> => Head(q) \in Event /\ Tail(q) \in Seq(Event)
<1>1. ASSUME NEW e \in Event
      PROVE  /\ e.kind \in {"volt", "load", "press", "signal"}
             /\ e.asset \in Asset /\ e.src \in Asset /\ e.upd \in Update
  BY DEF Event, Binary, Update
<1>2. \A i \in 1 .. Len(q) : q[i] \in Event
  OBVIOUS
<1>3. QED BY <1>1, <1>2
\* Settling an answer keeps the types.
LEMMA SettleTyped ==
  ASSUME TInv, queue # <<>>, NEW a \in Asset, NEW r, AnswerOK(a, r), Settle(a, r)
  PROVE  /\ status' \in [Asset -> {0, 1}] /\ volt' \in [Asset -> Nat] /\ load' \in [Asset -> Nat]
         /\ queue' \in Seq(Event)
<1>1. status' \in [Asset -> {0, 1}] /\ volt' \in [Asset -> Nat] /\ load' \in [Asset -> Nat]
  BY DEF TInv, TypeOK, AnswerOK, Settle
<1>2. queue' \in Seq(Event)
  <2>1. Tail(queue) \in Seq(Event) /\ Fired(a, r) \in Seq(Event)
    BY QueueTyped, FiredTyped DEF TInv
  <2>2. QED BY <2>1 DEF Settle
<1>3. QED BY <1>1, <1>2

\* The first request is typed, and nothing is queued.
LEMMA TInvInit == Init => TInv
<1> SUFFICES ASSUME Init PROVE TInv
  OBVIOUS
<1>1. Nominal \in Nat /\ Nominal \in Volts
  BY Constants
<1>2. requests \in Seq(Request)
  <2>1. [kind |-> "wall", upd |-> Pair(0, Nominal)] \in Request
    BY <1>1, PairIsUpdate DEF Request
  <2>2. QED BY <2>1 DEF Init
<1>3. queue \in Seq(Event) /\ Len(queue) = 0
  BY DEF Init
<1>4. TypeOK
  <2>1. \A i \in 1 .. Len(queue) : FALSE
    BY <1>3
  <2>2. QED BY <1>1, <2>1 DEF Init, TypeOK
<1>5. QED BY <1>2, <1>3, <1>4 DEF TInv

\* Every step leaves values of the same kinds.
LEMMA TInvNext == TInv /\ [Next]_vars => TInv'
<1> SUFFICES ASSUME TInv, [Next]_vars PROVE TInv'
  OBVIOUS
<1> USE DEF TInv
<1> DEFINE Kept ==
        /\ status' \in [Asset -> {0, 1}] /\ volt' \in [Asset -> Nat] /\ load' \in [Asset -> Nat]
        /\ vm' \subseteq Servers /\ userOff' \subseteq Asset /\ oidOff' \subseteq Switched
        /\ wall' \in Volts /\ dead' \in BOOLEAN
        /\ queue' \in Seq(Event) /\ requests' \in Seq(Request)
<1>0. SUFFICES Kept
  BY QueueTyped DEF TypeOK
<1>1. /\ status \in [Asset -> {0, 1}] /\ volt \in [Asset -> Nat] /\ load \in [Asset -> Nat]
      /\ vm \subseteq Servers /\ userOff \subseteq Asset /\ oidOff \subseteq Switched
      /\ wall \in Volts /\ dead \in BOOLEAN
      /\ queue \in Seq(Event) /\ requests \in Seq(Request)
  BY DEF TypeOK
<1>2. ASSUME queue # <<>>
      PROVE  /\ Head(queue).asset \in Asset /\ Head(queue).src \in Asset /\ Head(queue).upd \in Update
             /\ Head(queue).upd.new \in Nat /\ Head(queue).upd.old \in Nat
             /\ Tail(queue) \in Seq(Event) /\ Head(queue) \in Event
  <2>1. Head(queue) \in Event /\ Tail(queue) \in Seq(Event)
    BY <1>1, <1>2, QueueTyped
  <2>2. Head(queue).asset \in Asset /\ Head(queue).src \in Asset /\ Head(queue).upd \in Update
    BY <2>1 DEF Event, Binary, Update
  <2>3. QED BY <2>1, <2>2 DEF Update
<1>3. CASE HandleVoltage
  <2> DEFINE a == Head(queue).asset
             r == OnInputVoltage(a, Head(queue).upd.new)
  <2>1. queue # <<>> /\ Settle(a, r)
    BY <1>3 DEF HandleVoltage
  <2>2. AnswerOK(a, r)
    BY <1>2, <2>1, VoltageAnswered
  <2>3. userOff' \subseteq userOff /\ UNCHANGED <<vm, oidOff, wall, requests, dead>>
    BY <1>3 DEF HandleVoltage
  <2> HIDE DEF r
  <2>4. QED BY <1>1, <1>2, <2>1, <2>2, <2>3, SettleTyped
<1>4. CASE HandleServerVoltage
  <2> DEFINE s == Head(queue).asset
             in == Head(queue).upd
             r == IF InputVoltageDrops(in) THEN ServerVoltageDown(s, Head(queue).src, in)
                  ELSE ServerVoltageUp(s, Head(queue).src, in)
  <2>1. queue # <<>> /\ Settle(s, r) /\ Kind[s] = "server"
    BY <1>4 DEF HandleServerVoltage
  <2>2. AnswerOK(s, r)
    BY <1>2, <2>1, ServerUpAnswered, ServerDownAnswered
  <2>3. userOff' \subseteq userOff /\ vm' \subseteq vm \cup {s} /\ UNCHANGED <<oidOff, wall, requests, dead>>
    BY <1>4 DEF HandleServerVoltage
  <2>4. s \in Servers
    BY <1>2, <2>1 DEF Servers
  <2> HIDE DEF r
  <2>5. QED BY <1>1, <1>2, <2>1, <2>2, <2>3, <2>4, SettleTyped
<1>5. CASE HandleLoad
  <2> DEFINE a == Head(queue).asset
             new == NewLoad(a, Head(queue).upd)
             p == Ordered(Parents[a])
  <2>1. queue # <<>> /\ load' = [load EXCEPT ![a] = new]
          /\ queue' = Tail(queue) \o [i \in 1 .. Len(p) |-> LoadEvent(p[i], Pair(load[a], new))]
          /\ UNCHANGED <<status, volt, vm, userOff, oidOff, wall, requests, dead>>
    BY <1>5 DEF HandleLoad
  <2>2. a \in Asset /\ load[a] \in Nat
    BY <1>1, <1>2, <2>1
  <2>3. new \in Nat
    <3>1. load[a] + Head(queue).upd.new - Head(queue).upd.old \in Int
      BY <1>2, <2>1, <2>2
    <3>2. QED BY <3>1, AmpsAreNat DEF NewLoad
  <2>4. Len(p) \in Nat /\ \A i \in 1 .. Len(p) : p[i] \in Asset
    <3>1. Parents[a] \in SUBSET Asset
      BY <2>2, Constants
    <3>2. QED BY <3>1, OrderedLists
  <2> HIDE DEF new, p
  <2>5. Pair(load[a], new) \in Update
    BY <2>2, <2>3, PairIsUpdate
  <2>6. \A i \in 1 .. Len(p) : LoadEvent(p[i], Pair(load[a], new)) \in Event
    BY <2>4, <2>5 DEF LoadEvent, Event
  <2>7. [i \in 1 .. Len(p) |-> LoadEvent(p[i], Pair(load[a], new))] \in Seq(Event)
    BY <2>4, <2>6
  <2>8. queue' \in Seq(Event)
    BY <1>2, <2>1, <2>7
  <2>9. QED BY <1>1, <2>1, <2>2, <2>3, <2>8
<1>6. CASE HandlePress
  <2> DEFINE a == Head(queue).asset
             st == Head(queue).upd.new
             fails == Kind[a] = "server" /\ st = 1 /\ OnlinePsus(a) = {}
             r == IF Kind[a] # "server" THEN OnPress(a, st)
                  ELSE IF st = 1 THEN ServerOn(a) ELSE ServerOff(a)
  <2>1. queue # <<>> /\ Head(queue).kind = "press" /\ UNCHANGED <<vm, oidOff, wall, requests>>
    BY <1>6 DEF HandlePress
  <2>2. a \in Asset /\ st \in {0, 1}
    BY <1>2, <2>1 DEF Event, Binary
  <2>3. userOff' \subseteq Asset
    BY <1>1, <1>6, <2>2 DEF HandlePress
  <2>4. CASE fails
    <3>1. dead' = TRUE /\ status' = [status EXCEPT ![a] = st] /\ queue' = Tail(queue)
            /\ UNCHANGED <<volt, load>>
      BY <1>6, <2>4 DEF HandlePress
    <3>2. QED BY <1>1, <1>2, <2>1, <2>2, <2>3, <3>1
  <2>5. CASE ~fails
    <3>1. Settle(a, r) /\ UNCHANGED dead
      BY <1>6, <2>5 DEF HandlePress
    <3>2. AnswerOK(a, r)
      BY <2>2, <2>5, PressAnswered, ServerPressAnswered
    <3> HIDE DEF r
    <3>3. QED BY <1>1, <2>1, <2>2, <2>3, <3>1, <3>2, SettleTyped
  <2>6. QED BY <2>4, <2>5
<1>7. CASE HandleSignal
  <2> DEFINE a == Head(queue).asset
             r == OnSignal(a, Head(queue).upd.new)
  <2>1. /\ queue # <<>> /\ Head(queue).kind = "signal" /\ Settle(a, r)
        /\ userOff' = userOff \ {a} /\ UNCHANGED <<vm, oidOff, wall, requests, dead>>
    BY <1>7 DEF HandleSignal
  <2>2. a \in Asset /\ Head(queue).upd.new \in {0, 1}
    BY <1>2, <2>1 DEF Event, Binary
  <2>3. AnswerOK(a, r)
    BY <2>2, PressAnswered
  <2> HIDE DEF r
  <2>4. QED BY <1>1, <2>1, <2>2, <2>3, SettleTyped
<1>8. CASE Begin
  <2> DEFINE r == Head(requests)
             m == Ordered(Mains)
  <2>1. /\ requests # <<>> /\ requests' = Tail(requests)
        /\ queue' = IF r.kind = "wall" THEN [i \in 1 .. Len(m) |-> VoltEvent(m[i], m[i], r.upd)]
                    ELSE <<r>>
        /\ UNCHANGED <<status, volt, load, vm, userOff, oidOff, wall, dead>>
    BY <1>8 DEF Begin, redis
  <2>2. r \in Request /\ Tail(requests) \in Seq(Request)
    BY <1>1, <2>1
  <2>3. CASE r.kind = "wall"
    <3>1. r.upd \in Update
      BY <2>2, <2>3 DEF Request, Event
    <3>2. Len(m) \in Nat /\ \A i \in 1 .. Len(m) : m[i] \in Asset
      BY Constants, OrderedLists
    <3> HIDE DEF r, m
    <3>3. \A i \in 1 .. Len(m) : VoltEvent(m[i], m[i], r.upd) \in Event
      BY <3>1, <3>2 DEF VoltEvent, Event
    <3>4. queue' \in Seq(Event)
      BY <2>1, <2>3, <3>2, <3>3
    <3>5. QED BY <1>1, <2>1, <2>2, <3>4
  <2>4. CASE r.kind # "wall"
    <3>1. r \in Event
      BY <2>2, <2>4 DEF Request
    <3>2. QED BY <1>1, <2>1, <2>2, <2>4, <3>1
  <2>5. QED BY <2>3, <2>4
<1>9. ASSUME NEW r, r \in Request, Publish(r) PROVE requests' \in Seq(Request)
  BY <1>1, <1>9 DEF Publish
<1>10. ASSUME NEW a \in Asset, SwitchOff(a) PROVE Kept
  <2>1. PressEvent(a, Pair(1, 0)) \in Request
    BY DEF PressEvent, Pair, Request, Event, Binary
  <2>2. LoadOnPowerOff(a) \in Nat
    BY <1>1 DEF LoadOnPowerOff
  <2>3. load' \in [Asset -> Nat]
    BY <1>1, <1>10, <2>2 DEF SwitchOff
  <2>4. requests' \in Seq(Request)
    BY <1>9, <1>10, <2>1 DEF SwitchOff
  <2>5. vm' \subseteq vm /\ UNCHANGED <<status, volt, userOff, oidOff, wall, queue, dead>>
    BY <1>10 DEF SwitchOff, VmDestroyed
  <2>6. QED BY <1>1, <2>3, <2>4, <2>5
<1>11. ASSUME NEW a \in Asset, SwitchOn(a) PROVE Kept
  <2>1. PressEvent(a, Pair(0, 1)) \in Request
    BY DEF PressEvent, Pair, Request, Event, Binary
  <2>2. LoadOnPowerUp(a) \in Nat /\ ServerLoadOnPowerUp(a) \in Nat
    <3>1. load[a] \in Nat /\ Amps(Consumption[a], volt[a]) \in Nat
      BY <1>1, Constants, AmpsAreNat
    <3>2. QED BY <3>1 DEF LoadOnPowerUp, PsuLoadOnPowerUp, ServerLoadOnPowerUp
  <2>3. load' \in [Asset -> Nat]
    BY <1>1, <1>11, <2>2 DEF SwitchOn
  <2>4. requests' \in Seq(Request)
    BY <1>9, <1>11, <2>1 DEF SwitchOn
  <2>5. vm' \subseteq Servers /\ UNCHANGED <<status, volt, userOff, oidOff, wall, queue, dead>>
    BY <1>1, <1>11 DEF SwitchOn, Servers
  <2>6. QED BY <1>1, <2>3, <2>4, <2>5
<1>12. ASSUME NEW v \in Volts, SetVoltage(v) PROVE Kept
  <2>1. [kind |-> "wall", upd |-> Pair(wall, v)] \in Request
    BY <1>1, Constants, PairIsUpdate DEF Request
  <2>2. requests' \in Seq(Request)
    BY <1>9, <1>12, <2>1 DEF SetVoltage
  <2>3. QED BY <1>1, <1>12, <2>2 DEF SetVoltage, redis
<1>13. ASSUME NEW a \in Switched, NEW st \in {0, 1}, SetOid(a, st) PROVE Kept
  <2>1. SignalEvent(a, Pair(status[a], st)) \in Request
    BY <1>1, Constants DEF SignalEvent, Pair, Request, Event, Binary
  <2>2. requests' \in Seq(Request)
    BY <1>9, <1>13, <2>1 DEF SetOid
  <2>3. oidOff' \subseteq Switched
    BY <1>1, <1>13 DEF SetOid
  <2>4. QED BY <1>1, <1>13, <2>2, <2>3 DEF SetOid, redis
<1>14. CASE UNCHANGED vars
  BY <1>1, <1>14 DEF vars
<1>15. QED
  BY <1>3, <1>4, <1>5, <1>6, <1>7, <1>8, <1>10, <1>11, <1>12, <1>13, <1>14 DEF Next, Client, Loop

\* Voltages and loads are whole amounts and never below 0, in redis and on their
\* way (asset.py, api/state.py, api/server.py), whatever the rack, the values and
\* what clients ask for.
THEOREM TypeCorrect == Spec => []TypeOK
<1>1. Init => TInv
  BY TInvInit
<1>2. TInv /\ [Next]_vars => TInv'
  BY TInvNext
<1>3. TInv => TypeOK
  BY DEF TInv
<1>4. QED BY <1>1, <1>2, <1>3, PTL DEF Spec

-----------------------------------------------------------------------------
(* The state follows the supply.                                           *)

(* The hypothesis: clients wait for the engine and switch nothing above or  *)
(* below what is switched off; every asset powers up when AC is restored;   *)
(* the mains was on at the start and gives either nothing or enough for     *)
(* every asset; nothing is powered through itself; servers are powered,     *)
(* power nothing and are no SNMP outlets.                                   *)
Steady ==
  /\ Patient /\ Apart /\ OnAc = Asset /\ Nominal # 0
  /\ \A v \in Volts, a \in Asset : v = 0 \/ v > MinVoltage[a]
  /\ \A a \in Asset : a \notin Parents[a] /\ \A b \in Above[a] : a \notin Above[b]
  /\ \A s \in Servers : Parents[s] # {} /\ Children(s) = {} /\ s \notin Switched

Off == userOff \cup oidOff
InLine == {queue[i] : i \in 1 .. Len(queue)}
Voltage == {e \in InLine : e.kind = "volt"}
Orders == {requests[i] : i \in 1 .. Len(requests)}
            \cup {e \in InLine : e.kind \in {"press", "signal"}}

\* The assets a voltage event came through.
Way(e) == IF e.src = e.asset THEN {} ELSE {e.src} \cup Above[e.src]
Awaits(a, p) == \E e \in Voltage : e.asset = a /\ e.src = p

\* The engine has one thing to do at a time, and no event of it fails.
Alone ==
  /\ requests # <<>> => Len(requests) = 1 /\ queue = <<>>
  /\ \A e \in InLine : e.kind \in {"press", "signal"} => queue = <<e>>
  /\ dead = FALSE

\* Voltages are those of the mains, and come from a parent.
Levels ==
  /\ \A a \in Asset : volt[a] \in Volts \cup {0}
  /\ \A e \in Voltage : /\ e.upd.new \in Volts \cup {0}
                        /\ e.src \in Parents[e.asset] \/ (e.asset \in Mains /\ e.src = e.asset)

\* What the engine is asked for is possible when it begins with it.
Entitled(e) ==
  /\ e.kind \in {"wall", "press", "signal"}
  /\ e.kind = "wall" => Off = {} /\ e.upd.new = wall
  /\ e.kind \in {"press", "signal"} =>
       /\ \A o \in Off \ {e.asset} : e.asset \notin Above[o]
       /\ e.upd.new = 1 => ParentsAvailable(e.asset)
  /\ e.kind = "press" =>
       /\ status[e.asset] = 1 - e.upd.new
       /\ e.upd.new = 1 => volt[e.asset] # 0
       /\ e.asset \in Servers => (e.asset \in vm <=> e.upd.new = 1)
  /\ e.kind = "signal" => e.asset \notin Servers /\ (e.upd.new = 0 => e.asset \in oidOff)

\* An asset has the voltage of the mains or of its parent unless told otherwise.
FollowMains ==
  \A m \in Mains :
    \/ \E e \in Orders : e.kind = "wall"
    \/ /\ \A e \in Voltage : e.asset = m => e.upd.new = wall
       /\ Awaits(m, m) \/ volt[m] = wall

FollowParents ==
  \A a \in Asset : \A p \in Parents[a] :
    /\ \A e \in Voltage : e.asset = a /\ e.src = p => e.upd.new = OutVolt(p)
    /\ a \in Servers \/ Awaits(a, p) \/ volt[a] = OutVolt(p)

\* A wave of voltage events goes down the graph: none is above another's way.
Wave == \A e, f \in Voltage : e.asset \notin Way(f)

\* An asset is told once what one of its parents does.
Once(q) ==
  \A i, j \in 1 .. Len(q) :
    /\ q[i].kind = "volt" /\ q[j].kind = "volt"
    /\ q[i].asset = q[j].asset /\ q[i].src = q[j].src
    => i = j

\* It reaches nothing that is switched off.
Aside == \A e \in Voltage : \A o \in Off : e.asset # o /\ e.asset \notin Above[o]

\* An asset that is on has voltage, but for the first time it gets any.
ColdStart ==
  \/ \A a \in Asset : status[a] = 1 => volt[a] # 0
  \/ /\ wall # 0 /\ \A a \in Asset : status[a] = 1
     /\ \A e \in Voltage : e.upd.new # 0
     /\ \A e \in Orders : e.kind = "wall"

\* An asset that has voltage and is off was switched off, or is about to start.
OffForAReason ==
  \A a \in Asset : status[a] = 0 /\ volt[a] # 0 =>
    \/ a \in Off
    \/ \E e \in Orders : e.kind = "signal" /\ e.asset = a
    \/ a \in Servers /\ \E e \in Voltage : e.asset = a /\ e.upd.new # 0

\* A server that is off for lack of voltage hears of every PSU that gets some.
Fed ==
  \A s \in Servers \ Off : status[s] = 0 =>
    /\ \A p \in Parents[s] : OutVolt(p) = 0 \/ Awaits(s, p)
    /\ \A e \in Voltage : e.asset = s /\ e.upd.new # 0 => e.upd.old = 0

\* A server has the highest voltage of its PSUs.
Highest(s) == volt[s] \in Supply(s) /\ \A v \in Supply(s) : v <= volt[s]
Equal(s) == \A p, q \in Parents[s] : OutVolt(p) = 0 \/ OutVolt(q) = 0 \/ OutVolt(p) = OutVolt(q)
HighestFed ==
  \A s \in Servers : (\E e \in Voltage : e.asset = s) \/ ~Equal(s) \/ Highest(s)

\* Its VM runs when it is on, but for a button that is not yet heard.
VmFollows ==
  \A s \in Servers :
    (\E e \in Orders : e.kind = "press" /\ e.asset = s) \/ (s \in vm <=> status[s] = 1)

SInv ==
  /\ TInv /\ Alone /\ Levels /\ (\A e \in Orders : Entitled(e))
  /\ FollowMains /\ FollowParents /\ Wave /\ Once(queue) /\ Aside
  /\ ColdStart /\ OffForAReason /\ Fed /\ HighestFed /\ VmFollows

-----------------------------------------------------------------------------
\* The graph.

\* What an asset is powered through, from parent to parent, upwards and
\* downwards; nothing is powered through itself.
LEMMA AboveIs ==
  ASSUME Steady, NEW a \in Asset
  PROVE  /\ Above[a] \subseteq Asset \ {a}
         /\ \A b \in Above[a] : a \notin Above[b] /\ Above[b] \subseteq Above[a]
         /\ Parents[a] \subseteq Above[a]
         /\ \A u \in Above[a] : \E p \in Parents[a] : u \in {p} \cup Above[p]
         /\ \A u \in Above[a] : Parents[u] \subseteq Above[a]
<1> DEFINE Closed(b, S) == Parents[b] \subseteq S /\ \A s \in S : Parents[s] \subseteq S
<1>1. ASSUME NEW b \in Asset
      PROVE  \A u : u \in Above[b] <=> /\ u \in Asset \ {b}
                                       /\ \A S \in SUBSET Asset : Closed(b, S) => u \in S
  BY DEF Above
<1> HIDE DEF Closed
<1>2. \A b \in Asset : \A S : Closed(b, S) <=> Parents[b] \subseteq S /\ \A s \in S : Parents[s] \subseteq S
  BY DEF Closed
<1>3. \A b \in Asset : b \notin Parents[b] /\ Parents[b] \subseteq Asset
                       /\ Above[b] \subseteq Asset \ {b} /\ \A c \in Above[b] : b \notin Above[c]
  BY <1>1, Constants DEF Steady
<1>4. ASSUME NEW b \in Asset PROVE Parents[b] \subseteq Above[b]
  BY <1>1, <1>2, <1>3
<1>5. ASSUME NEW b \in Asset, NEW c \in Above[b] PROVE Above[c] \subseteq Above[b]
  <2>1. ASSUME NEW S \in SUBSET Asset, Closed(b, S) PROVE Closed(c, S)
    <3>1. c \in S
      BY <1>1, <2>1
    <3>2. QED BY <1>2, <1>3, <2>1, <3>1
  <2>2. ASSUME NEW u \in Above[c] PROVE u \in Above[b]
    <3>1. c \in Asset /\ u \in Asset /\ u # b
      BY <1>3, <2>2
    <3>2. \A S \in SUBSET Asset : Closed(b, S) => u \in S
      BY <1>1, <2>1, <2>2, <3>1
    <3>3. QED BY <1>1, <3>1, <3>2
  <2>3. QED BY <2>2
<1>6. ASSUME NEW b \in Asset, NEW u \in Above[b] PROVE Parents[u] \subseteq Above[b]
  BY <1>3, <1>4, <1>5
<1>7. \A u \in Above[a] : \E p \in Parents[a] : u \in {p} \cup Above[p]
  <2> DEFINE S == Parents[a] \cup UNION {Above[p] : p \in Parents[a]}
  <2>1. S \in SUBSET Asset
    BY <1>3
  <2>2. ASSUME NEW s \in S PROVE Parents[s] \subseteq S
    <3>1. CASE s \in Parents[a]
      <4>1. Parents[s] \subseteq Above[s]
        BY <1>3, <1>4, <3>1
      <4>2. QED BY <3>1, <4>1
    <3>2. CASE \E p \in Parents[a] : s \in Above[p]
      <4>1. PICK p \in Parents[a] : s \in Above[p]
        BY <3>2
      <4>2. Parents[s] \subseteq Above[p]
        BY <1>3, <1>6, <4>1
      <4>3. QED BY <4>1, <4>2
    <3>3. QED BY <3>1, <3>2
  <2>3. Closed(a, S)
    BY <1>2, <2>2
  <2>4. Above[a] \subseteq S
    BY <1>1, <2>1, <2>3
  <2>5. QED BY <2>4
<1>8. QED BY <1>3, <1>4, <1>5, <1>6, <1>7

\* Only servers have more than one parent, and they power nothing.
LEMMA OneParent ==
  ASSUME Steady, NEW a \in Asset
  PROVE  /\ a \in Servers <=> Kind[a] = "server"
         /\ a \notin Servers => \A p, q \in Parents[a] : p = q
         /\ \A p \in Parents[a] : p \in Asset /\ p \notin Servers /\ a \in Children(p)
         /\ \A c \in Children(a) : c \in Asset /\ a \in Parents[c] /\ c # a
         /\ a \in Mains <=> Parents[a] = {}
<1>1. ASSUME a \notin Servers, NEW p \in Parents[a], NEW q \in Parents[a], p # q PROVE FALSE
  <2>1. IsFiniteSet(Parents[a])
    BY Constants
  <2>2. {p, q} \subseteq Parents[a]
    OBVIOUS
  <2>3. Cardinality({p, q}) = 2
    <3>1. IsFiniteSet({p}) /\ Cardinality({p}) = 1
      BY FS_Singleton
    <3>3. {p} \cup {q} = {p, q} /\ q \notin {p}
      BY <1>1
    <3>4. Cardinality({p} \cup {q}) = 1 + 1
      BY <3>1, <3>3, FS_AddElement
    <3>5. QED BY <3>3, <3>4
  <2>4. Cardinality({p, q}) <= Cardinality(Parents[a]) /\ Cardinality(Parents[a]) \in Nat
    BY <2>1, <2>2, FS_Subset, FS_CardinalityType
  <2>5. Cardinality(Parents[a]) > 1
    BY <2>3, <2>4
  <2>6. QED BY <1>1, <2>5, FlowAssumption DEF FlowAssumption, Servers
<1>2. \A p \in Parents[a] : p \in Asset /\ p \notin Servers /\ a \in Children(p)
  BY Constants DEF Steady, Children
<1>3. \A c \in Children(a) : c \in Asset /\ a \in Parents[c] /\ c # a
  BY DEF Steady, Children
<1>4. QED BY <1>1, <1>2, <1>3 DEF Servers, Mains

\* Of some assets, one is powered through none of the others.
LEMMA Topmost ==
  ASSUME Steady, NEW Some \in SUBSET Asset, Some # {}
  PROVE  \E a \in Some : \A b \in Some : b \notin Above[a]
<1> DEFINE height == {Cardinality(Above[a]) : a \in Some}
<1>1. ASSUME NEW a \in Asset
      PROVE  IsFiniteSet(Above[a]) /\ Cardinality(Above[a]) \in Nat
  <2>1. Above[a] \subseteq Asset
    BY AboveIs
  <2>2. IsFiniteSet(Above[a])
    BY <2>1, FS_Subset, FlowAssumption DEF FlowAssumption
  <2>3. QED BY <2>2, FS_CardinalityType
<1>2. height \in SUBSET Nat /\ height # {}
  BY <1>1
<1>3. PICK a \in Some : \A b \in Some : Cardinality(Above[a]) <= Cardinality(Above[b])
  <2>1. \E x \in height : \A y \in height : x <= y
    <3> HIDE DEF height
    <3>1. QED BY <1>2, LeastOf
  <2>2. QED BY <2>1
<1>4. ASSUME NEW b \in Some, b \in Above[a] PROVE FALSE
  <2>1. Above[b] \subseteq Above[a] /\ b \notin Above[b]
    BY <1>4, AboveIs
  <2>2. IsFiniteSet(Above[a]) /\ Cardinality(Above[a]) \in Nat /\ Cardinality(Above[b]) \in Nat
    BY <1>1
  <2>3. Above[a] \ {b} \in SUBSET Above[a] /\ Above[b] \subseteq Above[a] \ {b}
    BY <2>1
  <2>4. IsFiniteSet(Above[a] \ {b}) /\ Cardinality(Above[a] \ {b}) = Cardinality(Above[a]) - 1
    BY <1>4, <2>2, FS_RemoveElement
  <2>5. Cardinality(Above[b]) <= Cardinality(Above[a] \ {b})
    BY <2>3, <2>4, FS_Subset
  <2>6. QED BY <1>3, <2>2, <2>4, <2>5
<1>5. QED BY <1>4

-----------------------------------------------------------------------------
\* The queue.

\* The events an answer fires and those that wait behind the one answered.
LEMMA Enqueued ==
  ASSUME TInv, Alone, Once(queue), queue # <<>>,
         NEW F \in Seq(Event), queue' = Tail(queue) \o F, Once(F),
         \A i \in 1 .. Len(F) : F[i].kind \in {"volt", "load"},
         \A i \in 1 .. Len(F) : \A e \in Voltage \ {Head(queue)} :
           F[i].kind = "volt" => e.asset # F[i].asset \/ e.src # F[i].src
  PROVE  /\ Voltage' = (Voltage \ {Head(queue)})
                          \cup {e \in {F[i] : i \in 1 .. Len(F)} : e.kind = "volt"}
         /\ Once(queue')
         /\ \A e \in InLine' : e.kind \in {"volt", "load"}
<1> DEFINE h == Head(queue)
           n == Len(queue)
           m == Len(F)
<1>1. queue \in Seq(Event) /\ n \in Nat /\ m \in Nat /\ n > 0
  BY DEF TInv
<1>2. h = queue[1] /\ queue' \in Seq(Event)
  BY <1>1
<1>3. /\ Len(queue') = (n - 1) + m
      /\ \A i \in 1 .. (n - 1) : queue'[i] = queue[i + 1]
      /\ \A i \in n .. ((n - 1) + m) : queue'[i] = F[(i - n) + 1]
  BY <1>1
<1>4. ASSUME NEW j \in 2 .. n
      PROVE  /\ queue[j] \in InLine
             /\ queue[j].kind = "volt" => queue[j] \in Voltage \ {h}
             /\ queue[j].kind \in {"volt", "load"}
  <2>1. j \in 1 .. n /\ 1 \in 1 .. n /\ j # 1
    BY <1>1
  <2>2. queue[j] \in InLine /\ queue[1] \in InLine
    BY <2>1 DEF InLine
  <2>3. queue[j].kind = "volt" => queue[j] # h
    <3>1. ASSUME queue[j].kind = "volt", queue[j] = queue[1] PROVE FALSE
      BY <2>1, <3>1 DEF Once
    <3>2. QED BY <1>2, <3>1
  <2>4. queue[j].kind \notin {"press", "signal"}
    <3>1. ASSUME queue[j].kind \in {"press", "signal"} PROVE FALSE
      <4>1. queue = <<queue[j]>>
        BY <2>2, <3>1 DEF Alone
      <4>2. Len(queue) = 1
        BY <4>1
      <4>3. QED BY <4>2
    <3>2. QED BY <3>1
  <2>5. queue[j] \in Event
    BY <1>1, <2>1
  <2>6. queue[j].kind \in {"volt", "load", "press", "signal"}
    BY <2>5 DEF Event
  <2>7. QED BY <2>2, <2>3, <2>4, <2>6 DEF Voltage
<1> HIDE DEF h
<1>5. ASSUME NEW e PROVE e \in InLine' <=> \/ \E j \in 2 .. n : e = queue[j]
                                          \/ \E i \in 1 .. m : e = F[i]
  <2>1. ASSUME e \in InLine' PROVE (\E j \in 2 .. n : e = queue[j]) \/ \E i \in 1 .. m : e = F[i]
    <3>1. PICK k \in 1 .. Len(queue') : e = queue'[k]
      BY <2>1 DEF InLine
    <3>2. CASE k \in 1 .. (n - 1)
      <4>1. k + 1 \in 2 .. n /\ e = queue[k + 1]
        BY <1>1, <1>3, <3>1, <3>2
      <4>2. QED BY <4>1
    <3>3. CASE k \in n .. ((n - 1) + m)
      <4>1. (k - n) + 1 \in 1 .. m /\ e = F[(k - n) + 1]
        BY <1>1, <1>3, <3>1, <3>3
      <4>2. QED BY <4>1
    <3>4. QED BY <1>1, <1>3, <3>2, <3>3
  <2>2. ASSUME NEW j \in 2 .. n, e = queue[j] PROVE e \in InLine'
    <3>1. j - 1 \in 1 .. (n - 1) /\ j - 1 \in 1 .. Len(queue') /\ (j - 1) + 1 = j
      BY <1>1, <1>3
    <3>2. queue'[j - 1] = queue[j]
      BY <1>3, <3>1
    <3>3. QED BY <2>2, <3>1, <3>2 DEF InLine
  <2>3. ASSUME NEW i \in 1 .. m, e = F[i] PROVE e \in InLine'
    <3>1. /\ (n - 1) + i \in n .. ((n - 1) + m) /\ (n - 1) + i \in 1 .. Len(queue')
          /\ (((n - 1) + i) - n) + 1 = i
      BY <1>1, <1>3
    <3>2. queue'[(n - 1) + i] = F[i]
      BY <1>3, <3>1
    <3>3. QED BY <2>3, <3>1, <3>2 DEF InLine
  <2>4. QED BY <2>1, <2>2, <2>3
<1>6. ASSUME NEW e, e \in Voltage, e # h PROVE \E j \in 2 .. n : e = queue[j]
  <2>1. PICK k \in 1 .. n : e = queue[k]
    BY <1>6 DEF Voltage, InLine
  <2>2. k # 1
    BY <1>2, <1>6, <2>1
  <2>3. QED BY <1>1, <2>1, <2>2
<1>7. ASSUME NEW e
      PROVE  e \in Voltage' <=> e \in (Voltage \ {h}) \cup {f \in {F[i] : i \in 1 .. m} : f.kind = "volt"}
  <2>1. e \in Voltage' <=> e \in InLine' /\ e.kind = "volt"
    BY DEF Voltage
  <2>2. e \in Voltage => e.kind = "volt"
    BY DEF Voltage
  <2> DEFINE G == {f \in {F[i] : i \in 1 .. m} : f.kind = "volt"}
  <2>3. e \in G <=> e.kind = "volt" /\ \E i \in 1 .. m : e = F[i]
    OBVIOUS
  <2> HIDE DEF G
  <2>4. ASSUME e \in Voltage' PROVE e \in (Voltage \ {h}) \cup G
    <3>1. e.kind = "volt" /\ ((\E j \in 2 .. n : e = queue[j]) \/ \E i \in 1 .. m : e = F[i])
      BY <1>5, <2>1, <2>4
    <3>2. QED BY <1>4, <2>3, <3>1
  <2>5. ASSUME e \in (Voltage \ {h}) \cup G PROVE e \in Voltage'
    BY <1>5, <1>6, <2>1, <2>2, <2>3, <2>5
  <2>6. QED BY <2>4, <2>5 DEF G
<1>8. Once(queue')
  <2> DEFINE same(x, y) == x.kind = "volt" /\ y.kind = "volt" /\ x.asset = y.asset /\ x.src = y.src
  <2> SUFFICES ASSUME NEW i \in 1 .. Len(queue'), NEW j \in 1 .. Len(queue'),
                      same(queue'[i], queue'[j])
               PROVE  i = j
    BY DEF Once
  <2>1. \A k \in 1 .. Len(queue') : k \in 1 .. (n - 1) \/ k \in n .. ((n - 1) + m)
    BY <1>1, <1>3
  <2>2. CASE i \in 1 .. (n - 1) /\ j \in 1 .. (n - 1)
    <3>1. same(queue[i + 1], queue[j + 1])
      BY <1>3, <2>2
    <3>2. i + 1 \in 1 .. n /\ j + 1 \in 1 .. n
      BY <1>1, <2>2
    <3>3. i + 1 = j + 1
      BY <3>1, <3>2 DEF Once
    <3>4. QED BY <2>2, <3>3
  <2>3. CASE i \in n .. ((n - 1) + m) /\ j \in n .. ((n - 1) + m)
    <3>1. same(F[(i - n) + 1], F[(j - n) + 1])
      BY <1>3, <2>3
    <3>2. (i - n) + 1 \in 1 .. m /\ (j - n) + 1 \in 1 .. m
      BY <1>1, <2>3
    <3>3. (i - n) + 1 = (j - n) + 1
      BY <3>1, <3>2 DEF Once
    <3>4. QED BY <1>1, <2>3, <3>3
  <2>4. ASSUME NEW k \in 1 .. (n - 1), NEW l \in n .. ((n - 1) + m),
               same(queue'[k], queue'[l]) \/ same(queue'[l], queue'[k])
        PROVE  FALSE
    <3>1. k + 1 \in 2 .. n /\ queue'[k] = queue[k + 1]
      BY <1>1, <1>3
    <3>2. (l - n) + 1 \in 1 .. m /\ queue'[l] = F[(l - n) + 1]
      BY <1>1, <1>3
    <3>3. queue[k + 1] \in Voltage \ {h}
      BY <1>4, <2>4, <3>1
    <3>4. QED BY <2>4, <3>1, <3>2, <3>3 DEF h
  <2> HIDE DEF same
  <2>5. QED BY <2>1, <2>2, <2>3, <2>4
<1>9. \A e \in InLine' : e.kind \in {"volt", "load"}
  BY <1>4, <1>5
<1>10. QED BY <1>7, <1>8, <1>9 DEF h

\* An answer is told to the children once, if the output voltage changes.
Told(a, r) == IF Same(r.out) THEN {} ELSE {VoltEvent(c, a, r.out) : c \in Children(a)}

\* What an answer fires: load events, and what is told to the children.
LEMMA FiredIs ==
  ASSUME TInv, NEW a \in Asset, NEW r, AnswerOK(a, r)
  PROVE  /\ Fired(a, r) \in Seq(Event) /\ Once(Fired(a, r))
         /\ \A i \in 1 .. Len(Fired(a, r)) : Fired(a, r)[i].kind \in {"volt", "load"}
         /\ {e \in {Fired(a, r)[i] : i \in 1 .. Len(Fired(a, r))} : e.kind = "volt"} = Told(a, r)
<1> DEFINE c == Ordered(Children(a))
           C == IF Same(r.out) THEN <<>> ELSE ToChildren(a, r.out)
           P == ToParents(a, r.streams, r.upd)
<1>1. Fired(a, r) = C \o P
  BY DEF Fired
<1>2. /\ Len(c) \in Nat /\ \A i \in 1 .. Len(c) : c[i] \in Children(a)
      /\ \A i, j \in 1 .. Len(c) : c[i] = c[j] => i = j
      /\ \A x \in Children(a) : \E i \in 1 .. Len(c) : c[i] = x
  BY Constants, OrderedLists
<1>3. \A i \in 1 .. Len(c) : VoltEvent(c[i], a, r.out) \in Event
  BY <1>2, Constants DEF VoltEvent, Event, AnswerOK
<1> HIDE DEF c
<1>4. /\ C \in Seq(Event)
      /\ Same(r.out) => Len(C) = 0
      /\ ~Same(r.out) => Len(C) = Len(c) /\ \A i \in 1 .. Len(c) : C[i] = VoltEvent(c[i], a, r.out)
  <2>1. CASE Same(r.out)
    BY <2>1
  <2>2. CASE ~Same(r.out)
    <3>1. C = [i \in 1 .. Len(c) |-> VoltEvent(c[i], a, r.out)]
      BY <2>2 DEF ToChildren, c
    <3> HIDE DEF C
    <3>2. QED BY <1>2, <1>3, <2>2, <3>1
  <2>3. QED BY <2>1, <2>2
<1>5. P \in Seq(Event) /\ \A i \in 1 .. Len(P) : P[i].kind = "load"
  <2>1. ASSUME NEW S \in SUBSET Asset, NEW u, \A x \in S : u[x] \in Update,
               P = [i \in 1 .. Len(Ordered(S)) |-> LoadEvent(Ordered(S)[i], u[Ordered(S)[i]])]
        PROVE  P \in Seq(Event) /\ \A i \in 1 .. Len(P) : P[i].kind = "load"
    <3> HIDE DEF P
    <3>1. Len(Ordered(S)) \in Nat /\ \A i \in 1 .. Len(Ordered(S)) : Ordered(S)[i] \in S
      BY OrderedLists
    <3>2. \A i \in 1 .. Len(Ordered(S)) : LoadEvent(Ordered(S)[i], u[Ordered(S)[i]]) \in Event
      BY <2>1, <3>1 DEF LoadEvent, Event
    <3>3. \A i \in 1 .. Len(Ordered(S)) : LoadEvent(Ordered(S)[i], u[Ordered(S)[i]]).kind = "load"
      BY DEF LoadEvent
    <3>4. P \in Seq(Event) /\ Len(P) = Len(Ordered(S))
      BY <2>1, <3>1, <3>2
    <3>5. QED BY <2>1, <3>1, <3>3, <3>4
  <2>2. CASE r.streams # NoStreams
    <3> DEFINE S == {q \in DOMAIN r.streams : ~Same(r.streams[q])}
    <3>1. r.streams \in [Parents[a] -> Update]
      BY <2>2 DEF AnswerOK
    <3>2. S \in SUBSET Asset /\ \A x \in S : r.streams[x] \in Update
      BY <3>1, Constants
    <3>3. P = [i \in 1 .. Len(Ordered(S)) |-> LoadEvent(Ordered(S)[i], r.streams[Ordered(S)[i]])]
      BY <2>2 DEF ToParents
    <3> HIDE DEF S, P
    <3>4. QED BY <2>1, <3>2, <3>3
  <2>3. CASE r.streams = NoStreams
    <3> DEFINE p == Ordered(Parents[a])
    <3>1. P = IF Same(r.upd) THEN <<>> ELSE [i \in 1 .. Len(p) |-> LoadEvent(p[i], r.upd)]
      BY <2>3 DEF ToParents
    <3>2. Len(p) \in Nat /\ \A i \in 1 .. Len(p) : p[i] \in Asset
      BY Constants, OrderedLists
    <3> HIDE DEF p, P
    <3>3. \A i \in 1 .. Len(p) : LoadEvent(p[i], r.upd) \in Event /\ LoadEvent(p[i], r.upd).kind = "load"
      BY <3>2 DEF LoadEvent, Event, AnswerOK
    <3>4. CASE Same(r.upd)
      BY <3>1, <3>4
    <3>5. CASE ~Same(r.upd)
      <4>1. P \in Seq(Event) /\ Len(P) = Len(p)
        BY <3>1, <3>2, <3>3, <3>5
      <4>2. QED BY <3>1, <3>2, <3>3, <3>5, <4>1
    <3>6. QED BY <3>4, <3>5
  <2>4. QED BY <2>2, <2>3
<1> DEFINE F == C \o P
<1> HIDE DEF C, P
<1>6. /\ F \in Seq(Event) /\ Len(C) \in Nat /\ Len(P) \in Nat /\ Len(F) = Len(C) + Len(P)
      /\ \A i \in 1 .. Len(C) : F[i] = C[i]
      /\ \A i \in (Len(C) + 1) .. Len(F) : F[i] = P[i - Len(C)]
  BY <1>4, <1>5
<1>7. \A i \in 1 .. Len(C) : /\ ~Same(r.out) /\ i \in 1 .. Len(c)
                             /\ C[i].kind = "volt" /\ C[i].asset = c[i] /\ C[i].src = a
                             /\ C[i] = VoltEvent(c[i], a, r.out)
  BY <1>4 DEF VoltEvent
<1> HIDE DEF F
<1>8. \A i \in 1 .. Len(F) : \/ i \in 1 .. Len(C) /\ F[i] = C[i] /\ F[i].kind = "volt"
                             \/ F[i].kind = "load"
  <2> SUFFICES ASSUME NEW i \in 1 .. Len(F)
               PROVE  (i \in 1 .. Len(C) /\ F[i] = C[i] /\ F[i].kind = "volt") \/ F[i].kind = "load"
    OBVIOUS
  <2>1. CASE i \in 1 .. Len(C)
    BY <1>6, <1>7, <2>1
  <2>2. CASE i \in (Len(C) + 1) .. Len(F)
    <3>1. i - Len(C) \in 1 .. Len(P)
      BY <1>6, <2>2
    <3>2. QED BY <1>5, <1>6, <2>2, <3>1
  <2>3. QED BY <1>6, <2>1, <2>2
<1>9. Once(F)
  <2> SUFFICES ASSUME NEW i \in 1 .. Len(F), NEW j \in 1 .. Len(F),
                      F[i].kind = "volt", F[j].kind = "volt", F[i].asset = F[j].asset
               PROVE  i = j
    BY DEF Once
  <2>1. i \in 1 .. Len(C) /\ j \in 1 .. Len(C) /\ F[i] = C[i] /\ F[j] = C[j]
    BY <1>8
  <2>2. c[i] = c[j]
    BY <1>7, <2>1
  <2>3. QED BY <1>2, <1>7, <2>1, <2>2
<1>10. ASSUME NEW e
       PROVE  e \in Told(a, r) <=> e.kind = "volt" /\ \E i \in 1 .. Len(F) : e = F[i]
  <2>1. ASSUME e \in Told(a, r) PROVE e.kind = "volt" /\ \E i \in 1 .. Len(F) : e = F[i]
    <3>1. ~Same(r.out) /\ \E x \in Children(a) : e = VoltEvent(x, a, r.out)
      BY <2>1 DEF Told
    <3>2. PICK i \in 1 .. Len(c) : e = VoltEvent(c[i], a, r.out)
      BY <1>2, <3>1
    <3>3. i \in 1 .. Len(C) /\ i \in 1 .. Len(F) /\ e = C[i]
      BY <1>4, <1>6, <3>1, <3>2
    <3>4. QED BY <1>6, <1>7, <3>3
  <2>2. ASSUME NEW i \in 1 .. Len(F), e = F[i], e.kind = "volt" PROVE e \in Told(a, r)
    <3>1. i \in 1 .. Len(C) /\ e = C[i]
      BY <1>8, <2>2
    <3>2. QED BY <1>2, <1>7, <3>1 DEF Told
  <2>3. QED BY <2>1, <2>2
<1>11. \A i \in 1 .. Len(F) : F[i].kind \in {"volt", "load"}
  BY <1>8
<1>12. {e \in {F[i] : i \in 1 .. Len(F)} : e.kind = "volt"} = Told(a, r)
  BY <1>10
<1>13. QED BY <1>1, <1>6, <1>9, <1>11, <1>12 DEF F

-----------------------------------------------------------------------------
\* What the answers say.

\* An asset that is not switched off and can be fed follows the voltage it gets.
LEMMA VoltageAnswer ==
  ASSUME Steady, TInv, NEW a \in Asset, a \notin Off, NEW new \in Volts \cup {0},
         new # 0 => ParentsAvailable(a)
  PROVE  /\ OnInputVoltage(a, new).volt = new
         /\ OnInputVoltage(a, new).out = Pair(OutVolt(a), new)
         /\ OnInputVoltage(a, new).status = IF new = 0 THEN 0 ELSE 1
<1> DEFINE down == new <= MinVoltage[a] /\ status[a] = 1
           up == new > MinVoltage[a] /\ status[a] = 0 /\ a \notin userOff /\ a \in OnAc
           starts == up /\ ParentsAvailable(a)
           st == IF down THEN 0 ELSE IF starts THEN 1 ELSE status[a]
           out == IF down \/ up THEN Pair(OutVolt(a) * status[a], new * st)
                  ELSE Pair(OutVolt(a), new)
           r == OnInputVoltage(a, new)
<1>1. r.volt = new /\ r.status = st /\ r.out = out
  BY DEF OnInputVoltage, Answer
<1>2. /\ status[a] \in {0, 1} /\ new \in Nat /\ MinVoltage[a] \in Nat /\ OutVolt(a) \in Nat
      /\ status[a] = 0 => OutVolt(a) = 0
      /\ a \notin userOff /\ a \in OnAc
      /\ new # 0 => new > MinVoltage[a]
  <2>1. new \in Nat /\ MinVoltage[a] \in Nat
    BY Constants
  <2>2. new # 0 => new > MinVoltage[a]
    BY <2>1 DEF Steady
  <2>3. status[a] \in {0, 1}
    BY DEF TInv, TypeOK
  <2>4. QED BY <2>1, <2>2, <2>3, OutVoltIsNat DEF TInv, Off, Steady
<1>3. CASE new = 0
  <2>1. ~up /\ st = 0
    BY <1>2, <1>3
  <2>2. out = Pair(OutVolt(a), 0)
    <3>1. CASE down
      <4>1. OutVolt(a) * status[a] = OutVolt(a) /\ new * st = 0
        BY <1>2, <1>3, <2>1, <3>1
      <4>2. QED BY <3>1, <4>1
    <3>2. CASE ~down
      BY <1>3, <2>1, <3>2
    <3>3. QED BY <3>1, <3>2
  <2>3. QED BY <1>1, <1>3, <2>1, <2>2
<1>4. CASE new # 0
  <2>1. ~down
    BY <1>2, <1>4
  <2>2. st = 1
    BY <1>2, <1>4, <2>1
  <2>3. out = Pair(OutVolt(a), new)
    <3>1. CASE up
      <4>1. OutVolt(a) * status[a] = OutVolt(a) /\ new * st = new
        BY <1>2, <2>2, <3>1
      <4>2. QED BY <3>1, <4>1
    <3>2. CASE ~up
      BY <2>1, <3>2
    <3>3. QED BY <3>1, <3>2
  <2>4. QED BY <1>1, <1>4, <2>2, <2>3
<1>5. QED BY <1>3, <1>4

\* A server starts unless voltage drops, and stops when its last PSU is lost.
ServerAnswer(s, src, in) ==
  IF InputVoltageDrops(in) THEN ServerVoltageDown(s, src, in) ELSE ServerVoltageUp(s, src, in)

\* The voltage and the status it leaves.
LEMMA ServerAnswerIs ==
  ASSUME Steady, TInv, NEW s \in Servers, NEW src \in Parents[s], NEW in \in Update,
         in.new = OutVolt(src), in.new \in Volts \cup {0}
  PROVE  /\ ServerAnswer(s, src, in).volt = Larger(PsuOutVoltage(s), in.new)
         /\ ServerAnswer(s, src, in).status =
              IF ~InputVoltageDrops(in) THEN 1
              ELSE IF in.new = 0 /\ OnlinePsus(s) \ {src} = {} THEN 0 ELSE status[s]
<1>1. s \in Asset /\ src \in Psus(s) /\ s \in OnAc
  BY DEF Servers, Psus, Steady
<1>2. CASE InputVoltageDrops(in)
  <2>1. ServerAnswer(s, src, in) = ServerVoltageDown(s, src, in)
    BY <1>2 DEF ServerAnswer
  <2>2. ServerVoltageDown(s, src, in).volt = Larger(PsuOutVoltage(s), in.new)
    BY DEF ServerVoltageDown, Answer
  <2>3. ServerVoltageDown(s, src, in).status =
          IF in.new = 0 /\ OnlinePsus(s) \ {src} = {} THEN 0 ELSE status[s]
    BY DEF ServerVoltageDown, Answer
  <2>4. QED BY <1>2, <2>1, <2>2, <2>3
<1>3. CASE ~InputVoltageDrops(in)
  <2> DEFINE starting == (status[s] = 0 \/ s \notin vm) /\ in.new # 0
             boots == starting /\ s \in OnAc
             fed == \E p \in Psus(s) : OutVolt(p) > MinVoltage[s]
             up == boots /\ status[s] = 0 /\ fed
  <2>1. ServerAnswer(s, src, in) = ServerVoltageUp(s, src, in)
    BY <1>3 DEF ServerAnswer
  <2>2. ServerVoltageUp(s, src, in).volt = Larger(PsuOutVoltage(s), in.new)
    BY DEF ServerVoltageUp, Answer
  <2>3. boots => ServerVoltageUp(s, src, in).status = IF up THEN 1 ELSE status[s]
    BY DEF ServerVoltageUp, Answer
  <2>4. ~up => ServerVoltageUp(s, src, in).status = status[s]
    BY DEF ServerVoltageUp, Answer
  <2>5. in.new # 0 /\ status[s] \in {0, 1}
    BY <1>1, <1>3 DEF InputVoltageDrops, TInv, TypeOK
  <2>6. fed
    <3>1. in.new > MinVoltage[s]
      BY <1>1, <2>5 DEF Steady
    <3>2. QED BY <1>1, <3>1
  <2> HIDE DEF fed
  <2>7. status[s] = 0 => up
    BY <1>1, <2>5, <2>6
  <2>8. ServerVoltageUp(s, src, in).status = 1
    BY <2>3, <2>4, <2>5, <2>7
  <2>9. QED BY <1>3, <2>1, <2>2, <2>8
<1>4. QED BY <1>2, <1>3

\* The first PSU that is on and the one that changes give a server the highest
\* voltage there is.
LEMMA LargerIs ==
  \A x, y \in Nat : /\ Larger(x, y) \in {x, y} /\ Larger(x, y) >= x /\ Larger(x, y) >= y
                    /\ (Larger(x, y) = 0 <=> x = 0 /\ y = 0)
BY DEF Larger

\* Something to do is all there is to do.
LEMMA OneOrder ==
  ASSUME TInv, Alone
  PROVE  /\ \A e \in Orders : Orders = {e} /\ Voltage = {}
         /\ requests = <<>> /\ queue = <<>> => Orders = {} /\ Voltage = {}
         /\ \A e \in Voltage : /\ e \in Event /\ e.asset \in Asset /\ e.src \in Asset
                               /\ e.upd \in Update /\ e.kind = "volt"
         /\ \A e \in Orders : e \in Request
         /\ requests # <<>> => Orders = {Head(requests)} /\ queue = <<>> /\ Tail(requests) = <<>>
         /\ queue # <<>> => /\ requests = <<>> /\ Head(queue) \in InLine
                            /\ (Head(queue).kind = "volt" => Orders = {} /\ Head(queue) \in Voltage)
                            /\ (Head(queue).kind = "load" => Orders = {})
                            /\ (Head(queue).kind \in {"press", "signal"} =>
                                  Orders = {Head(queue)} /\ Voltage = {} /\ Tail(queue) = <<>>)
<1>1. queue \in Seq(Event) /\ requests \in Seq(Request)
  BY DEF TInv
<1>2. queue = <<>> => InLine = {}
  BY DEF InLine
<1>3. \A e \in InLine : e \in Event
  BY <1>1 DEF InLine
<1>4. \A e \in Voltage : /\ e \in Event /\ e.asset \in Asset /\ e.src \in Asset
                         /\ e.upd \in Update /\ e.kind = "volt" /\ e \in InLine
  BY <1>3 DEF Voltage, Event
<1>5. ASSUME requests # <<>>
      PROVE  /\ Orders = {Head(requests)} /\ queue = <<>> /\ Tail(requests) = <<>>
             /\ Voltage = {}
  <2>1. Len(requests) = 1 /\ queue = <<>>
    BY <1>5 DEF Alone
  <2>2. \A e : e \in Orders <=> e = requests[1]
    <3>1. {requests[i] : i \in 1 .. Len(requests)} = {requests[1]}
      BY <2>1
    <3>2. {e \in InLine : e.kind \in {"press", "signal"}} = {}
      BY <1>2, <2>1
    <3>3. Orders = {requests[1]}
      BY <3>1, <3>2 DEF Orders
    <3>4. QED BY <3>3
  <2>3. Head(requests) = requests[1] /\ Tail(requests) = <<>>
    <3>1. Tail(requests) \in Seq(Request) /\ Len(Tail(requests)) = 0
      BY <1>1, <2>1
    <3>2. \A q \in Seq(Request) : Len(q) = 0 => q = <<>>
      OBVIOUS
    <3>3. Head(requests) = requests[1]
      BY <1>1, <2>1
    <3>4. QED BY <3>1, <3>2, <3>3
  <2>4. QED BY <1>2, <2>1, <2>2, <2>3 DEF Voltage
<1>6. ASSUME requests = <<>>
      PROVE  \A e : e \in Orders <=> e \in InLine /\ e.kind \in {"press", "signal"}
  <2>1. Len(requests) = 0
    BY <1>6
  <2>2. QED BY <2>1 DEF Orders
<1>7. ASSUME NEW e \in InLine, e.kind \in {"press", "signal"}
      PROVE  queue = <<e>> /\ queue # <<>> /\ Head(queue) = e /\ Tail(queue) = <<>> /\ InLine = {e}
             /\ Voltage = {}
  <2>1. queue = <<e>>
    BY <1>7 DEF Alone
  <2>2. queue # <<>> /\ Head(queue) = e /\ Tail(queue) = <<>> /\ Len(queue) = 1 /\ queue[1] = e
    BY <2>1
  <2>3. \A f : f \in InLine <=> f = e
    BY <2>2 DEF InLine
  <2>4. QED BY <1>7, <2>1, <2>2, <2>3 DEF Voltage
<1>8. ASSUME queue # <<>> PROVE requests = <<>> /\ Head(queue) \in InLine
  <2>1. requests = <<>>
    BY <1>8 DEF Alone
  <2>2. Len(queue) \in Nat /\ Len(queue) > 0 /\ Head(queue) = queue[1]
    BY <1>1, <1>8
  <2>3. Head(queue) \in InLine
    BY <2>2 DEF InLine
  <2>4. QED BY <2>1, <2>3
<1>9. \A e \in Orders : e \in Request
  BY <1>1, <1>3 DEF Orders, Request
<1>10. ASSUME NEW e \in Orders PROVE Orders = {e} /\ Voltage = {}
  <2>1. CASE requests # <<>>
    BY <1>5, <1>10, <2>1
  <2>2. CASE requests = <<>>
    BY <1>6, <1>7, <1>10, <2>2
  <2>3. QED BY <2>1, <2>2
<1>11. ASSUME queue # <<>>
       PROVE  /\ (Head(queue).kind = "volt" => Orders = {} /\ Head(queue) \in Voltage)
              /\ (Head(queue).kind = "load" => Orders = {})
              /\ (Head(queue).kind \in {"press", "signal"} =>
                    Orders = {Head(queue)} /\ Voltage = {} /\ Tail(queue) = <<>>)
  <2>1. \A e \in Orders : e.kind \in {"press", "signal"} /\ e = Head(queue)
    BY <1>6, <1>7, <1>8, <1>11
  <2>2. Head(queue).kind \in {"volt", "load"} => Orders = {}
    BY <2>1
  <2>3. Head(queue).kind = "volt" => Head(queue) \in Voltage
    BY <1>8, <1>11 DEF Voltage
  <2>4. Head(queue).kind \in {"press", "signal"} =>
          Orders = {Head(queue)} /\ Voltage = {} /\ Tail(queue) = <<>>
    BY <1>6, <1>7, <1>8, <1>10, <1>11
  <2>5. QED BY <2>2, <2>3, <2>4
<1>12. requests = <<>> /\ queue = <<>> => Orders = {} /\ Voltage = {}
  BY <1>2, <1>6 DEF Voltage
<1>13. QED BY <1>4, <1>5, <1>8, <1>9, <1>10, <1>11, <1>12

-----------------------------------------------------------------------------
\* Steps.

\* An asset that is no server passes on what it puts out now.
LEMMA PassedOn ==
  ASSUME Steady, SInv, TInv', NEW a \in Asset \ Servers, NEW r, NEW h, h.asset = a,
         Voltage' = (Voltage \ {h}) \cup Told(a, r),
         r.out = Pair(OutVolt(a), OutVolt(a)'),
         \A b \in Asset \ {a} : status'[b] = status[b] /\ volt'[b] = volt[b],
         vm' = vm, wall' = wall, Orders' = {},
         \A e \in Orders : e.kind # "wall" /\ e.asset = a,
         \A o \in Off \ {a} : o \in Off',
         \A o \in Off' \ {a} : o \in Off /\ a \notin Above[o],
         \A e \in Voltage \ {h} : a \notin Way(e) /\ e.asset # a /\ e.asset \notin Above[a],
         volt'[a] \in Volts \cup {0},
         a \in Mains => volt'[a] = wall,
         \A p \in Parents[a] : volt'[a] = OutVolt(p),
         status'[a] = 1 => volt'[a] # 0,
         status'[a] = 0 => volt'[a] = 0 \/ a \in Off',
         (\E b \in Asset : status[b] = 1 /\ volt[b] = 0) => status'[a] = 1
  PROVE  /\ Levels' /\ FollowMains' /\ FollowParents' /\ Wave' /\ Aside'
         /\ ColdStart' /\ OffForAReason' /\ Fed' /\ HighestFed' /\ VmFollows'
<1>1. /\ TInv /\ Alone /\ Levels /\ FollowMains /\ FollowParents /\ Wave /\ Aside
      /\ ColdStart /\ OffForAReason /\ Fed /\ HighestFed /\ VmFollows
  BY DEF SInv
<1>2. /\ a \in Asset /\ a \notin Servers /\ Children(a) \subseteq Asset
      /\ \A c \in Children(a) : a \in Parents[c] /\ c # a /\ c \notin Mains /\ a \in Above[c]
      /\ \A c \in Asset : a \in Parents[c] => c \in Children(a)
      /\ \A s \in Servers : s \in Asset /\ s # a /\ s \notin Mains /\ Parents[s] # {}
      /\ \A b \in Asset : \A p \in Parents[b] : p \in Asset /\ p \notin Servers
      /\ \A m \in Mains : m \in Asset /\ Parents[m] = {}
  <2>1. a \in Asset /\ a \notin Servers /\ Children(a) \subseteq Asset
    BY Constants
  <2>2. \A c \in Children(a) : a \in Parents[c] /\ c # a /\ c \notin Mains /\ a \in Above[c]
    <3> SUFFICES ASSUME NEW c \in Children(a)
                 PROVE  a \in Parents[c] /\ c # a /\ c \notin Mains /\ a \in Above[c]
      OBVIOUS
    <3>1. c \in Asset /\ a \in Parents[c] /\ c # a
      BY <2>1, OneParent
    <3>2. QED BY <3>1, OneParent, AboveIs
  <2>3. \A s \in Servers : s \in Asset /\ s # a /\ s \notin Mains /\ Parents[s] # {}
    BY <2>1 DEF Steady, Servers, Mains
  <2>4. \A m \in Mains : m \in Asset /\ Parents[m] = {}
    BY DEF Mains
  <2>5. \A b \in Asset : \A p \in Parents[b] : p \in Asset /\ p \notin Servers
    BY OneParent
  <2>6. \A c \in Asset : a \in Parents[c] => c \in Children(a)
    BY DEF Children
  <2>7. QED BY <2>1, <2>2, <2>3, <2>4, <2>5, <2>6
<1>3. \A b \in Asset \ {a} : OutVolt(b)' = OutVolt(b)
  BY DEF OutVolt
<1>4. /\ status'[a] \in {0, 1} /\ volt'[a] \in Nat
      /\ OutVolt(a)' = IF status'[a] = 1 THEN volt'[a] ELSE 0
  <2>1. status'[a] \in {0, 1} /\ volt'[a] \in Nat
    BY <1>2 DEF TInv, TypeOK
  <2>2. QED BY <2>1 DEF OutVolt
<1> DEFINE new == OutVolt(a)'
<1>5. \A e : e \in Told(a, r) <=>
        OutVolt(a) # new /\ \E c \in Children(a) : e = VoltEvent(c, a, r.out)
  BY DEF Told, Same, Pair
<1>6. \A e \in Told(a, r) : /\ e.asset \in Children(a) /\ e.src = a /\ OutVolt(a) # new
                            /\ e.upd.old = OutVolt(a) /\ e.upd.new = new /\ e.kind = "volt"
                            /\ e.asset # a /\ Way(e) = {a} \cup Above[a]
  <2> SUFFICES ASSUME NEW c \in Children(a), OutVolt(a) # new, NEW e, e = VoltEvent(c, a, r.out)
               PROVE  /\ e.asset \in Children(a) /\ e.src = a /\ OutVolt(a) # new
                      /\ e.upd.old = OutVolt(a) /\ e.upd.new = new /\ e.kind = "volt"
                      /\ e.asset # a /\ Way(e) = {a} \cup Above[a]
    BY <1>5
  <2>1. e.asset = c /\ e.src = a /\ e.kind = "volt" /\ e.upd = r.out
    BY DEF VoltEvent
  <2>2. e.upd.old = OutVolt(a) /\ e.upd.new = new
    BY <2>1 DEF Pair
  <2>3. QED BY <1>2, <2>1, <2>2 DEF Way
<1>7. \A c \in Children(a) : OutVolt(a) # new => \E e \in Voltage' : e.asset = c /\ e.src = a
  <2> SUFFICES ASSUME NEW c \in Children(a), OutVolt(a) # new
               PROVE  \E e \in Voltage' : e.asset = c /\ e.src = a
    OBVIOUS
  <2>1. VoltEvent(c, a, r.out) \in Voltage'
    BY <1>5
  <2>2. QED BY <2>1 DEF VoltEvent
<1>8. \A e \in Voltage : e.asset # a => e \in Voltage'
  OBVIOUS
<1>9. \A e \in Voltage' : \/ e \in Voltage /\ e # h /\ e.asset # a /\ e.asset \notin Above[a]
                             /\ a \notin Way(e) /\ e.src # a /\ e.asset \in Asset
                          \/ e \in Told(a, r)
  <2> SUFFICES ASSUME NEW e \in Voltage \ {h}
               PROVE  e.asset # a /\ e.asset \notin Above[a] /\ a \notin Way(e) /\ e.src # a /\ e.asset \in Asset
    OBVIOUS
  <2>1. e.asset # a /\ e.asset \notin Above[a] /\ a \notin Way(e)
    OBVIOUS
  <2>2. QED BY <1>1, <2>1, OneOrder DEF Way
<1> HIDE DEF new
<1>10. new \in Volts \cup {0}
  BY <1>4 DEF new
<1>11. Levels'
  <2>1. \A b \in Asset : volt'[b] \in Volts \cup {0}
    BY <1>1 DEF Levels
  <2>2. ASSUME NEW e \in Voltage'
        PROVE  /\ e.upd.new \in Volts \cup {0}
               /\ e.src \in Parents[e.asset] \/ (e.asset \in Mains /\ e.src = e.asset)
    <3>1. CASE e \in Voltage
      BY <1>1, <3>1 DEF Levels
    <3>2. CASE e \in Told(a, r)
      BY <1>2, <1>6, <1>10, <3>2
    <3>3. QED BY <1>9, <3>1, <3>2
  <2>3. QED BY <2>1, <2>2 DEF Levels
<1>12. FollowMains'
  <2> SUFFICES ASSUME NEW m \in Mains
               PROVE  /\ \A e \in Voltage' : e.asset = m => e.upd.new = wall
                      /\ Awaits(m, m)' \/ volt'[m] = wall
    BY DEF FollowMains
  <2>1. (\A e \in Voltage : e.asset = m => e.upd.new = wall) /\ (Awaits(m, m) \/ volt[m] = wall)
    BY <1>1 DEF FollowMains
  <2>2. \A e \in Voltage' : e.asset = m => e.upd.new = wall
    BY <1>2, <1>6, <1>9, <2>1
  <2>3. CASE m = a
    BY <2>2, <2>3
  <2>4. CASE m # a
    BY <1>2, <1>8, <2>1, <2>2, <2>4 DEF Awaits
  <2>5. QED BY <2>3, <2>4
<1>13. FollowParents'
  <2> SUFFICES ASSUME NEW b \in Asset, NEW p \in Parents[b]
               PROVE  /\ \A e \in Voltage' : e.asset = b /\ e.src = p => e.upd.new = OutVolt(p)'
                      /\ b \in Servers \/ Awaits(b, p)' \/ volt'[b] = OutVolt(p)'
    BY DEF FollowParents
  <2>1. /\ \A e \in Voltage : e.asset = b /\ e.src = p => e.upd.new = OutVolt(p)
        /\ b \in Servers \/ Awaits(b, p) \/ volt[b] = OutVolt(p)
    BY <1>1 DEF FollowParents
  <2>2. p \in Asset
    BY <1>2
  <2>3. ASSUME NEW e \in Voltage', e.asset = b, e.src = p PROVE e.upd.new = OutVolt(p)'
    <3>1. CASE e \in Voltage /\ e.src # a
      BY <1>3, <2>1, <2>2, <2>3, <3>1
    <3>2. CASE e \in Told(a, r)
      BY <1>6, <2>3, <3>2 DEF new
    <3>3. QED BY <1>9, <3>1, <3>2
  <2>4. ASSUME b \notin Servers PROVE Awaits(b, p)' \/ volt'[b] = OutVolt(p)'
    <3>1. CASE b = a
      <4>1. p # a
        BY <3>1 DEF Steady
      <4>2. QED BY <1>3, <2>2, <3>1, <4>1
    <3>2. CASE b # a /\ p = a /\ OutVolt(a) # new
      <4>1. b \in Children(a)
        BY <1>2, <3>2
      <4>2. QED BY <1>7, <3>2, <4>1 DEF Awaits
    <3>3. CASE b # a /\ (p # a \/ OutVolt(a) = new)
      <4>1. OutVolt(p)' = OutVolt(p)
        BY <1>3, <2>2, <3>3 DEF new
      <4>2. QED BY <1>8, <2>1, <2>4, <3>3, <4>1 DEF Awaits
    <3>4. QED BY <3>1, <3>2, <3>3
  <2>5. QED BY <2>3, <2>4
<1>14. Wave'
  <2> SUFFICES ASSUME NEW e \in Voltage', NEW f \in Voltage', e.asset \in Way(f) PROVE FALSE
    BY DEF Wave, Way
  <2>1. CASE e \in Voltage /\ f \in Voltage
    BY <1>1, <2>1 DEF Wave
  <2>2. CASE e \in Voltage /\ e.asset # a /\ e.asset \notin Above[a] /\ f \in Told(a, r)
    BY <1>6, <2>2
  <2>3. CASE e \in Told(a, r) /\ f \in Voltage /\ a \notin Way(f)
    <3>1. e.asset \in Asset /\ a \in Parents[e.asset] /\ a \in Above[e.asset]
      BY <1>2, <1>6, <2>3
    <3>2. f.src \in Asset
      BY <1>1, <2>3, OneOrder
    <3>3. Way(f) = {f.src} \cup Above[f.src]
      BY <2>3 DEF Way
    <3>4. a \in Above[f.src]
      BY <3>1, <3>2, <3>3, AboveIs
    <3>5. QED BY <2>3, <3>3, <3>4
  <2>4. CASE e \in Told(a, r) /\ f \in Told(a, r)
    <3>1. e.asset \in Asset /\ a \in Above[e.asset] /\ e.asset # a /\ e.asset \in Above[a]
      BY <1>2, <1>6, <2>4
    <3>2. QED BY <1>2, <3>1, AboveIs
  <2>5. QED BY <1>9, <2>1, <2>2, <2>3, <2>4
<1>15. Aside'
  <2> SUFFICES ASSUME NEW e \in Voltage', NEW o \in Off', e.asset = o \/ e.asset \in Above[o]
               PROVE  FALSE
    BY DEF Aside
  <2>1. o \in Asset
    BY Constants DEF TInv, TypeOK, Off
  <2>2. CASE e \in Voltage /\ e.asset # a /\ e.asset \notin Above[a]
    <3>1. o # a
      BY <2>2
    <3>2. QED BY <1>1, <2>2, <3>1 DEF Aside
  <2>3. CASE e \in Told(a, r)
    <3>1. e.asset \in Asset /\ a \in Parents[e.asset] /\ a \in Above[e.asset] /\ e.asset # a
      BY <1>2, <1>6, <2>3
    <3>2. CASE o = a
      BY <1>2, <3>1, <3>2, AboveIs
    <3>3. CASE o # a
      <4>1. a \in Above[o]
        BY <2>1, <3>1, AboveIs
      <4>2. QED BY <3>3, <4>1
    <3>4. QED BY <3>2, <3>3
  <2>4. QED BY <1>9, <2>2, <2>3
<1>16. ColdStart'
  <2>1. CASE \A b \in Asset : status[b] = 1 => volt[b] # 0
    <3>1. \A b \in Asset : status'[b] = 1 => volt'[b] # 0
      BY <2>1
    <3>2. QED BY <3>1 DEF ColdStart
  <2>2. CASE \E b \in Asset : status[b] = 1 /\ volt[b] = 0
    <3>1. wall # 0 /\ (\A b \in Asset : status[b] = 1) /\ \A e \in Voltage : e.upd.new # 0
      BY <1>1, <2>2 DEF ColdStart
    <3>2. new # 0 /\ \A b \in Asset : status'[b] = 1
      BY <1>4, <2>2, <3>1 DEF new
    <3>3. \A e \in Voltage' : e.upd.new # 0
      BY <1>6, <1>9, <3>1, <3>2
    <3>4. QED BY <3>1, <3>2, <3>3 DEF ColdStart
  <2>3. QED BY <2>1, <2>2
<1>17. OffForAReason'
  <2> SUFFICES ASSUME NEW b \in Asset, status'[b] = 0, volt'[b] # 0
               PROVE  b \in Off' \/ (b \in Servers /\ \E e \in Voltage' : e.asset = b /\ e.upd.new # 0)
    BY DEF OffForAReason
  <2>1. CASE b = a
    BY <2>1
  <2>2. CASE b # a
    <3>1. status[b] = 0 /\ volt[b] # 0
      BY <2>2
    <3>2. b \in Off \/ (b \in Servers /\ \E e \in Voltage : e.asset = b /\ e.upd.new # 0)
      BY <1>1, <2>2, <3>1 DEF OffForAReason
    <3>3. QED BY <1>8, <2>2, <3>2
  <2>3. QED BY <2>1, <2>2
<1>18. Fed'
  <2> SUFFICES ASSUME NEW s \in Servers, s \notin Off', status'[s] = 0
               PROVE  /\ \A p \in Parents[s] : OutVolt(p)' = 0 \/ Awaits(s, p)'
                      /\ \A e \in Voltage' : e.asset = s /\ e.upd.new # 0 => e.upd.old = 0
    BY DEF Fed
  <2>1. s \in Asset /\ s # a /\ s \notin Off /\ status[s] = 0
    BY <1>2
  <2>2. /\ \A p \in Parents[s] : OutVolt(p) = 0 \/ Awaits(s, p)
        /\ \A e \in Voltage : e.asset = s /\ e.upd.new # 0 => e.upd.old = 0
    BY <1>1, <2>1 DEF Fed
  <2>3. ASSUME NEW p \in Parents[s] PROVE OutVolt(p)' = 0 \/ Awaits(s, p)'
    <3>1. p \in Asset
      BY <1>2, <2>1
    <3>2. CASE p = a /\ OutVolt(a) # new
      <4>1. s \in Children(a)
        BY <1>2, <2>1, <3>2
      <4>2. QED BY <1>7, <3>2, <4>1 DEF Awaits
    <3>3. CASE p # a \/ OutVolt(a) = new
      <4>1. OutVolt(p)' = OutVolt(p)
        BY <1>3, <3>1, <3>3 DEF new
      <4>2. QED BY <1>8, <2>1, <2>2, <4>1 DEF Awaits
    <3>4. QED BY <3>2, <3>3
  <2>4. ASSUME NEW e \in Voltage', e.asset = s, e.upd.new # 0 PROVE e.upd.old = 0
    <3>1. CASE e \in Voltage
      BY <2>2, <2>4, <3>1
    <3>2. CASE e \in Told(a, r)
      <4>1. a \in Parents[s] /\ e.upd.old = OutVolt(a)
        BY <1>2, <1>6, <2>4, <3>2
      <4>2. ASSUME Awaits(s, a) PROVE FALSE
        <5>1. PICK f \in Voltage : f.asset = s /\ f.src = a
          BY <4>2 DEF Awaits
        <5>2. f # h /\ a \in Way(f)
          BY <2>1, <5>1 DEF Way
        <5>3. QED BY <5>2
      <4>3. QED BY <2>2, <4>1, <4>2
    <3>3. QED BY <1>9, <3>1, <3>2
  <2>5. QED BY <2>3, <2>4
<1>19. HighestFed'
  <2> SUFFICES ASSUME NEW s \in Servers, \A e \in Voltage' : e.asset # s, Equal(s)'
               PROVE  Highest(s)'
    BY DEF HighestFed
  <2>1. s \in Asset /\ s # a /\ volt'[s] = volt[s] /\ Parents[s] # {} /\ Parents[s] \subseteq Asset
    BY <1>2
  <2>2. \A e \in Voltage : e.asset # s
    BY <1>8, <2>1
  <2>3. \A p \in Parents[s] : OutVolt(p)' = OutVolt(p)
    <3> SUFFICES ASSUME NEW p \in Parents[s] PROVE OutVolt(p)' = OutVolt(p)
      OBVIOUS
    <3>1. CASE p = a
      <4>1. s \in Children(a)
        BY <1>2, <2>1, <3>1
      <4>2. QED BY <1>7, <3>1, <4>1 DEF new
    <3>2. CASE p # a
      BY <1>3, <2>1, <3>2
    <3>3. QED BY <3>1, <3>2
  <2>4. Equal(s)
    BY <2>3 DEF Equal
  <2>5. Highest(s)
    BY <1>1, <2>2, <2>4 DEF HighestFed
  <2>6. Supply(s)' = Supply(s)
    <3>1. Supply(s) = {OutVolt(p) : p \in Parents[s]} /\ Supply(s)' = {OutVolt(p)' : p \in Parents[s]}
      BY <2>1 DEF Supply
    <3>2. \A v : v \in {OutVolt(p)' : p \in Parents[s]} <=> v \in {OutVolt(p) : p \in Parents[s]}
      BY <2>3
    <3>3. QED BY <3>1, <3>2
  <2>7. volt[s] \in Supply(s) /\ \A v \in Supply(s) : v <= volt[s]
    BY <2>5 DEF Highest
  <2>8. volt'[s] \in Supply(s)' /\ \A v \in Supply(s)' : v <= volt'[s]
    BY <2>1, <2>6, <2>7
  <2>9. QED BY <2>8 DEF Highest
<1>20. VmFollows'
  <2> SUFFICES ASSUME NEW s \in Servers PROVE s \in vm' <=> status'[s] = 1
    BY DEF VmFollows
  <2>1. s \in Asset /\ s # a
    BY <1>2
  <2>2. QED BY <1>1, <2>1 DEF VmFollows
<1>21. QED BY <1>11, <1>12, <1>13, <1>14, <1>15, <1>16, <1>17, <1>18, <1>19, <1>20

\* The events an answer adds leave one thing to do.
LEMMA Answered ==
  ASSUME Steady, SInv, queue # <<>>, NEW a \in Asset, NEW r, AnswerOK(a, r),
         queue' = Tail(queue) \o Fired(a, r), requests' = requests, dead' = FALSE,
         \A e \in Voltage \ {Head(queue)} : a \notin Way(e)
  PROVE  /\ Voltage' = (Voltage \ {Head(queue)}) \cup Told(a, r)
         /\ Once(queue)' /\ Alone' /\ Orders' = {} /\ requests = <<>>
<1> DEFINE F == Fired(a, r)
           h == Head(queue)
<1>1. TInv /\ Alone /\ Once(queue)
  BY DEF SInv
<1>2. /\ F \in Seq(Event) /\ Once(F)
      /\ \A i \in 1 .. Len(F) : F[i].kind \in {"volt", "load"}
      /\ {e \in {F[i] : i \in 1 .. Len(F)} : e.kind = "volt"} = Told(a, r)
  BY <1>1, FiredIs
<1>3. ASSUME NEW i \in 1 .. Len(F), F[i].kind = "volt", NEW e \in Voltage \ {h}
      PROVE  e.asset # F[i].asset \/ e.src # F[i].src
  <2>1. F[i] \in Told(a, r)
    BY <1>2, <1>3
  <2>2. F[i].src = a /\ F[i].asset \in Children(a)
    BY <2>1 DEF Told, VoltEvent
  <2>3. F[i].asset # a
    BY <2>2, OneParent
  <2>4. ASSUME e.asset = F[i].asset, e.src = F[i].src PROVE FALSE
    BY <2>2, <2>3, <2>4 DEF Way
  <2>5. QED BY <2>4
<1> HIDE DEF F, h
<1>4. requests = <<>>
  BY <1>1, OneOrder
<1>5. /\ Voltage' = (Voltage \ {h}) \cup Told(a, r)
      /\ Once(queue') /\ \A e \in InLine' : e.kind \in {"volt", "load"}
  <2>1. queue' = Tail(queue) \o F
    BY DEF F
  <2>2. \A i \in 1 .. Len(F) : \A e \in Voltage \ {Head(queue)} :
          F[i].kind = "volt" => e.asset # F[i].asset \/ e.src # F[i].src
    BY <1>3 DEF h
  <2>3. /\ Voltage' = (Voltage \ {Head(queue)})
                        \cup {e \in {F[i] : i \in 1 .. Len(F)} : e.kind = "volt"}
        /\ Once(queue')
        /\ \A e \in InLine' : e.kind \in {"volt", "load"}
    BY <1>1, <1>2, <2>1, <2>2, Enqueued
  <2>4. QED BY <1>2, <2>3 DEF h
<1>6. Alone'
  BY <1>4, <1>5 DEF Alone
<1>7. Orders' = {}
  <2>1. requests' = <<>> /\ Len(requests') = 0
    BY <1>4
  <2>2. \A e \in InLine' : e.kind \notin {"press", "signal"}
    BY <1>5
  <2>3. {requests'[i] : i \in 1 .. Len(requests')} = {}
    BY <2>1
  <2>4. QED BY <2>2, <2>3 DEF Orders
<1>8. Once(queue)'
  BY <1>5 DEF Once
<1>9. QED BY <1>4, <1>5, <1>6, <1>7, <1>8 DEF h

\* What a voltage event finds: its asset is not switched off, and can be fed if
\* there is voltage.
LEMMA VoltageFinds ==
  ASSUME Steady, SInv, HandleVoltage, NEW h, h = Head(queue)
  PROVE  /\ h \in Voltage /\ Orders = {} /\ requests = <<>> /\ h.asset \in Asset \ Servers
         /\ h.src \in Asset /\ h.upd.new \in Volts \cup {0} /\ h.upd.new \in Nat
         /\ h.asset \notin Off
         /\ h.asset \in Mains => h.src = h.asset /\ h.upd.new = wall
         /\ h.asset \notin Mains => h.src \in Parents[h.asset]
         /\ \A p \in Parents[h.asset] :
              p = h.src /\ p \in Asset /\ h.upd.new = OutVolt(p) /\ p # h.asset
         /\ h.upd.new # 0 => ParentsAvailable(h.asset)
<1> DEFINE a == h.asset
           new == h.upd.new
<1>1. queue # <<>> /\ h.kind = "volt" /\ Kind[a] # "server"
  BY DEF HandleVoltage
<1>2. /\ TInv /\ Alone /\ Levels /\ FollowMains /\ FollowParents /\ Wave /\ Aside /\ ColdStart
      /\ Once(queue) /\ dead = FALSE
  BY DEF SInv, Alone
<1>3. /\ h \in Voltage /\ Orders = {} /\ requests = <<>> /\ a \in Asset \ Servers
      /\ h.src \in Asset /\ new \in Volts \cup {0} /\ new \in Nat
  <2>1. h \in Voltage /\ Orders = {} /\ requests = <<>> /\ a \in Asset /\ h.src \in Asset
    BY <1>1, <1>2, OneOrder
  <2>2. new \in Volts \cup {0}
    BY <1>2, <2>1 DEF Levels
  <2>3. a \notin Servers
    BY <1>1 DEF Servers
  <2>4. new \in Nat
    <3> HIDE DEF new
    <3>1. QED BY <2>2, Constants
  <2>5. QED BY <2>1, <2>2, <2>3, <2>4
<1>4. a \notin Off
  BY <1>2, <1>3 DEF Aside
<1>5. a \in Mains => h.src = a /\ new = wall
  <2> SUFFICES ASSUME a \in Mains PROVE h.src = a /\ new = wall
    OBVIOUS
  <2>1. Parents[a] = {}
    BY <1>3, OneParent
  <2>2. h.src = a
    BY <1>2, <1>3, <2>1 DEF Levels
  <2>3. QED BY <1>2, <1>3, <2>2 DEF FollowMains
<1>6. a \notin Mains => h.src \in Parents[a]
  BY <1>2, <1>3 DEF Levels
<1>7. \A p \in Parents[a] : p = h.src /\ p \in Asset /\ new = OutVolt(p) /\ p # a
  <2> SUFFICES ASSUME NEW p \in Parents[a] PROVE p = h.src /\ p \in Asset /\ new = OutVolt(p) /\ p # a
    OBVIOUS
  <2>1. a \notin Mains
    BY <1>3, OneParent
  <2>2. p = h.src
    BY <1>3, <1>6, <2>1, OneParent
  <2>3. QED BY <1>2, <1>3, <2>2 DEF FollowParents, Steady
<1>8. new # 0 => ParentsAvailable(a)
  <2> SUFFICES ASSUME new # 0 PROVE ParentsAvailable(a)
    OBVIOUS
  <2>1. CASE a \in Mains
    BY <1>3, <1>5, <2>1, OneParent DEF ParentsAvailable
  <2>2. CASE a \notin Mains
    <3>1. h.src \in Parents[a] /\ OutVolt(h.src) = new
      BY <1>6, <1>7, <2>2
    <3>2. new > MinVoltage[a]
      BY <1>3 DEF Steady
    <3>3. status[h.src] = 1
      BY <1>2, <1>3, <3>1, OutVoltIsNat DEF TInv, TypeOK
    <3>4. a \notin oidOff
      BY <1>4 DEF Off
    <3>5. QED BY <3>1, <3>2, <3>3, <3>4 DEF ParentsAvailable
  <2>3. QED BY <2>1, <2>2
<1>9. QED BY <1>3, <1>4, <1>5, <1>6, <1>7, <1>8

\* A voltage event reaches an asset that is no server.
LEMMA VoltageStep ==
  ASSUME Steady, SInv, HandleVoltage
  PROVE  SInv'
<1>0. PICK h : h = Head(queue)
  OBVIOUS
<1> DEFINE a == h.asset
           new == h.upd.new
           r == OnInputVoltage(a, new)
<1>1. /\ queue # <<>> /\ h.kind = "volt" /\ Kind[a] # "server" /\ Settle(a, r)
      /\ userOff' = IF r.status # status[a] THEN userOff \ {a} ELSE userOff
      /\ UNCHANGED <<vm, oidOff, wall, requests, dead>>
  BY <1>0 DEF HandleVoltage
<1>2. /\ TInv /\ Alone /\ Levels /\ FollowMains /\ FollowParents /\ Wave /\ Aside /\ ColdStart
      /\ Once(queue) /\ dead = FALSE
  BY DEF SInv, Alone
<1>3. /\ h \in Voltage /\ Orders = {} /\ requests = <<>> /\ a \in Asset \ Servers
      /\ h.src \in Asset /\ new \in Volts \cup {0} /\ new \in Nat
  BY <1>0, VoltageFinds
<1>4. a \notin Off
  BY <1>0, VoltageFinds
<1>5. a \in Mains => h.src = a /\ new = wall
  BY <1>0, VoltageFinds
<1>6. a \notin Mains => h.src \in Parents[a]
  BY <1>0, VoltageFinds
<1>7. \A p \in Parents[a] : p = h.src /\ p \in Asset /\ new = OutVolt(p) /\ p # a
  BY <1>0, VoltageFinds
<1>8. new # 0 => ParentsAvailable(a)
  BY <1>0, VoltageFinds
<1>9. /\ r.volt = new /\ r.out = Pair(OutVolt(a), new)
      /\ r.status = IF new = 0 THEN 0 ELSE 1
  BY <1>2, <1>3, <1>4, <1>8, VoltageAnswer
<1>10. AnswerOK(a, r)
  BY <1>2, <1>3, VoltageAnswered
<1>11. TInv'
  <2>1. Next
    BY DEF Next, Loop
  <2>2. QED BY <1>2, <2>1, TInvNext
<1> HIDE DEF r
<1>12. /\ status' = [status EXCEPT ![a] = IF new = 0 THEN 0 ELSE 1]
       /\ volt' = [volt EXCEPT ![a] = new]
       /\ queue' = Tail(queue) \o Fired(a, r)
  BY <1>1, <1>9 DEF Settle
<1>13. /\ status'[a] = (IF new = 0 THEN 0 ELSE 1) /\ volt'[a] = new
       /\ \A b \in Asset \ {a} : status'[b] = status[b] /\ volt'[b] = volt[b]
  BY <1>2, <1>3, <1>12 DEF TInv, TypeOK
<1>14. OutVolt(a)' = new
  <2>1. OutVolt(a)' = volt'[a] * status'[a]
    BY DEF OutVolt
  <2>2. new * 0 = 0 /\ new * 1 = new
    BY <1>3
  <2> HIDE DEF new
  <2>3. QED BY <1>13, <2>1, <2>2
<1>15. Off' = Off
  BY <1>1, <1>4 DEF Off
<1>16. ASSUME NEW e \in Voltage \ {h}
       PROVE  a \notin Way(e) /\ e.asset # a /\ e.asset \notin Above[a]
  <2>1. a \notin Way(e) /\ e.asset \notin Way(h)
    BY <1>2, <1>3 DEF Wave
  <2>2. CASE a \in Mains
    <3>1. Above[a] = {}
      <4>1. Parents[a] = {}
        BY <1>3, <2>2, OneParent
      <4>2. QED BY <1>3, <4>1, AboveIs
    <3>2. ASSUME e.asset = a PROVE FALSE
      <4>1. e.src = a
        <5>1. Parents[a] = {}
          BY <1>3, <2>2, OneParent
        <5>2. QED BY <1>2, <3>2, <5>1 DEF Levels
      <4>2. PICK i \in 1 .. Len(queue) : e = queue[i]
        BY DEF Voltage, InLine
      <4>3. PICK j \in 1 .. Len(queue) : h = queue[j]
        BY <1>3 DEF Voltage, InLine
      <4>4. e.kind = "volt" /\ h.kind = "volt"
        BY <1>3 DEF Voltage
      <4>5. h.src = a
        BY <1>5, <2>2
      <4>6. i = j
        BY <1>2, <3>2, <4>1, <4>2, <4>3, <4>4, <4>5 DEF Once
      <4>7. QED BY <4>2, <4>3, <4>6
    <3>3. QED BY <2>1, <3>1, <3>2
  <2>3. CASE a \notin Mains
    <3>1. h.src \in Parents[a] /\ h.src # a
      BY <1>6, <1>7, <2>3
    <3>2. Way(h) = {h.src} \cup Above[h.src]
      BY <3>1 DEF Way
    <3>3. Above[a] \subseteq Way(h)
      <4>1. \A u \in Above[a] : \E p \in Parents[a] : u \in {p} \cup Above[p]
        BY <1>3, AboveIs
      <4>2. QED BY <1>7, <3>2, <4>1
    <3>4. ASSUME e.asset = a PROVE FALSE
      <4>1. e.src \in Parents[a]
        BY <1>2, <2>3, <3>4 DEF Levels
      <4>2. e.src = h.src
        BY <1>7, <4>1
      <4>3. PICK i \in 1 .. Len(queue) : e = queue[i]
        BY DEF Voltage, InLine
      <4>4. PICK j \in 1 .. Len(queue) : h = queue[j]
        BY <1>3 DEF Voltage, InLine
      <4>5. e.kind = "volt" /\ h.kind = "volt"
        BY <1>3 DEF Voltage
      <4>6. i = j
        BY <1>2, <3>4, <4>2, <4>3, <4>4, <4>5 DEF Once
      <4>7. QED BY <4>3, <4>4, <4>6
    <3>5. QED BY <2>1, <3>3, <3>4
  <2>4. QED BY <2>2, <2>3
<1>17. /\ Voltage' = (Voltage \ {h}) \cup Told(a, r)
       /\ Once(queue)' /\ Alone' /\ Orders' = {}
  <2>1. requests' = requests /\ dead' = FALSE
    BY <1>1, <1>2
  <2>2. \A e \in Voltage \ {Head(queue)} : a \notin Way(e)
    BY <1>0, <1>16
  <2>3. a \in Asset
    BY <1>3
  <2> HIDE DEF a
  <2>4. QED BY <1>0, <1>1, <1>10, <1>12, <2>1, <2>2, <2>3, Answered
<1>18. (\E b \in Asset : status[b] = 1 /\ volt[b] = 0) => status'[a] = 1
  BY <1>2, <1>3, <1>13 DEF ColdStart
<1>19. /\ \A o \in Off \ {a} : o \in Off'
       /\ \A o \in Off' \ {a} : o \in Off /\ a \notin Above[o]
  BY <1>2, <1>3, <1>15 DEF Aside
<1>20. r.out = Pair(OutVolt(a), OutVolt(a)')
  BY <1>9, <1>14
<1>21. vm' = vm /\ wall' = wall
  BY <1>1
<1>22. /\ volt'[a] \in Volts \cup {0} /\ (a \in Mains => volt'[a] = wall)
       /\ (\A p \in Parents[a] : volt'[a] = OutVolt(p))
       /\ (status'[a] = 1 => volt'[a] # 0) /\ (status'[a] = 0 => volt'[a] = 0 \/ a \in Off')
  BY <1>3, <1>5, <1>7, <1>13
<1>23. \A e \in Orders : e.kind # "wall" /\ e.asset = a
  BY <1>3
<1> HIDE DEF new
<1>24. /\ Levels' /\ FollowMains' /\ FollowParents' /\ Wave' /\ Aside'
       /\ ColdStart' /\ OffForAReason' /\ Fed' /\ HighestFed' /\ VmFollows'
  <2>1. a \in Asset \ Servers
    BY <1>3
  <2>2. \A e \in Voltage \ {h} : a \notin Way(e) /\ e.asset # a /\ e.asset \notin Above[a]
    BY <1>16
  <2>3. h.asset = a
    OBVIOUS
  <2> HIDE DEF a
  <2>4. QED
    BY <1>11, <1>13, <1>17, <1>18, <1>19, <1>20, <1>21, <1>22, <1>23, <2>1, <2>2, <2>3, PassedOn
<1>25. (\A e \in Orders : Entitled(e))'
  BY <1>17
<1>26. QED BY <1>11, <1>17, <1>24, <1>25 DEF SInv

\* What an order finds: nothing is on its way.
LEMMA OrderFindsNothing ==
  ASSUME Steady, SInv, NEW h \in Orders
  PROVE  /\ Voltage = {} /\ Orders = {h} /\ Entitled(h)
         /\ h.kind # "wall" =>
              /\ \A m \in Mains : volt[m] = wall
              /\ \A a \in Asset \ Servers : \A p \in Parents[a] : volt[a] = OutVolt(p)
              /\ \A a \in Asset : status[a] = 1 => volt[a] # 0
              /\ h \in Event /\ h.asset \in Asset
              /\ (h.kind \in {"press", "signal"} => h.upd.new \in {0, 1})
<1>1. Voltage = {} /\ Orders = {h} /\ Entitled(h) /\ h \in Request
  BY OneOrder DEF SInv
<1>2. ASSUME h.kind # "wall"
      PROVE  /\ \A m \in Mains : volt[m] = wall
             /\ \A a \in Asset \ Servers : \A p \in Parents[a] : volt[a] = OutVolt(p)
             /\ \A a \in Asset : status[a] = 1 => volt[a] # 0
             /\ h \in Event /\ h.asset \in Asset
             /\ (h.kind \in {"press", "signal"} => h.upd.new \in {0, 1})
  <2>1. \A a, p : ~Awaits(a, p)
    BY <1>1 DEF Awaits
  <2>2. \A m \in Mains : volt[m] = wall
    BY <1>1, <1>2, <2>1 DEF SInv, FollowMains
  <2>3. \A a \in Asset \ Servers : \A p \in Parents[a] : volt[a] = OutVolt(p)
    BY <2>1 DEF SInv, FollowParents
  <2>4. \A a \in Asset : status[a] = 1 => volt[a] # 0
    BY <1>1, <1>2 DEF SInv, ColdStart
  <2>5. h \in Event
    BY <1>1, <1>2 DEF Request
  <2>6. h.asset \in Asset /\ (h.kind \in {"press", "signal"} => h.upd.new \in {0, 1})
    BY <2>5 DEF Event, Binary
  <2>7. QED BY <2>2, <2>3, <2>4, <2>5, <2>6
<1>3. QED BY <1>1, <1>2

\* An asset that is no server and can be fed has voltage.
LEMMA AvailableHasVoltage ==
  ASSUME Steady, TInv, NEW a \in Asset \ Servers, ParentsAvailable(a),
         a \in Mains => volt[a] = wall, \A p \in Parents[a] : volt[a] = OutVolt(p)
  PROVE  volt[a] # 0
<1>1. CASE Parents[a] = {}
  BY <1>1, OneParent DEF ParentsAvailable
<1>2. CASE Parents[a] # {}
  <2>1. PICK p \in Parents[a] : OutVolt(p) > MinVoltage[a]
    BY <1>2 DEF ParentsAvailable
  <2>2. MinVoltage[a] \in Nat /\ OutVolt(p) \in Nat
    BY Constants, OneParent, OutVoltIsNat DEF TInv
  <2>3. QED BY <2>1, <2>2
<1>3. QED BY <1>1, <1>2

\* A button or an OID switches an asset that is no server.
LEMMA SwitchStep ==
  ASSUME Steady, SInv, HandlePress \/ HandleSignal, Head(queue).asset \notin Servers
  PROVE  SInv'
<1>0. PICK h : h = Head(queue)
  OBVIOUS
<1> DEFINE a == h.asset
           st == h.upd.new
<1>1. /\ TInv /\ Alone /\ dead = FALSE
  BY DEF SInv, Alone
<1>2. queue # <<>> /\ h.kind \in {"press", "signal"}
  BY <1>0 DEF HandlePress, HandleSignal
<1>3. /\ h \in Orders /\ Orders = {h} /\ Voltage = {} /\ Entitled(h) /\ a \in Asset \ Servers
      /\ st \in {0, 1} /\ h.kind # "wall" /\ requests = <<>>
      /\ \A m \in Mains : volt[m] = wall
      /\ \A b \in Asset \ Servers : \A p \in Parents[b] : volt[b] = OutVolt(p)
      /\ \A b \in Asset : status[b] = 1 => volt[b] # 0
  <2>1. Orders = {h} /\ requests = <<>> /\ h.kind # "wall"
    BY <1>0, <1>1, <1>2, OneOrder
  <2>2. h \in Orders
    BY <2>1
  <2>3. QED BY <1>0, <1>2, <2>1, <2>2, OrderFindsNothing
<1>4. /\ status[a] \in {0, 1} /\ volt[a] \in Nat /\ volt[a] \in Volts \cup {0}
      /\ OutVolt(a) \in Nat /\ OutVolt(a) = volt[a] * status[a]
  BY <1>1, <1>3, OutVoltIsNat DEF TInv, TypeOK, SInv, Levels, OutVolt
<1>5. st = 1 => ParentsAvailable(a) /\ volt[a] # 0
  <2> SUFFICES ASSUME st = 1 PROVE ParentsAvailable(a) /\ volt[a] # 0
    OBVIOUS
  <2>1. ParentsAvailable(a)
    BY <1>2, <1>3 DEF Entitled
  <2>2. (a \in Mains => volt[a] = wall) /\ \A p \in Parents[a] : volt[a] = OutVolt(p)
    BY <1>3
  <2>3. QED BY <1>1, <1>3, <2>1, <2>2, AvailableHasVoltage
<1>6. PICK r :
        /\ Settle(a, r) /\ AnswerOK(a, r) /\ UNCHANGED <<vm, oidOff, wall, requests, dead>>
        /\ r.status = st /\ r.volt = volt[a] /\ r.out = Pair(OutVolt(a), st * volt[a])
        /\ userOff' \subseteq userOff \cup {a} /\ userOff \ {a} \subseteq userOff'
        /\ st = 0 => a \in userOff' \cup oidOff'
  <2>1. CASE HandlePress
    <3> DEFINE r == OnPress(a, st)
    <3>1. h.kind = "press" /\ Kind[a] # "server"
      BY <1>0, <1>3, <2>1 DEF HandlePress, Servers
    <3>2. /\ userOff' = IF st = 0 THEN userOff \cup {a} ELSE userOff \ {a}
          /\ Settle(a, r) /\ UNCHANGED <<vm, oidOff, wall, requests, dead>>
      BY <1>0, <2>1, <3>1 DEF HandlePress
    <3>3. AnswerOK(a, r)
      BY <1>1, <1>3, PressAnswered
    <3>4. r.status = st /\ r.volt = volt[a] /\ r.out = Pair((1 - st) * volt[a], st * volt[a])
      BY DEF OnPress, Answer
    <3>5. OutVolt(a) = (1 - st) * volt[a]
      <4>1. status[a] = 1 - st
        BY <1>3, <3>1 DEF Entitled
      <4>2. (1 - st) * volt[a] = volt[a] * (1 - st)
        <5> HIDE DEF st, a
        <5>1. QED BY <1>3, <1>4
      <4>3. QED BY <1>4, <4>1, <4>2
    <3> HIDE DEF r
    <3>6. QED BY <3>2, <3>3, <3>4, <3>5
  <2>2. CASE HandleSignal
    <3> DEFINE r == OnSignal(a, st)
    <3>1. h.kind = "signal"
      BY <1>0, <2>2 DEF HandleSignal
    <3>2. /\ userOff' = userOff \ {a}
          /\ Settle(a, r) /\ UNCHANGED <<vm, oidOff, wall, requests, dead>>
      BY <1>0, <2>2 DEF HandleSignal
    <3>3. AnswerOK(a, r)
      BY <1>1, <1>3, PressAnswered
    <3>4. r.status = st /\ r.volt = volt[a] /\ r.out = Pair(OutVolt(a), st * volt[a])
      BY <1>3, <1>5 DEF OnSignal, Answer
    <3>5. st = 0 => a \in oidOff'
      BY <1>3, <3>1, <3>2 DEF Entitled
    <3> HIDE DEF r
    <3>6. QED BY <3>2, <3>3, <3>4, <3>5
  <2>3. QED BY <2>1, <2>2
<1>7. TInv'
  <2>1. Next
    BY DEF Next, Loop
  <2>2. QED BY <1>1, <2>1, TInvNext
<1>8. /\ status' = [status EXCEPT ![a] = st] /\ volt' = volt
      /\ queue' = Tail(queue) \o Fired(a, r)
  BY <1>1, <1>3, <1>6 DEF Settle, TInv, TypeOK
<1>9. /\ status'[a] = st /\ volt'[a] = volt[a]
      /\ \A b \in Asset \ {a} : status'[b] = status[b] /\ volt'[b] = volt[b]
  BY <1>1, <1>3, <1>8 DEF TInv, TypeOK
<1>10. r.out = Pair(OutVolt(a), OutVolt(a)')
  <2>1. OutVolt(a)' = volt[a] * st
    BY <1>9 DEF OutVolt
  <2>2. volt[a] * st = st * volt[a]
    <3> HIDE DEF st, a
    <3>1. QED BY <1>3, <1>4
  <2>3. QED BY <1>6, <2>1, <2>2
<1>11. /\ \A o \in Off \ {a} : o \in Off'
       /\ \A o \in Off' \ {a} : o \in Off /\ a \notin Above[o]
  <2>1. \A o \in Off \ {a} : a \notin Above[o]
    BY <1>2, <1>3 DEF Entitled
  <2>2. Off \ {a} = Off' \ {a}
    BY <1>6 DEF Off
  <2>3. QED BY <2>1, <2>2
<1>12. /\ Voltage' = (Voltage \ {h}) \cup Told(a, r)
       /\ Once(queue)' /\ Alone' /\ Orders' = {}
  <2>1. requests' = requests /\ dead' = FALSE /\ a \in Asset
    BY <1>1, <1>3, <1>6
  <2>2. \A e \in Voltage \ {Head(queue)} : a \notin Way(e)
    BY <1>3
  <2> HIDE DEF a
  <2>3. QED BY <1>0, <1>2, <1>6, <1>8, <2>1, <2>2, Answered
<1>13. /\ volt'[a] \in Volts \cup {0} /\ (a \in Mains => volt'[a] = wall)
       /\ (\A p \in Parents[a] : volt'[a] = OutVolt(p))
       /\ (status'[a] = 1 => volt'[a] # 0) /\ (status'[a] = 0 => volt'[a] = 0 \/ a \in Off')
  <2>1. status'[a] = 0 => a \in Off'
    BY <1>6, <1>9 DEF Off
  <2>2. QED BY <1>3, <1>4, <1>5, <1>9, <2>1
<1>14. (\E b \in Asset : status[b] = 1 /\ volt[b] = 0) => status'[a] = 1
  BY <1>3
<1>15. \A e \in Orders : e.kind # "wall" /\ e.asset = a
  BY <1>3
<1>16. vm' = vm /\ wall' = wall
  BY <1>6
<1>17. \A e \in Voltage \ {h} : a \notin Way(e) /\ e.asset # a /\ e.asset \notin Above[a]
  BY <1>3
<1>18. /\ Levels' /\ FollowMains' /\ FollowParents' /\ Wave' /\ Aside'
       /\ ColdStart' /\ OffForAReason' /\ Fed' /\ HighestFed' /\ VmFollows'
  <2>1. h.asset = a /\ a \in Asset \ Servers
    BY <1>3
  <2> HIDE DEF a, st
  <2>2. QED
    BY <1>7, <1>9, <1>10, <1>11, <1>12, <1>13, <1>14, <1>15, <1>16, <1>17, <2>1, PassedOn
<1>19. (\A e \in Orders : Entitled(e))'
  BY <1>12
<1>20. QED BY <1>7, <1>12, <1>18, <1>19 DEF SInv

\* Nothing follows from what a server puts out, and what it is told of is what
\* its PSUs put out.
LEMMA ServerSide ==
  ASSUME Steady, TInv, NEW s \in Servers
  PROVE  /\ s \in Asset /\ s \notin Mains /\ Parents[s] # {} /\ Psus(s) = Parents[s]
         /\ Supply(s) = {OutVolt(p) : p \in Parents[s]}
         /\ \A r : Told(s, r) = {}
         /\ \A b \in Asset : s \notin Parents[b] /\ s \notin Above[b]
         /\ \A p \in Parents[s] : p \in Asset /\ p \notin Servers /\ p # s /\ OutVolt(p) \in Nat
         /\ \A p \in Parents[s] : (OutVolt(p) # 0 => p \in OnlinePsus(s))
         /\ \A p \in OnlinePsus(s) : p \in Parents[s] /\ OutVolt(p) = volt[p] /\ status[p] = 1
         /\ PsuOutVoltage(s) \in Nat
         /\ (PsuOutVoltage(s) = 0 /\ OnlinePsus(s) = {})
              \/ \E p \in OnlinePsus(s) : PsuOutVoltage(s) = OutVolt(p)
<1>1. s \in Asset /\ Parents[s] # {} /\ Children(s) = {} /\ s \notin Mains /\ Psus(s) = Parents[s]
  BY DEF Steady, Servers, Mains, Psus
<1>2. Supply(s) = {OutVolt(p) : p \in Parents[s]}
  BY <1>1 DEF Supply
<1>3. \A r : Told(s, r) = {}
  BY <1>1 DEF Told
<1>4. \A b \in Asset : s \notin Parents[b]
  BY <1>1 DEF Children
<1>5. ASSUME NEW b \in Asset, s \in Above[b] PROVE FALSE
  <2> DEFINE S == Asset \ {s}
  <2>1. Parents[b] \subseteq S /\ (\A x \in S : Parents[x] \subseteq S) /\ S \in SUBSET Asset
    BY <1>4, Constants
  <2>2. \A T \in SUBSET Asset :
          (Parents[b] \subseteq T /\ \A x \in T : Parents[x] \subseteq T) => s \in T
    BY <1>5 DEF Above
  <2>3. s \in S
    BY <2>1, <2>2
  <2>4. QED BY <2>3
<1>6. \A p \in Parents[s] : p \in Asset /\ p \notin Servers /\ p # s /\ OutVolt(p) \in Nat
  BY <1>1, OneParent, OutVoltIsNat DEF TInv
<1>7. \A p \in Parents[s] : (OutVolt(p) # 0 => p \in OnlinePsus(s))
  <2> SUFFICES ASSUME NEW p \in Parents[s], OutVolt(p) # 0 PROVE p \in OnlinePsus(s)
    OBVIOUS
  <2>1. status[p] \in {0, 1}
    BY <1>6 DEF TInv, TypeOK
  <2>2. status[p] = 1
    BY <1>6, <2>1, OutVoltIsNat DEF TInv
  <2>3. QED BY <1>1, <2>2 DEF OnlinePsus
<1>8. \A p \in OnlinePsus(s) : p \in Parents[s] /\ OutVolt(p) = volt[p] /\ status[p] = 1
  BY <1>1, <1>6, OutVoltIsNat DEF OnlinePsus, TInv
<1>9. (PsuOutVoltage(s) = 0 /\ OnlinePsus(s) = {})
        \/ \E p \in OnlinePsus(s) : PsuOutVoltage(s) = OutVolt(p)
  BY <1>1, PsuOutVoltageIsNat DEF TInv
<1>10. PsuOutVoltage(s) \in Nat
  BY <1>6, <1>8, <1>9
<1>11. QED BY <1>1, <1>2, <1>3, <1>4, <1>5, <1>6, <1>7, <1>8, <1>9, <1>10

\* Nothing but the state of a server changes, and an event for it may be gone:
\* what holds of the others still does.
LEMMA ServerAlone ==
  ASSUME Steady, SInv, TInv', NEW s \in Servers, NEW h, h.asset = s,
         Voltage' = Voltage \ {h}, Orders' = {},
         \A b \in Asset \ {s} : status'[b] = status[b] /\ volt'[b] = volt[b],
         vm' \ {s} = vm \ {s}, wall' = wall,
         Off \ {s} = Off' \ {s}, Voltage # {} => Off' = Off,
         volt'[s] \in Volts \cup {0},
         \A e \in Orders : e.kind # "wall" /\ e.asset = s,
         status'[s] = 1 => volt'[s] # 0,
         (\E b \in Asset : status[b] = 1 /\ volt[b] = 0) => status'[s] = 1,
         status'[s] = 0 /\ volt'[s] # 0 =>
           s \in Off' \/ \E e \in Voltage' : e.asset = s /\ e.upd.new # 0,
         s \notin Off' /\ status'[s] = 0 =>
           /\ \A p \in Parents[s] : OutVolt(p) = 0 \/ Awaits(s, p)'
           /\ \A e \in Voltage' : e.asset = s /\ e.upd.new # 0 => e.upd.old = 0,
         (\E e \in Voltage' : e.asset = s) \/ ~Equal(s)
           \/ (volt'[s] \in Supply(s) /\ \A v \in Supply(s) : v <= volt'[s]),
         s \in vm' <=> status'[s] = 1
  PROVE  /\ Levels' /\ FollowMains' /\ FollowParents' /\ Wave' /\ Aside'
         /\ ColdStart' /\ OffForAReason' /\ Fed' /\ HighestFed' /\ VmFollows'
<1>1. /\ TInv /\ Alone /\ Levels /\ FollowMains /\ FollowParents /\ Wave /\ Aside
      /\ ColdStart /\ OffForAReason /\ Fed /\ HighestFed /\ VmFollows
  BY DEF SInv
<1>2. /\ s \in Asset /\ s \notin Mains /\ Parents[s] # {}
      /\ \A b \in Asset : s \notin Parents[b]
      /\ \A t \in Servers : t \in Asset /\ Parents[t] # {}
      /\ \A m \in Mains : m \in Asset
      /\ \A b \in Asset : \A p \in Parents[b] : p \in Asset /\ p # s
  <2>1. \A b \in Asset : \A p \in Parents[b] : p \in Asset
    BY OneParent
  <2>2. \A t \in Servers : t \in Asset /\ Parents[t] # {}
    BY <1>1, ServerSide
  <2>3. \A m \in Mains : m \in Asset
    BY DEF Mains
  <2>4. s \in Asset /\ s \notin Mains /\ Parents[s] # {} /\ \A b \in Asset : s \notin Parents[b]
    BY <1>1, ServerSide
  <2>5. QED BY <2>1, <2>2, <2>3, <2>4
<1>3. \A b \in Asset : \A p \in Parents[b] : OutVolt(p)' = OutVolt(p)
  BY <1>2 DEF OutVolt
<1>4. \A e \in Voltage : e.asset # s => e \in Voltage'
  OBVIOUS
<1>5. Voltage' \subseteq Voltage
  OBVIOUS
<1>6. Levels'
  BY <1>1, <1>5 DEF Levels
<1>7. FollowMains'
  <2> SUFFICES ASSUME NEW m \in Mains
               PROVE  /\ \A e \in Voltage' : e.asset = m => e.upd.new = wall
                      /\ Awaits(m, m)' \/ volt'[m] = wall
    BY DEF FollowMains
  <2>1. (\A e \in Voltage : e.asset = m => e.upd.new = wall) /\ (Awaits(m, m) \/ volt[m] = wall)
    BY <1>1 DEF FollowMains
  <2>2. m # s /\ volt'[m] = volt[m]
    BY <1>2
  <2>3. QED BY <1>4, <1>5, <2>1, <2>2 DEF Awaits
<1>8. FollowParents'
  <2> SUFFICES ASSUME NEW b \in Asset, NEW p \in Parents[b]
               PROVE  /\ \A e \in Voltage' : e.asset = b /\ e.src = p => e.upd.new = OutVolt(p)'
                      /\ b \in Servers \/ Awaits(b, p)' \/ volt'[b] = OutVolt(p)'
    BY DEF FollowParents
  <2>1. /\ \A e \in Voltage : e.asset = b /\ e.src = p => e.upd.new = OutVolt(p)
        /\ b \in Servers \/ Awaits(b, p) \/ volt[b] = OutVolt(p)
    BY <1>1 DEF FollowParents
  <2>2. OutVolt(p)' = OutVolt(p)
    BY <1>3
  <2>3. b # s => volt'[b] = volt[b]
    OBVIOUS
  <2>4. QED BY <1>4, <1>5, <2>1, <2>2, <2>3 DEF Awaits
<1>9. Wave'
  BY <1>1, <1>5 DEF Wave, Way
<1>10. Aside'
  BY <1>1, <1>5 DEF Aside
<1>11. ColdStart'
  <2>1. CASE \A b \in Asset : status[b] = 1 => volt[b] # 0
    <3>1. \A b \in Asset : status'[b] = 1 => volt'[b] # 0
      BY <2>1
    <3>2. QED BY <3>1 DEF ColdStart
  <2>2. CASE \E b \in Asset : status[b] = 1 /\ volt[b] = 0
    <3>1. wall # 0 /\ (\A b \in Asset : status[b] = 1) /\ \A e \in Voltage : e.upd.new # 0
      BY <1>1, <2>2 DEF ColdStart
    <3>2. \A b \in Asset : status'[b] = 1
      BY <2>2, <3>1
    <3>3. QED BY <1>5, <3>1, <3>2 DEF ColdStart
  <2>3. QED BY <2>1, <2>2
<1>12. OffForAReason'
  <2> SUFFICES ASSUME NEW b \in Asset, status'[b] = 0, volt'[b] # 0
               PROVE  b \in Off' \/ (b \in Servers /\ \E e \in Voltage' : e.asset = b /\ e.upd.new # 0)
    BY DEF OffForAReason
  <2>1. CASE b = s
    BY <2>1
  <2>2. CASE b # s
    <3>1. status[b] = 0 /\ volt[b] # 0
      BY <2>2
    <3>2. b \in Off \/ (b \in Servers /\ \E e \in Voltage : e.asset = b /\ e.upd.new # 0)
      BY <1>1, <2>2, <3>1 DEF OffForAReason
    <3>3. QED BY <1>4, <2>2, <3>2
  <2>3. QED BY <2>1, <2>2
<1>13. Fed'
  <2> SUFFICES ASSUME NEW t \in Servers, t \notin Off', status'[t] = 0
               PROVE  /\ \A p \in Parents[t] : OutVolt(p)' = 0 \/ Awaits(t, p)'
                      /\ \A e \in Voltage' : e.asset = t /\ e.upd.new # 0 => e.upd.old = 0
    BY DEF Fed
  <2>0. t \in Asset
    BY <1>2
  <2>1. CASE t = s
    BY <1>3, <2>0, <2>1
  <2>2. CASE t # s
    <3>1. t \notin Off /\ status[t] = 0
      BY <2>0, <2>2
    <3>2. /\ \A p \in Parents[t] : OutVolt(p) = 0 \/ Awaits(t, p)
          /\ \A e \in Voltage : e.asset = t /\ e.upd.new # 0 => e.upd.old = 0
      BY <1>1, <3>1 DEF Fed
    <3>3. \A p \in Parents[t] : Awaits(t, p) => Awaits(t, p)'
      BY <1>4, <2>2 DEF Awaits
    <3>4. QED BY <1>3, <1>5, <2>0, <3>2, <3>3
  <2>3. QED BY <2>1, <2>2
<1>14. HighestFed'
  <2> SUFFICES ASSUME NEW t \in Servers, \A e \in Voltage' : e.asset # t, Equal(t)'
               PROVE  Highest(t)'
    BY DEF HighestFed
  <2>1. t \in Asset /\ Parents[t] # {}
    BY <1>2
  <2>2. Equal(t)
    BY <1>3, <2>1 DEF Equal
  <2>3. Supply(t)' = Supply(t)
    <3>1. Supply(t) = {OutVolt(p) : p \in Parents[t]} /\ Supply(t)' = {OutVolt(p)' : p \in Parents[t]}
      BY <2>1 DEF Supply
    <3>2. \A v : v \in {OutVolt(p)' : p \in Parents[t]} <=> v \in {OutVolt(p) : p \in Parents[t]}
      BY <1>3, <2>1
    <3>3. QED BY <3>1, <3>2
  <2>4. volt'[t] \in Supply(t) /\ \A v \in Supply(t) : v <= volt'[t]
    <3>1. CASE t = s
      BY <2>2, <3>1
    <3>2. CASE t # s
      <4>1. \A e \in Voltage : e.asset # t
        BY <1>4, <3>2
      <4>2. Highest(t)
        BY <1>1, <2>2, <4>1 DEF HighestFed
      <4>3. volt'[t] = volt[t]
        BY <2>1, <3>2
      <4>4. QED BY <4>2, <4>3 DEF Highest
    <3>3. QED BY <3>1, <3>2
  <2>5. volt'[t] \in Supply(t)' /\ \A v \in Supply(t)' : v <= volt'[t]
    BY <2>3, <2>4
  <2>6. QED BY <2>5 DEF Highest
<1>15. VmFollows'
  <2> SUFFICES ASSUME NEW t \in Servers PROVE t \in vm' <=> status'[t] = 1
    BY DEF VmFollows
  <2>1. CASE t = s
    BY <2>1
  <2>2. CASE t # s
    <3>1. t \in vm <=> status[t] = 1
      BY <1>1, <2>2 DEF VmFollows
    <3>2. (t \in vm' <=> t \in vm) /\ status'[t] = status[t]
      BY <1>2, <2>2
    <3>3. QED BY <3>1, <3>2
  <2>3. QED BY <2>1, <2>2
<1>16. QED BY <1>6, <1>7, <1>8, <1>9, <1>10, <1>11, <1>12, <1>13, <1>14, <1>15

\* A voltage event reaches a server.
LEMMA ServerVoltageStep ==
  ASSUME Steady, SInv, HandleServerVoltage
  PROVE  SInv'
<1>0. PICK h : h = Head(queue)
  OBVIOUS
<1> DEFINE s == h.asset
           src == h.src
           in == h.upd
           new == h.upd.new
           r == ServerAnswer(s, src, in)
           high == PsuOutVoltage(s)
<1>1. /\ queue # <<>> /\ h.kind = "volt" /\ Kind[s] = "server" /\ Settle(s, r)
      /\ userOff' = (IF r.status # status[s] THEN userOff \ {s} ELSE userOff)
      /\ vm' = (IF r.status = 0 /\ status[s] = 1 THEN vm \ {s}
                ELSE IF r.status = 1 /\ ~InputVoltageDrops(in) /\ s \in OnAc /\ new # 0
                     THEN vm \cup {s} ELSE vm)
      /\ UNCHANGED <<oidOff, wall, requests, dead>>
  BY <1>0 DEF HandleServerVoltage, ServerAnswer
<1>2. /\ TInv /\ Alone /\ Levels /\ FollowMains /\ FollowParents /\ Wave /\ Aside /\ ColdStart
      /\ Once(queue) /\ dead = FALSE /\ Fed /\ VmFollows
  BY DEF SInv, Alone
<1>3. /\ h \in Voltage /\ Orders = {} /\ requests = <<>> /\ s \in Servers /\ s \in Asset
      /\ src \in Parents[s] /\ in \in Update /\ s \in OnAc
      /\ new = OutVolt(src) /\ new \in Volts \cup {0}
  <2>1. h \in Voltage /\ Orders = {} /\ requests = <<>> /\ s \in Asset /\ src \in Asset /\ in \in Update
    BY <1>0, <1>1, <1>2, OneOrder
  <2>2. s \in Servers /\ s \in OnAc
    BY <1>1, <2>1 DEF Servers, Steady
  <2>3. s \notin Mains
    BY <1>2, <2>2, ServerSide
  <2>4. src \in Parents[s] /\ new \in Volts \cup {0}
    BY <1>2, <2>1, <2>3 DEF Levels
  <2>5. new = OutVolt(src)
    BY <1>2, <2>1, <2>4 DEF FollowParents
  <2>6. QED BY <2>1, <2>2, <2>4, <2>5
<1>4. s \notin Off
  BY <1>2, <1>3 DEF Aside
<1>5. /\ new \in Nat /\ high \in Nat /\ status[s] \in {0, 1}
      /\ \A p \in Parents[s] : p \in Asset /\ OutVolt(p) \in Nat /\ (OutVolt(p) # 0 => p \in OnlinePsus(s))
      /\ \A p \in OnlinePsus(s) : p \in Parents[s] /\ OutVolt(p) = volt[p] /\ status[p] = 1
      /\ (high = 0 /\ OnlinePsus(s) = {}) \/ \E p \in OnlinePsus(s) : high = OutVolt(p)
      /\ Supply(s) = {OutVolt(p) : p \in Parents[s]}
  <2>1. /\ high \in Nat
        /\ \A p \in Parents[s] : p \in Asset /\ OutVolt(p) \in Nat /\ (OutVolt(p) # 0 => p \in OnlinePsus(s))
        /\ \A p \in OnlinePsus(s) : p \in Parents[s] /\ OutVolt(p) = volt[p] /\ status[p] = 1
        /\ (high = 0 /\ OnlinePsus(s) = {}) \/ \E p \in OnlinePsus(s) : high = OutVolt(p)
        /\ Supply(s) = {OutVolt(p) : p \in Parents[s]}
    BY <1>2, <1>3, ServerSide
  <2>2. status[s] \in {0, 1}
    BY <1>2, <1>3 DEF TInv, TypeOK
  <2>3. new \in Nat
    BY <1>3, <2>1
  <2>4. QED BY <2>1, <2>2, <2>3
<1>6. /\ r.volt = Larger(high, new)
      /\ r.status = IF ~InputVoltageDrops(in) THEN 1
                    ELSE IF new = 0 /\ OnlinePsus(s) \ {src} = {} THEN 0 ELSE status[s]
  BY <1>2, <1>3, ServerAnswerIs
<1>7. AnswerOK(s, r)
  <2>1. src \in Asset
    BY <1>3, <1>5
  <2>2. QED BY <1>2, <1>3, <2>1, ServerUpAnswered, ServerDownAnswered DEF ServerAnswer
<1>8. TInv'
  <2>1. Next
    BY DEF Next, Loop
  <2>2. QED BY <1>2, <2>1, TInvNext
<1> DEFINE v == Larger(high, new)
           st == r.status
<1>9. PICK ans : ans = r
  OBVIOUS
<1>10. /\ status' = [status EXCEPT ![s] = st] /\ volt' = [volt EXCEPT ![s] = v]
       /\ queue' = Tail(queue) \o Fired(s, ans)
  BY <1>1, <1>6, <1>9 DEF Settle
<1> HIDE DEF r
<1>11. /\ status'[s] = st /\ volt'[s] = v
       /\ \A b \in Asset \ {s} : status'[b] = status[b] /\ volt'[b] = volt[b]
  BY <1>2, <1>3, <1>10 DEF TInv, TypeOK
<1>12. userOff' = userOff /\ Off' = Off
  BY <1>1, <1>4 DEF Off
<1>13. /\ Voltage' = Voltage \ {h} /\ Once(queue)' /\ Alone' /\ Orders' = {}
  <2>1. requests' = requests /\ dead' = FALSE
    BY <1>1, <1>2
  <2>2. \A e \in Voltage \ {Head(queue)} : s \notin Way(e)
    <3> SUFFICES ASSUME NEW e \in Voltage, s \in Way(e) PROVE FALSE
      OBVIOUS
    <3>1. e.src \in Parents[e.asset] /\ e.asset \in Asset /\ e.src \in Asset
      BY <1>2, OneOrder DEF Way, Levels
    <3>2. s \notin Parents[e.asset] /\ s \notin Above[e.src]
      BY <1>2, <1>3, <3>1, ServerSide
    <3>3. QED BY <3>1, <3>2 DEF Way
  <2>3. Told(s, ans) = {}
    BY <1>2, <1>3, ServerSide
  <2>4. AnswerOK(s, ans) /\ s \in Asset
    BY <1>3, <1>7, <1>9
  <2> HIDE DEF s
  <2>5. /\ Voltage' = (Voltage \ {h}) \cup Told(s, ans) /\ Once(queue)' /\ Alone' /\ Orders' = {}
    BY <1>0, <1>1, <1>10, <2>1, <2>2, <2>4, Answered
  <2>6. QED BY <2>3, <2>5
<1>14. /\ v \in {high, new} /\ v \in Nat /\ high <= v /\ new <= v /\ (v = 0 <=> high = 0 /\ new = 0)
  BY <1>5, LargerIs
<1> HIDE DEF v
<1>15. st \in {0, 1} /\ (st = 0 => new = 0)
  <2>1. st \in {0, 1}
    BY <1>5, <1>6
  <2>2. ASSUME st = 0, new # 0 PROVE FALSE
    <3>1. InputVoltageDrops(in) /\ status[s] = 0
      BY <1>6, <2>2
    <3>2. in.old = 0
      BY <1>2, <1>3, <1>4, <2>2, <3>1 DEF Fed
    <3>3. QED BY <1>5, <2>2, <3>1, <3>2 DEF InputVoltageDrops
  <2>3. QED BY <2>1, <2>2
<1> DEFINE rest == OnlinePsus(s) \ {src}
<1>16. st = 0 => status[s] = 0 \/ rest = {}
  BY <1>5, <1>6
<1>17. ASSUME st = 0, rest = {} PROVE v = 0 /\ \A p \in Parents[s] : OutVolt(p) = 0
  <2>1. \A p \in Parents[s] : OutVolt(p) = 0
    BY <1>3, <1>5, <1>15, <1>17
  <2>2. high = 0
    BY <1>5, <2>1
  <2>3. QED BY <1>14, <1>15, <1>17, <2>1, <2>2
<1>18. ASSUME st = 0, rest # {} PROVE /\ status[s] = 0
                                       /\ \A p \in Parents[s] : OutVolt(p) # 0 => Awaits(s, p)'
  <2>1. status[s] = 0
    BY <1>16, <1>18
  <2>2. ASSUME NEW p \in Parents[s], OutVolt(p) # 0 PROVE Awaits(s, p)'
    <3>1. Awaits(s, p)
      BY <1>2, <1>3, <1>4, <2>1, <2>2 DEF Fed
    <3>2. PICK e \in Voltage : e.asset = s /\ e.src = p
      BY <3>1 DEF Awaits
    <3>3. p # src
      BY <1>3, <1>15, <1>18, <2>2
    <3>4. e \in Voltage'
      BY <1>13, <3>2, <3>3
    <3>5. QED BY <3>2, <3>4 DEF Awaits
  <2>3. QED BY <2>1, <2>2
<1>19. \A e \in Voltage' : e \in Voltage /\ (e.asset = s => e.src \in Parents[s] /\ e.upd.new = OutVolt(e.src))
  <2> SUFFICES ASSUME NEW e \in Voltage, e.asset = s PROVE e.src \in Parents[s] /\ e.upd.new = OutVolt(e.src)
    BY <1>13
  <2>1. s \notin Mains
    BY <1>2, <1>3, ServerSide
  <2>2. e.src \in Parents[s]
    BY <1>2, <2>1 DEF Levels
  <2>3. QED BY <1>2, <1>3, <2>2 DEF FollowParents
<1>20. (\E b \in Asset : status[b] = 1 /\ volt[b] = 0) => st = 1 /\ new # 0
  <2> SUFFICES ASSUME \E b \in Asset : status[b] = 1 /\ volt[b] = 0 PROVE st = 1 /\ new # 0
    OBVIOUS
  <2>1. new # 0
    BY <1>2, <1>3 DEF ColdStart
  <2>2. QED BY <1>15, <2>1
<1>21. st = 1 => v # 0
  <2> SUFFICES ASSUME st = 1, high = 0, new = 0 PROVE FALSE
    BY <1>14
  <2>1. \A b \in Asset : status[b] = 1 => volt[b] # 0
    BY <1>20
  <2>2. InputVoltageDrops(in)
    BY DEF InputVoltageDrops
  <2>3. rest # {}
    BY <1>6, <2>2
  <2>4. PICK p \in OnlinePsus(s) : high = OutVolt(p)
    BY <1>5, <2>3
  <2>5. QED BY <1>5, <2>1, <2>4
<1>22. v \in Volts \cup {0}
  <2>1. \A p \in Parents[s] : OutVolt(p) = 0 \/ OutVolt(p) = volt[p]
    BY <1>5
  <2>2. \A p \in Parents[s] : OutVolt(p) \in Volts \cup {0}
    BY <1>2, <1>5, <2>1 DEF Levels
  <2>3. high \in Volts \cup {0}
    BY <1>5, <2>2
  <2>4. QED BY <1>3, <1>14, <2>3
<1>23. st = 0 /\ v # 0 => \E e \in Voltage' : e.asset = s /\ e.upd.new # 0
  <2> SUFFICES ASSUME st = 0, v # 0 PROVE \E e \in Voltage' : e.asset = s /\ e.upd.new # 0
    OBVIOUS
  <2>1. rest # {}
    BY <1>17
  <2>2. high # 0
    BY <1>14, <1>15
  <2>3. PICK p \in Parents[s] : OutVolt(p) # 0
    BY <1>5, <2>2
  <2>4. Awaits(s, p)'
    BY <1>18, <2>1, <2>3
  <2>5. PICK e \in Voltage' : e.asset = s /\ e.src = p
    <3> HIDE DEF s
    <3>1. QED BY <2>4 DEF Awaits
  <2>6. QED BY <1>19, <2>3, <2>5
<1>24. st = 0 =>
         /\ \A p \in Parents[s] : OutVolt(p) = 0 \/ Awaits(s, p)'
         /\ \A e \in Voltage' : e.asset = s /\ e.upd.new # 0 => e.upd.old = 0
  <2> SUFFICES ASSUME st = 0
               PROVE  /\ \A p \in Parents[s] : OutVolt(p) = 0 \/ Awaits(s, p)'
                      /\ \A e \in Voltage' : e.asset = s /\ e.upd.new # 0 => e.upd.old = 0
    OBVIOUS
  <2>1. CASE rest = {}
    BY <1>17, <1>19, <2>1
  <2>2. CASE rest # {}
    <3>1. status[s] = 0
      BY <1>18, <2>2
    <3>2. \A e \in Voltage : e.asset = s /\ e.upd.new # 0 => e.upd.old = 0
      BY <1>2, <1>3, <1>4, <3>1 DEF Fed
    <3>3. \A e \in Voltage' : e.asset = s /\ e.upd.new # 0 => e.upd.old = 0
      BY <1>19, <3>2
    <3>4. QED BY <1>18, <2>2, <3>3
  <2>3. QED BY <2>1, <2>2
<1>25. Equal(s) => v \in Supply(s) /\ \A x \in Supply(s) : x <= v
  <2> SUFFICES ASSUME Equal(s) PROVE v \in Supply(s) /\ \A x \in Supply(s) : x <= v
    OBVIOUS
  <2>1. v \in Supply(s)
    <3>1. new \in Supply(s)
      BY <1>3, <1>5
    <3>2. CASE OnlinePsus(s) = {}
      <4>1. high = 0
        BY <1>5, <3>2
      <4>2. v = new
        BY <1>5, <1>14, <4>1
      <4>3. QED BY <3>1, <4>2
    <3>3. CASE OnlinePsus(s) # {}
      <4>1. high \in Supply(s)
        BY <1>5, <3>3
      <4>2. QED BY <1>14, <3>1, <4>1
    <3>4. QED BY <3>2, <3>3
  <2>2. ASSUME NEW p \in Parents[s], OutVolt(p) > v PROVE FALSE
    <3>1. OutVolt(p) # 0 /\ OutVolt(p) # high /\ OutVolt(p) # new
      BY <1>5, <1>14, <2>2
    <3>2. new = 0
      BY <1>3, <3>1 DEF Equal
    <3>3. p \in OnlinePsus(s)
      BY <1>5, <3>1
    <3>4. PICK q \in OnlinePsus(s) : high = OutVolt(q)
      BY <1>5, <3>3
    <3>5. OutVolt(q) # 0
      <4>1. \A b \in Asset : status[b] = 1 => volt[b] # 0
        BY <1>20, <3>2
      <4>2. QED BY <1>5, <3>4, <4>1
    <3>6. QED BY <1>5, <3>1, <3>4, <3>5 DEF Equal
  <2>3. \A p \in Parents[s] : OutVolt(p) <= v
    BY <1>5, <1>14, <2>2
  <2>4. QED BY <1>5, <2>1, <2>3
<1>26. s \in vm' <=> st = 1
  <2>1. s \in vm <=> status[s] = 1
    BY <1>2, <1>3 DEF VmFollows
  <2>2. CASE st = 0 /\ status[s] = 1
    BY <1>1, <2>2
  <2>3. CASE st = 0 /\ status[s] = 0
    BY <1>1, <2>1, <2>3
  <2>4. CASE st = 1 /\ ~InputVoltageDrops(in)
    <3>1. new # 0
      BY <2>4 DEF InputVoltageDrops
    <3>2. QED BY <1>1, <1>3, <2>4, <3>1
  <2>5. CASE st = 1 /\ InputVoltageDrops(in)
    <3>1. status[s] = 1
      BY <1>6, <2>5
    <3>2. QED BY <1>1, <2>1, <2>5, <3>1
  <2>6. QED BY <1>5, <1>15, <2>2, <2>3, <2>4, <2>5
<1>27. /\ \A e \in Orders : e.kind # "wall" /\ e.asset = s
       /\ vm' \ {s} = vm \ {s} /\ wall' = wall /\ Off \ {s} = Off' \ {s} /\ Off' = Off
  BY <1>1, <1>3, <1>12
<1>28. /\ Levels' /\ FollowMains' /\ FollowParents' /\ Wave' /\ Aside'
       /\ ColdStart' /\ OffForAReason' /\ Fed' /\ HighestFed' /\ VmFollows'
  <2>1. h.asset = s /\ s \in Servers
    BY <1>3
  <2>2. /\ status'[s] = 1 => volt'[s] # 0
        /\ volt'[s] \in Volts \cup {0}
        /\ (\E b \in Asset : status[b] = 1 /\ volt[b] = 0) => status'[s] = 1
    BY <1>11, <1>20, <1>21, <1>22
  <2>3. status'[s] = 0 /\ volt'[s] # 0 =>
           s \in Off' \/ \E e \in Voltage' : e.asset = s /\ e.upd.new # 0
    BY <1>11, <1>23
  <2>4. s \notin Off' /\ status'[s] = 0 =>
           /\ \A p \in Parents[s] : OutVolt(p) = 0 \/ Awaits(s, p)'
           /\ \A e \in Voltage' : e.asset = s /\ e.upd.new # 0 => e.upd.old = 0
    BY <1>11, <1>24
  <2>5. (\E e \in Voltage' : e.asset = s) \/ ~Equal(s)
           \/ (volt'[s] \in Supply(s) /\ \A x \in Supply(s) : x <= volt'[s])
    BY <1>11, <1>25
  <2>6. s \in vm' <=> status'[s] = 1
    BY <1>11, <1>26
  <2> HIDE DEF s
  <2>7. QED BY <1>8, <1>11, <1>13, <1>27, <2>1, <2>2, <2>3, <2>4, <2>5, <2>6, ServerAlone
<1>29. (\A e \in Orders : Entitled(e))'
  BY <1>13
<1>30. QED BY <1>8, <1>13, <1>28, <1>29 DEF SInv

\* The button of a server.
LEMMA ServerPressStep ==
  ASSUME Steady, SInv, HandlePress, Head(queue).asset \in Servers
  PROVE  SInv'
<1>0. PICK h : h = Head(queue)
  OBVIOUS
<1> DEFINE s == h.asset
           st == h.upd.new
<1>1. /\ TInv /\ Alone /\ dead = FALSE /\ OffForAReason /\ Fed /\ HighestFed
  BY DEF SInv, Alone
<1>2. queue # <<>> /\ h.kind = "press" /\ s \in Servers /\ Kind[s] = "server"
  BY <1>0 DEF HandlePress, Servers
<1>3. /\ h \in Orders /\ Orders = {h} /\ Voltage = {} /\ Entitled(h) /\ s \in Asset
      /\ st \in {0, 1} /\ h.kind # "wall" /\ requests = <<>>
      /\ \A b \in Asset : status[b] = 1 => volt[b] # 0
  <2>1. Orders = {h} /\ requests = <<>> /\ h.kind # "wall"
    BY <1>0, <1>1, <1>2, OneOrder
  <2>2. h \in Orders
    BY <2>1
  <2>3. QED BY <1>2, <2>1, <2>2, OrderFindsNothing
<1>4. /\ Parents[s] # {} /\ Psus(s) = Parents[s] /\ Supply(s) = {OutVolt(p) : p \in Parents[s]}
  BY <1>1, <1>2, ServerSide
<1>5. st = 1 => OnlinePsus(s) # {} /\ volt[s] # 0
  <2> SUFFICES ASSUME st = 1 PROVE OnlinePsus(s) # {} /\ volt[s] # 0
    OBVIOUS
  <2>1. ParentsAvailable(s) /\ volt[s] # 0
    BY <1>2, <1>3 DEF Entitled
  <2>2. QED BY <1>4, <2>1 DEF ParentsAvailable, OnlinePsus
<1>6. PICK r :
        /\ Settle(s, r) /\ AnswerOK(s, r) /\ UNCHANGED <<vm, oidOff, wall, requests, dead>>
        /\ r.status = st /\ r.volt = volt[s]
        /\ userOff' = IF st = 0 THEN userOff \cup {s} ELSE userOff \ {s}
  <2> DEFINE r == IF st = 1 THEN ServerOn(s) ELSE ServerOff(s)
  <2>1. /\ Settle(s, r) /\ UNCHANGED <<vm, oidOff, wall, requests, dead>>
        /\ userOff' = IF st = 0 THEN userOff \cup {s} ELSE userOff \ {s}
    BY <1>0, <1>2, <1>5 DEF HandlePress
  <2>2. AnswerOK(s, r)
    BY <1>1, <1>3, <1>5, ServerPressAnswered
  <2>3. r.status = st /\ r.volt = volt[s]
    BY <1>3 DEF ServerOn, ServerOff, Answer
  <2> HIDE DEF r
  <2>4. QED BY <2>1, <2>2, <2>3
<1>7. TInv'
  <2>1. Next
    BY DEF Next, Loop
  <2>2. QED BY <1>1, <2>1, TInvNext
<1>8. /\ status' = [status EXCEPT ![s] = st] /\ volt' = volt
      /\ queue' = Tail(queue) \o Fired(s, r)
  BY <1>1, <1>3, <1>6 DEF Settle, TInv, TypeOK
<1>9. /\ status'[s] = st /\ volt'[s] = volt[s]
      /\ \A b \in Asset \ {s} : status'[b] = status[b] /\ volt'[b] = volt[b]
  BY <1>1, <1>3, <1>8 DEF TInv, TypeOK
<1>10. /\ Voltage' = {} /\ Once(queue)' /\ Alone' /\ Orders' = {}
  <2>1. requests' = requests /\ dead' = FALSE
    BY <1>1, <1>6
  <2>2. \A e \in Voltage \ {Head(queue)} : s \notin Way(e)
    BY <1>3
  <2>3. Told(s, r) = {}
    BY <1>1, <1>2, ServerSide
  <2>4. s \in Asset
    BY <1>3
  <2> HIDE DEF s
  <2>5. /\ Voltage' = (Voltage \ {Head(queue)}) \cup Told(s, r) /\ Once(queue)' /\ Alone' /\ Orders' = {}
    BY <1>2, <1>6, <1>8, <2>1, <2>2, <2>4, Answered
  <2>6. QED BY <1>3, <2>3, <2>5
<1>11. /\ Off \ {s} = Off' \ {s} /\ (st = 0 => s \in Off')
  BY <1>6 DEF Off
<1>12. volt[s] \in Volts \cup {0}
  BY <1>3 DEF SInv, Levels
<1>13. Equal(s) => volt[s] \in Supply(s) /\ \A v \in Supply(s) : v <= volt[s]
  BY <1>1, <1>2, <1>3 DEF HighestFed, Highest
<1>14. s \in vm' <=> st = 1
  <2>1. s \in vm <=> st = 1
    BY <1>2, <1>3 DEF Entitled
  <2>2. QED BY <1>6, <2>1
<1>15. /\ Levels' /\ FollowMains' /\ FollowParents' /\ Wave' /\ Aside'
       /\ ColdStart' /\ OffForAReason' /\ Fed' /\ HighestFed' /\ VmFollows'
  <2>1. h.asset = s /\ s \in Servers
    BY <1>2
  <2>2. /\ \A e \in Orders : e.kind # "wall" /\ e.asset = s
        /\ vm' \ {s} = vm \ {s} /\ wall' = wall /\ (Voltage # {} => Off' = Off)
        /\ Voltage' = Voltage \ {h}
    BY <1>3, <1>6, <1>10
  <2>3. /\ status'[s] = 1 => volt'[s] # 0
        /\ volt'[s] \in Volts \cup {0}
        /\ (\E b \in Asset : status[b] = 1 /\ volt[b] = 0) => status'[s] = 1
    BY <1>3, <1>5, <1>9, <1>12
  <2>4. status'[s] = 0 => s \in Off'
    BY <1>9, <1>11
  <2>5. ~Equal(s) \/ (volt'[s] \in Supply(s) /\ \A x \in Supply(s) : x <= volt'[s])
    BY <1>9, <1>13
  <2>6. s \in vm' <=> status'[s] = 1
    BY <1>9, <1>14
  <2> HIDE DEF s
  <2>7. QED BY <1>7, <1>9, <1>10, <1>11, <2>1, <2>2, <2>3, <2>4, <2>5, <2>6, ServerAlone
<1>16. (\A e \in Orders : Entitled(e))'
  BY <1>10
<1>17. QED BY <1>7, <1>10, <1>15, <1>16 DEF SInv

\* When nothing but the queue and the loads change, and neither voltage events nor
\* orders, everything stays as it is.
LEMMA NothingNew ==
  ASSUME SInv, TInv', Alone', Once(queue)', Voltage' = Voltage, Orders' = Orders,
         UNCHANGED <<status, volt, vm, userOff, oidOff, wall>>
  PROVE  SInv'
<1>1. \A a \in Asset : OutVolt(a)' = OutVolt(a)
  BY DEF OutVolt
<1>2. Off' = Off
  BY DEF Off
<1>3. \A a, p : Awaits(a, p)' <=> Awaits(a, p)
  BY DEF Awaits
<1>4. \A a \in Asset : Parents[a] \subseteq Asset
  BY Constants
<1>5. \A a \in Asset : ParentsAvailable(a)' <=> ParentsAvailable(a)
  BY <1>1, <1>4 DEF ParentsAvailable
<1>6. Levels' /\ Wave' /\ Aside'
  BY <1>2 DEF SInv, Levels, Wave, Way, Aside
<1>7. (\A e \in Orders : Entitled(e))'
  <2> SUFFICES ASSUME NEW e \in Orders PROVE Entitled(e)'
    OBVIOUS
  <2>1. Entitled(e) /\ e \in Request
    BY OneOrder DEF SInv
  <2>2. e.kind \in {"press", "signal"} => e.asset \in Asset
    BY <2>1 DEF Request, Event
  <2>3. e.kind \in {"press", "signal"} => (ParentsAvailable(e.asset)' <=> ParentsAvailable(e.asset))
    BY <1>5, <2>2
  <2>4. QED BY <1>2, <2>1, <2>3 DEF Entitled
<1>8. FollowMains'
  BY <1>3 DEF SInv, FollowMains
<1>9. FollowParents'
  BY <1>1, <1>3, <1>4 DEF SInv, FollowParents
<1>10. ColdStart' /\ VmFollows'
  BY DEF SInv, ColdStart, VmFollows
<1>11. OffForAReason'
  BY <1>2 DEF SInv, OffForAReason
<1>12. \A s \in Servers : s \in Asset
  BY Constants
<1>13. Fed'
  BY <1>1, <1>2, <1>3, <1>4, <1>12 DEF SInv, Fed
<1>14. HighestFed'
  <2> SUFFICES ASSUME NEW s \in Servers, \A e \in Voltage : e.asset # s, Equal(s)'
               PROVE  Highest(s)'
    BY DEF HighestFed
  <2>1. Equal(s)
    BY <1>1, <1>4, <1>12 DEF Equal
  <2>2. Highest(s)
    BY <2>1 DEF SInv, HighestFed
  <2>3. Supply(s)' = Supply(s)
    <3>1. \A v : v \in {OutVolt(p)' : p \in Parents[s]} <=> v \in {OutVolt(p) : p \in Parents[s]}
      BY <1>1, <1>4, <1>12
    <3>2. QED BY <3>1 DEF Supply
  <2>4. volt[s] \in Supply(s) /\ \A v \in Supply(s) : v <= volt[s]
    BY <2>2 DEF Highest
  <2>5. volt'[s] \in Supply(s)' /\ \A v \in Supply(s)' : v <= volt'[s]
    BY <2>3, <2>4
  <2>6. QED BY <2>5 DEF Highest
<1>15. QED BY <1>6, <1>7, <1>8, <1>9, <1>10, <1>11, <1>13, <1>14 DEF SInv

\* A load event.
LEMMA LoadStep ==
  ASSUME Steady, SInv, HandleLoad
  PROVE  SInv'
<1>0. PICK h : h = Head(queue)
  OBVIOUS
<1>1. /\ TInv /\ Alone /\ dead = FALSE /\ Once(queue)
  BY DEF SInv, Alone
<1>2. queue # <<>> /\ h.kind = "load" /\ UNCHANGED <<status, volt, vm, userOff, oidOff, wall, requests, dead>>
  BY <1>0 DEF HandleLoad
<1>3. Orders = {} /\ requests = <<>> /\ h \in InLine
  BY <1>0, <1>1, <1>2, OneOrder
<1>4. h \in Event
  <2>1. queue \in Seq(Event)
    BY <1>1 DEF TInv
  <2>2. QED BY <1>0, <1>2, <2>1, QueueTyped
<1>5. h.asset \in Asset /\ h.upd \in Update /\ h.upd.old \in Nat /\ h.upd.new \in Nat
  BY <1>2, <1>4 DEF Event, Update
<1>6. PICK F \in Seq(Event) : queue' = Tail(queue) \o F /\ \A i \in 1 .. Len(F) : F[i].kind = "load"
  <2> DEFINE a == h.asset
             new == NewLoad(a, h.upd)
             p == Ordered(Parents[a])
             F == [i \in 1 .. Len(p) |-> LoadEvent(p[i], Pair(load[a], new))]
  <2>1. queue' = Tail(queue) \o F
    BY <1>0 DEF HandleLoad
  <2>2. load[a] \in Nat
    BY <1>1, <1>5 DEF TInv, TypeOK
  <2>3. new \in Nat
    <3>1. load[a] + h.upd.new - h.upd.old \in Int
      BY <1>5, <2>2
    <3>2. QED BY <3>1, AmpsAreNat DEF NewLoad
  <2>4. Len(p) \in Nat /\ \A i \in 1 .. Len(p) : p[i] \in Asset
    <3>1. Parents[a] \in SUBSET Asset
      BY <1>5, Constants
    <3>2. QED BY <3>1, OrderedLists
  <2> HIDE DEF new, p
  <2>5. Pair(load[a], new) \in Update
    BY <2>2, <2>3, PairIsUpdate
  <2>6. \A i \in 1 .. Len(p) : /\ LoadEvent(p[i], Pair(load[a], new)) \in Event
                               /\ LoadEvent(p[i], Pair(load[a], new)).kind = "load"
    BY <2>4, <2>5 DEF LoadEvent, Event
  <2>7. F \in Seq(Event) /\ \A i \in 1 .. Len(F) : F[i].kind = "load"
    BY <2>4, <2>6
  <2> HIDE DEF F
  <2>8. QED BY <2>1, <2>7
<1>7. /\ Voltage' = (Voltage \ {h}) \cup {e \in {F[i] : i \in 1 .. Len(F)} : e.kind = "volt"}
      /\ Once(queue') /\ \A e \in InLine' : e.kind \in {"volt", "load"}
  <2>1. Once(F)
    BY <1>6 DEF Once
  <2>2. \A i \in 1 .. Len(F) : F[i].kind \in {"volt", "load"} /\ F[i].kind # "volt"
    BY <1>6
  <2>3. QED BY <1>0, <1>1, <1>2, <1>6, <2>1, <2>2, Enqueued
<1>8. Voltage' = Voltage
  <2>1. h \notin Voltage
    BY <1>2 DEF Voltage
  <2>2. {e \in {F[i] : i \in 1 .. Len(F)} : e.kind = "volt"} = {}
    BY <1>6
  <2>3. QED BY <1>7, <2>1, <2>2
<1>9. Orders' = Orders
  <2>1. requests' = <<>> /\ Len(requests') = 0
    BY <1>2, <1>3
  <2>2. {requests'[i] : i \in 1 .. Len(requests')} = {}
    BY <2>1
  <2>3. Orders' = {}
    BY <1>7, <2>2 DEF Orders
  <2>4. QED BY <1>3, <2>3
<1>10. Alone'
  BY <1>1, <1>2, <1>3, <1>7 DEF Alone
<1>11. TInv'
  <2>1. Next
    BY DEF Next, Loop
  <2>2. QED BY <1>1, <2>1, TInvNext
<1>12. Once(queue)'
  BY <1>7 DEF Once
<1>13. QED BY <1>2, <1>8, <1>9, <1>10, <1>11, <1>12, NothingNew

\* The next iteration begins.
LEMMA BeginStep ==
  ASSUME Steady, SInv, Begin
  PROVE  SInv'
<1>0. PICK o : o = Head(requests)
  OBVIOUS
<1>1. TInv /\ Alone /\ dead = FALSE /\ queue \in Seq(Event) /\ requests \in Seq(Request)
  BY DEF SInv, Alone, TInv
<1>2. /\ requests # <<>> /\ requests' = Tail(requests)
      /\ UNCHANGED <<status, volt, load, vm, userOff, oidOff, wall, dead>>
  BY DEF Begin, redis
<1>3. Orders = {o} /\ queue = <<>> /\ requests' = <<>> /\ o \in Orders /\ o \in Request
  <2>1. Orders = {o} /\ queue = <<>> /\ requests' = <<>>
    BY <1>0, <1>1, <1>2, OneOrder
  <2>2. o \in Orders
    BY <2>1
  <2>3. QED BY <1>1, <2>1, <2>2, OneOrder
<1>4. Voltage = {} /\ Entitled(o)
  BY <1>3, OrderFindsNothing
<1>5. TInv'
  <2>1. Next
    BY DEF Next, Loop
  <2>2. QED BY <1>1, <2>1, TInvNext
<1>6. {requests'[i] : i \in 1 .. Len(requests')} = {}
  BY <1>3
<1>7. CASE o.kind # "wall"
  <2>1. queue' = <<o>>
    BY <1>0, <1>7 DEF Begin
  <2>2. Len(queue') = 1 /\ queue'[1] = o
    BY <2>1
  <2>3. InLine' = {o}
    BY <2>2 DEF InLine
  <2>4. o.kind \in {"press", "signal"}
    BY <1>4, <1>7 DEF Entitled
  <2>5. Voltage' = Voltage
    BY <1>4, <2>3, <2>4 DEF Voltage
  <2>6. Orders' = Orders
    BY <1>3, <1>6, <2>3, <2>4 DEF Orders
  <2>7. Alone'
    BY <1>1, <1>2, <1>3, <2>1, <2>3 DEF Alone
  <2>8. Once(queue)'
    BY <2>2 DEF Once
  <2>9. QED BY <1>2, <1>5, <2>5, <2>6, <2>7, <2>8, NothingNew
<1>8. CASE o.kind = "wall"
  <2> DEFINE m == Ordered(Mains)
  <2>1. queue' = [i \in 1 .. Len(m) |-> VoltEvent(m[i], m[i], o.upd)]
    BY <1>0, <1>8 DEF Begin
  <2>2. /\ Len(m) \in Nat /\ \A i \in 1 .. Len(m) : m[i] \in Mains
        /\ \A i, j \in 1 .. Len(m) : m[i] = m[j] => i = j
        /\ \A x \in Mains : \E i \in 1 .. Len(m) : m[i] = x
    BY Constants, OrderedLists
  <2> HIDE DEF m
  <2>3. Len(queue') = Len(m) /\ \A i \in 1 .. Len(m) : queue'[i] = VoltEvent(m[i], m[i], o.upd)
    BY <2>1, <2>2
  <2>4. \A x : LET e == VoltEvent(x, x, o.upd)
              IN  e.kind = "volt" /\ e.asset = x /\ e.src = x /\ e.upd = o.upd
    BY DEF VoltEvent
  <2>5. \A e \in InLine' : e.kind = "volt" /\ e.asset \in Mains /\ e.src = e.asset /\ e.upd = o.upd
    BY <2>2, <2>3, <2>4 DEF InLine
  <2>6. \A e \in Voltage' : e.kind = "volt" /\ e.asset \in Mains /\ e.src = e.asset /\ e.upd = o.upd
    BY <2>5 DEF Voltage
  <2>7. \A x \in Mains : Awaits(x, x)'
    <3> SUFFICES ASSUME NEW x \in Mains PROVE \E e \in Voltage' : e.asset = x /\ e.src = x
      BY DEF Awaits
    <3>1. PICK i \in 1 .. Len(m) : m[i] = x
      BY <2>2
    <3>2. queue'[i] \in InLine' /\ queue'[i] = VoltEvent(x, x, o.upd)
      BY <2>3, <3>1 DEF InLine
    <3>3. VoltEvent(x, x, o.upd) \in Voltage'
      BY <2>4, <3>2 DEF Voltage
    <3>4. QED BY <2>4, <3>3
  <2>8. Orders' = {}
    BY <1>6, <2>5 DEF Orders
  <2>9. Alone'
    BY <1>1, <1>2, <1>3, <2>5 DEF Alone
  <2>10. Once(queue)'
    <3> SUFFICES ASSUME NEW i \in 1 .. Len(queue'), NEW j \in 1 .. Len(queue'),
                        queue'[i].asset = queue'[j].asset
                 PROVE  i = j
      BY DEF Once
    <3>1. m[i] = m[j]
      BY <2>3, <2>4
    <3>2. QED BY <2>2, <2>3, <3>1
  <2>11. Off = {} /\ o.upd.new = wall /\ Off' = {}
    BY <1>2, <1>4, <1>8 DEF Entitled, Off
  <2>12. \A x \in Mains : x \in Asset /\ Parents[x] = {} /\ x \notin Servers
    BY DEF Mains, Steady
  <2>13. wall \in Volts
    BY <1>1 DEF TInv, TypeOK
  <2>14. \A a, p : ~Awaits(a, p)
    BY <1>4 DEF Awaits
  <2>15. \A a \in Asset : OutVolt(a)' = OutVolt(a)
    BY <1>2 DEF OutVolt
  <2>16. \A a \in Asset : Parents[a] \subseteq Asset
    BY Constants
  <2>17. Levels'
    BY <1>2, <2>6, <2>11, <2>13 DEF SInv, Levels
  <2>18. FollowMains'
    BY <1>2, <2>6, <2>7, <2>11 DEF FollowMains
  <2>19. FollowParents'
    <3> SUFFICES ASSUME NEW a \in Asset, NEW p \in Parents[a]
                 PROVE  /\ \A e \in Voltage' : e.asset # a
                        /\ a \in Servers \/ volt'[a] = OutVolt(p)'
      BY DEF FollowParents
    <3>1. \A e \in Voltage' : e.asset # a
      BY <2>6, <2>12
    <3>2. a \in Servers \/ volt[a] = OutVolt(p)
      BY <2>14 DEF SInv, FollowParents
    <3>3. QED BY <1>2, <2>15, <2>16, <3>1, <3>2
  <2>20. Wave'
    BY <2>6 DEF Wave, Way
  <2>21. Aside'
    BY <2>11 DEF Aside
  <2>22. ColdStart'
    <3>1. CASE \A b \in Asset : status[b] = 1 => volt[b] # 0
      BY <1>2, <3>1 DEF ColdStart
    <3>2. CASE wall # 0 /\ \A b \in Asset : status[b] = 1
      BY <1>2, <2>6, <2>8, <2>11, <3>2 DEF ColdStart
    <3>3. QED BY <3>1, <3>2 DEF SInv, ColdStart
  <2>23. OffForAReason'
    <3> SUFFICES ASSUME NEW b \in Asset, status[b] = 0, volt[b] # 0 PROVE FALSE
      BY <1>2 DEF OffForAReason
    <3>1. QED BY <1>3, <1>4, <1>8, <2>11 DEF SInv, OffForAReason
  <2>24. \A s \in Servers : s \in Asset /\ \A e \in Voltage' : e.asset # s
    BY <2>6, <2>12, Constants
  <2>25. Fed'
    <3> SUFFICES ASSUME NEW s \in Servers, status[s] = 0
                 PROVE  \A p \in Parents[s] : OutVolt(p)' = 0
      BY <1>2, <2>24 DEF Fed
    <3>1. \A p \in Parents[s] : OutVolt(p) = 0
      BY <2>11, <2>14 DEF SInv, Fed
    <3>2. QED BY <2>15, <2>16, <2>24, <3>1
  <2>26. HighestFed'
    <3> SUFFICES ASSUME NEW s \in Servers, Equal(s)' PROVE Highest(s)'
      BY DEF HighestFed
    <3>1. Equal(s)
      BY <2>15, <2>16, <2>24 DEF Equal
    <3>2. Highest(s)
      BY <1>4, <3>1 DEF SInv, HighestFed
    <3>3. Supply(s)' = Supply(s)
      <4>1. \A v : v \in {OutVolt(p)' : p \in Parents[s]} <=> v \in {OutVolt(p) : p \in Parents[s]}
        BY <2>15, <2>16, <2>24
      <4>2. Parents[s] # {}
        BY DEF Steady
      <4>3. QED BY <4>1, <4>2 DEF Supply
    <3>4. volt[s] \in Supply(s) /\ \A v \in Supply(s) : v <= volt[s]
      BY <3>2 DEF Highest
    <3>5. volt'[s] \in Supply(s)' /\ \A v \in Supply(s)' : v <= volt'[s]
      BY <1>2, <3>3, <3>4
    <3>6. QED BY <3>5 DEF Highest
  <2>27. VmFollows'
    <3> SUFFICES ASSUME NEW s \in Servers PROVE s \in vm <=> status[s] = 1
      BY <1>2 DEF VmFollows
    <3>1. QED BY <1>3, <1>8 DEF SInv, VmFollows
  <2>28. (\A e \in Orders : Entitled(e))'
    BY <2>8
  <2>29. QED BY <1>5, <2>8, <2>9, <2>10, <2>17, <2>18, <2>19, <2>20, <2>21, <2>22, <2>23, <2>25, <2>26,
                <2>27, <2>28 DEF SInv
<1>9. QED BY <1>7, <1>8

\* What is so when the engine is at rest: every voltage is that of the mains or
\* none, servers have the highest of their PSUs, and an asset that is on has some.
LEMMA AtRestFacts ==
  ASSUME Steady, SInv, AtRest
  PROVE  /\ Voltage = {} /\ Orders = {} /\ queue = <<>> /\ requests = <<>> /\ dead = FALSE
         /\ \A m \in Mains : volt[m] = wall
         /\ \A a \in Asset \ Servers : \A p \in Parents[a] : volt[a] = OutVolt(p)
         /\ \A s \in Servers : Highest(s) /\ (s \in vm <=> status[s] = 1)
         /\ \A a \in Asset : status[a] = 1 => volt[a] # 0
<1>1. /\ TInv /\ Alone /\ dead = FALSE /\ queue = <<>> /\ requests = <<>>
  BY DEF SInv, Alone, AtRest, Busy
<1>2. Voltage = {} /\ Orders = {}
  BY <1>1, OneOrder
<1>3. \A a, p : ~Awaits(a, p)
  BY <1>2 DEF Awaits
<1>4. \A m \in Mains : volt[m] = wall
  BY <1>2, <1>3 DEF SInv, FollowMains
<1>5. \A a \in Asset \ Servers : \A p \in Parents[a] : volt[a] = OutVolt(p)
  BY <1>3 DEF SInv, FollowParents
<1>6. \A a \in Asset : /\ status[a] \in {0, 1} /\ volt[a] \in Nat
                       /\ OutVolt(a) = IF status[a] = 1 THEN volt[a] ELSE 0
  BY <1>1 DEF TInv, TypeOK, OutVolt
<1>7. \A a \in Asset \ Servers : volt[a] = 0 \/ volt[a] = wall
  <2> DEFINE Bad == {a \in Asset \ Servers : volt[a] # 0 /\ volt[a] # wall}
  <2>1. ASSUME Bad # {} PROVE FALSE
    <3>1. Bad \in SUBSET Asset /\ \A a \in Bad : a \in Asset \ Servers /\ volt[a] # 0 /\ volt[a] # wall
      OBVIOUS
    <3>2. \A a \in Asset \ Servers : a \notin Bad => volt[a] = 0 \/ volt[a] = wall
      OBVIOUS
    <3> HIDE DEF Bad
    <3>3. PICK a \in Bad : \A b \in Bad : b \notin Above[a]
      BY <2>1, <3>1, Topmost
    <3>4. Parents[a] # {}
      BY <1>4, <3>1, OneParent
    <3>5. PICK p \in Parents[a] : TRUE
      BY <3>4
    <3>6. p \in Asset \ Servers /\ p \in Above[a]
      BY <3>1, OneParent, AboveIs
    <3>7. volt[p] = 0 \/ volt[p] = wall
      BY <3>2, <3>3, <3>6
    <3>8. QED BY <1>5, <1>6, <3>1, <3>6, <3>7
  <2>2. QED BY <2>1
<1>8. ASSUME NEW s \in Servers PROVE Highest(s)
  <2>1. \A p \in Parents[s] : OutVolt(p) = 0 \/ OutVolt(p) = wall
    BY <1>1, <1>6, <1>7, ServerSide
  <2>2. Equal(s)
    BY <2>1 DEF Equal
  <2>3. QED BY <1>2, <2>2 DEF SInv, HighestFed
<1>9. \A a \in Asset : status[a] = 1 => volt[a] # 0
  <2>1. CASE \A a \in Asset : status[a] = 1 => volt[a] # 0
    BY <2>1
  <2>2. CASE wall # 0 /\ \A a \in Asset : status[a] = 1
    <3> DEFINE Bad == {a \in Asset \ Servers : volt[a] # wall}
    <3>1. ASSUME Bad # {} PROVE FALSE
      <4>1. Bad \in SUBSET Asset /\ \A a \in Bad : a \in Asset \ Servers /\ volt[a] # wall
        OBVIOUS
      <4>2. \A a \in Asset \ Servers : a \notin Bad => volt[a] = wall
        OBVIOUS
      <4> HIDE DEF Bad
      <4>3. PICK a \in Bad : \A b \in Bad : b \notin Above[a]
        BY <3>1, <4>1, Topmost
      <4>4. Parents[a] # {}
        BY <1>4, <4>1, OneParent
      <4>5. PICK p \in Parents[a] : TRUE
        BY <4>4
      <4>6. p \in Asset \ Servers /\ p \in Above[a]
        BY <4>1, OneParent, AboveIs
      <4>7. volt[p] = wall
        BY <4>2, <4>3, <4>6
      <4>8. QED BY <1>5, <1>6, <2>2, <4>1, <4>6, <4>7
    <3>2. \A a \in Asset \ Servers : volt[a] = wall
      BY <3>1
    <3>3. ASSUME NEW s \in Servers PROVE volt[s] = wall
      <4>1. volt[s] \in {OutVolt(p) : p \in Parents[s]}
        BY <1>1, <1>8, ServerSide DEF Highest
      <4>2. PICK p \in Parents[s] : volt[s] = OutVolt(p)
        BY <4>1
      <4>3. p \in Asset \ Servers
        BY <1>1, ServerSide
      <4>4. QED BY <1>6, <2>2, <3>2, <4>2, <4>3
    <3>4. QED BY <2>2, <3>2, <3>3
  <2>3. QED BY <2>1, <2>2 DEF SInv, ColdStart
<1>10. \A s \in Servers : s \in vm <=> status[s] = 1
  BY <1>2 DEF SInv, VmFollows
<1>11. QED BY <1>1, <1>2, <1>4, <1>5, <1>8, <1>9, <1>10

\* While the mains is on, what is powered through nothing that is switched off is
\* fed: an OID that says on can be obeyed.
LEMMA FedFromAbove ==
  ASSUME Steady, SInv, AtRest, wall # 0, NEW a \in Asset, \A o \in Off : o \notin Above[a]
  PROVE  \A p \in Parents[a] : status[p] = 1 /\ OutVolt(p) > MinVoltage[a]
<1>1. TInv /\ wall \in Volts
  BY DEF SInv, TInv, TypeOK
<1>2. \A u \in Asset : /\ status[u] \in {0, 1} /\ volt[u] \in Nat
                       /\ OutVolt(u) = IF status[u] = 1 THEN volt[u] ELSE 0
  BY <1>1 DEF TInv, TypeOK, OutVolt
<1> DEFINE good(u) == status[u] = 1 /\ volt[u] = wall
           Bad == {u \in Above[a] : ~good(u)}
<1>3. ASSUME Bad # {} PROVE FALSE
  <2>1. \A u \in Above[a] : u \in Asset \ Servers /\ Parents[u] \subseteq Above[a]
    BY <1>1, AboveIs, ServerSide
  <2>2. Bad \in SUBSET Asset /\ Bad \subseteq Above[a] /\ \A u \in Bad : ~good(u)
    BY <2>1
  <2>3. \A u \in Above[a] : u \notin Bad => status[u] = 1 /\ volt[u] = wall
    OBVIOUS
  <2> HIDE DEF Bad
  <2>4. PICK u \in Bad : \A b \in Bad : b \notin Above[u]
    BY <1>3, <2>2, Topmost
  <2>5. u \in Asset \ Servers /\ Parents[u] \subseteq Above[a] /\ Parents[u] \subseteq Above[u]
    BY <2>1, <2>2, AboveIs
  <2>6. volt[u] = wall
    <3>1. CASE Parents[u] = {}
      BY <2>5, <3>1, AtRestFacts, OneParent
    <3>2. CASE Parents[u] # {}
      <4>1. PICK p \in Parents[u] : TRUE
        BY <3>2
      <4>2. p \in Above[a] /\ p \in Asset /\ status[p] = 1 /\ volt[p] = wall
        BY <2>1, <2>3, <2>4, <2>5
      <4>3. volt[u] = OutVolt(p)
        BY <2>5, AtRestFacts
      <4>4. QED BY <1>2, <4>2, <4>3
    <3>3. QED BY <3>1, <3>2
  <2>7. status[u] = 1
    <3>1. Voltage = {} /\ Orders = {}
      BY AtRestFacts
    <3>2. u \notin Off
      BY <2>2
    <3>3. ~(status[u] = 0 /\ volt[u] # 0)
      BY <2>5, <3>1, <3>2 DEF SInv, OffForAReason
    <3>4. QED BY <1>2, <2>5, <2>6, <3>3
  <2>8. QED BY <2>2, <2>6, <2>7
<1>4. \A u \in Above[a] : status[u] = 1 /\ volt[u] = wall
  BY <1>3
<1>5. \A p \in Parents[a] : p \in Above[a] /\ p \in Asset
  BY AboveIs
<1>6. wall > MinVoltage[a]
  BY <1>1 DEF Steady
<1>7. QED BY <1>2, <1>4, <1>5, <1>6

\* A client asks the engine for something while it is at rest.
LEMMA Requested ==
  ASSUME Steady, SInv, AtRest, TInv', NEW e, requests' = Append(requests, e),
         Entitled(e)', e.kind # "wall" => wall' = wall,
         UNCHANGED <<status, volt, queue, dead>>,
         \A s \in Servers : (e.kind = "press" /\ e.asset = s) \/ (s \in vm' <=> s \in vm),
         \A b \in Off : b \in Off' \/ (e.kind = "signal" /\ e.asset = b),
         \A s \in Servers : s \in Off => s \in Off'
  PROVE  SInv'
<1>1. /\ TInv /\ Voltage = {} /\ Orders = {} /\ queue = <<>> /\ requests = <<>> /\ dead = FALSE
      /\ \A m \in Mains : volt[m] = wall
      /\ \A a \in Asset \ Servers : \A p \in Parents[a] : volt[a] = OutVolt(p)
      /\ \A s \in Servers : Highest(s) /\ (s \in vm <=> status[s] = 1)
      /\ \A a \in Asset : status[a] = 1 => volt[a] # 0
  BY AtRestFacts DEF SInv
<1>2. requests' = <<e>> /\ Len(requests') = 1 /\ requests'[1] = e /\ queue' = <<>> /\ Len(queue') = 0
  BY <1>1
<1>3. InLine' = {} /\ Voltage' = {} /\ Once(queue)'
  BY <1>2 DEF InLine, Voltage, Once
<1>4. Orders' = {e}
  <2>1. {requests'[i] : i \in 1 .. Len(requests')} = {e}
    BY <1>2
  <2>2. QED BY <1>3, <2>1 DEF Orders
<1>5. Alone'
  BY <1>1, <1>2, <1>3 DEF Alone
<1>6. \A a, p : ~Awaits(a, p) /\ ~Awaits(a, p)'
  BY <1>1, <1>3 DEF Awaits
<1>7. \A a \in Asset : OutVolt(a)' = OutVolt(a)
  BY DEF OutVolt
<1>8. \A a \in Asset : Parents[a] \subseteq Asset
  BY Constants
<1>9. \A s \in Servers : s \in Asset /\ Parents[s] # {}
  BY Constants DEF Steady, Servers
<1>10. Levels' /\ Wave' /\ Aside'
  BY <1>3 DEF SInv, Levels, Wave, Aside
<1>11. (\A f \in Orders : Entitled(f))'
  BY <1>4
<1>12. FollowMains'
  BY <1>1, <1>3, <1>4 DEF FollowMains
<1>13. FollowParents'
  <2> SUFFICES ASSUME NEW a \in Asset \ Servers, NEW p \in Parents[a]
               PROVE  volt'[a] = OutVolt(p)'
    BY <1>3 DEF FollowParents
  <2>1. QED BY <1>1, <1>7, <1>8
<1>14. ColdStart'
  BY <1>1 DEF ColdStart
<1>15. OffForAReason'
  <2> SUFFICES ASSUME NEW a \in Asset, status[a] = 0, volt[a] # 0
               PROVE  a \in Off' \/ \E f \in Orders' : f.kind = "signal" /\ f.asset = a
    BY DEF OffForAReason
  <2>1. a \in Off
    BY <1>1 DEF SInv, OffForAReason
  <2>2. QED BY <1>4, <2>1
<1>16. Fed'
  <2> SUFFICES ASSUME NEW s \in Servers \ Off', status[s] = 0, NEW p \in Parents[s]
               PROVE  OutVolt(p)' = 0
    BY <1>3 DEF Fed
  <2>1. s \in Servers \ Off
    OBVIOUS
  <2>2. OutVolt(p) = 0
    BY <1>6, <2>1 DEF SInv, Fed
  <2>3. QED BY <1>7, <1>8, <1>9, <2>2
<1>17. HighestFed'
  <2> SUFFICES ASSUME NEW s \in Servers PROVE Highest(s)'
    BY DEF HighestFed
  <2>1. volt[s] \in Supply(s) /\ \A v \in Supply(s) : v <= volt[s]
    BY <1>1 DEF Highest
  <2>2. Supply(s)' = Supply(s)
    <3>1. \A v : v \in {OutVolt(p)' : p \in Parents[s]} <=> v \in {OutVolt(p) : p \in Parents[s]}
      BY <1>7, <1>8, <1>9
    <3>2. QED BY <1>9, <3>1 DEF Supply
  <2>3. volt'[s] \in Supply(s)' /\ \A v \in Supply(s)' : v <= volt'[s]
    BY <2>1, <2>2
  <2>4. QED BY <2>3 DEF Highest
<1>18. VmFollows'
  <2> SUFFICES ASSUME NEW s \in Servers
               PROVE  (\E f \in Orders' : f.kind = "press" /\ f.asset = s) \/ (s \in vm' <=> status'[s] = 1)
    BY DEF VmFollows
  <2>1. QED BY <1>1, <1>4
<1>19. QED BY <1>3, <1>5, <1>10, <1>11, <1>12, <1>13, <1>14, <1>15, <1>16, <1>17, <1>18 DEF SInv

\* What a client switches is not above or below what is switched off.
LEMMA Cleared ==
  ASSUME Steady, NEW a \in Asset, Clear(a)
  PROVE  wall # 0 /\ \A o \in Off : o \notin Above[a] /\ a \notin Above[o]
<1>1. wall # 0 /\ \A o \in Off \ {a} : o \notin Above[a] /\ a \notin Above[o]
  BY DEF Clear, Steady, Off
<1>2. a \notin Above[a]
  BY AboveIs
<1>3. QED BY <1>1, <1>2

\* Every client: by hand, over SNMP, and the mains.
LEMMA ClientStep ==
  ASSUME Steady, SInv, Client
  PROVE  SInv'
<1>1. TInv /\ TInv'
  <2>1. Next
    BY DEF Next
  <2>2. QED BY <2>1, TInvNext DEF SInv
<1>2. ASSUME NEW a \in Asset, SwitchOff(a) PROVE SInv'
  <2> DEFINE e == PressEvent(a, Pair(1, 0))
  <2>1. /\ AtRest /\ requests' = Append(requests, e) /\ status[a] = 1
        /\ vm' = vm \ {a} /\ UNCHANGED <<status, volt, userOff, oidOff, wall, queue, dead>>
    BY <1>2 DEF SwitchOff, Publish, VmDestroyed, Steady
  <2>2. e.kind = "press" /\ e.asset = a /\ e.upd.new = 0
    BY DEF PressEvent, Pair
  <2>3. Off' = Off /\ \A o \in Off : a \notin Above[o]
    BY <1>2, <2>1, Cleared DEF SwitchOff, Off
  <2> HIDE DEF e
  <2>4. Entitled(e)'
    BY <2>1, <2>2, <2>3 DEF Entitled
  <2>5. \A s \in Servers : (e.kind = "press" /\ e.asset = s) \/ (s \in vm' <=> s \in vm)
    BY <2>1, <2>2
  <2>6. QED BY <1>1, <2>1, <2>2, <2>3, <2>4, <2>5, Requested
<1>3. ASSUME NEW a \in Asset, SwitchOn(a) PROVE SInv'
  <2> DEFINE e == PressEvent(a, Pair(0, 1))
  <2>1. /\ AtRest /\ requests' = Append(requests, e) /\ status[a] = 0 /\ ParentsAvailable(a)
        /\ vm' = (IF Kind[a] = "server" THEN vm \cup {a} ELSE vm)
        /\ Kind[a] = "server" => volt[a] # 0
        /\ UNCHANGED <<status, volt, userOff, oidOff, wall, queue, dead>>
    BY <1>3 DEF SwitchOn, Publish, Steady
  <2>2. e.kind = "press" /\ e.asset = a /\ e.upd.new = 1
    BY DEF PressEvent, Pair
  <2>3. Off' = Off /\ \A o \in Off : a \notin Above[o]
    BY <1>3, <2>1, Cleared DEF SwitchOn, Off
  <2>4. a \in Servers <=> Kind[a] = "server"
    BY DEF Servers
  <2>5. volt[a] # 0
    BY <1>1, <2>1, <2>4, AtRestFacts, AvailableHasVoltage
  <2>6. ParentsAvailable(a)'
    <3>1. \A p \in Parents[a] : p \in Asset /\ OutVolt(p)' = OutVolt(p)
      BY <2>1, OneParent DEF OutVolt
    <3>2. QED BY <2>1, <3>1 DEF ParentsAvailable
  <2> HIDE DEF e
  <2>7. Entitled(e)'
    BY <2>1, <2>2, <2>3, <2>4, <2>5, <2>6 DEF Entitled
  <2>8. \A s \in Servers : (e.kind = "press" /\ e.asset = s) \/ (s \in vm' <=> s \in vm)
    BY <2>1, <2>2
  <2>9. QED BY <1>1, <2>1, <2>2, <2>3, <2>7, <2>8, Requested
<1>4. ASSUME NEW v \in Volts, SetVoltage(v) PROVE SInv'
  <2>0. PICK e : e = [kind |-> "wall", upd |-> Pair(wall, v)]
    OBVIOUS
  <2>1. /\ AtRest /\ requests' = Append(requests, e) /\ wall' = v /\ Off = {}
        /\ UNCHANGED <<status, volt, vm, userOff, oidOff, queue, dead>>
    BY <1>4, <2>0 DEF SetVoltage, Publish, Steady, redis, Off
  <2>2. e.kind = "wall" /\ e.upd.new = v
    BY <2>0 DEF Pair
  <2>3. Off' = {}
    BY <2>1 DEF Off
  <2>4. Entitled(e)'
    BY <2>1, <2>2, <2>3 DEF Entitled
  <2>5. QED BY <1>1, <2>1, <2>2, <2>3, <2>4, Requested
<1>5. ASSUME NEW a \in Switched, NEW st \in {0, 1}, SetOid(a, st) PROVE SInv'
  <2>0. PICK e : e = SignalEvent(a, Pair(status[a], st))
    OBVIOUS
  <2>1. /\ AtRest /\ requests' = Append(requests, e)
        /\ oidOff' = (IF st = 0 THEN oidOff \cup {a} ELSE oidOff \ {a})
        /\ UNCHANGED <<status, volt, vm, userOff, wall, queue, dead>>
    BY <1>5, <2>0 DEF SetOid, Publish, Steady, redis
  <2>2. e.kind = "signal" /\ e.asset = a /\ e.upd.new = st
    BY <2>0 DEF SignalEvent, Pair
  <2>3. a \in Asset /\ a \notin Servers
    BY Constants DEF Steady
  <2>4. wall # 0 /\ \A o \in Off : o \notin Above[a] /\ a \notin Above[o]
    BY <1>5, <2>3, Cleared DEF SetOid
  <2>5. /\ \A o \in Off' \ {a} : o \in Off
        /\ \A o \in Off : o \in Off' \/ o = a
        /\ st = 0 => a \in oidOff'
        /\ st = 1 => a \notin oidOff'
    BY <2>1 DEF Off
  <2>6. st = 1 => ParentsAvailable(a)'
    <3> SUFFICES ASSUME st = 1 PROVE ParentsAvailable(a)'
      OBVIOUS
    <3>1. \A p \in Parents[a] : status[p] = 1 /\ OutVolt(p) > MinVoltage[a]
      BY <2>1, <2>3, <2>4, FedFromAbove
    <3>2. \A p \in Parents[a] : p \in Asset /\ OutVolt(p)' = OutVolt(p)
      BY <2>1, <2>3, OneParent DEF OutVolt
    <3>3. QED BY <2>1, <2>4, <2>5, <3>1, <3>2 DEF ParentsAvailable
  <2>7. Entitled(e)'
    BY <2>2, <2>3, <2>4, <2>5, <2>6 DEF Entitled
  <2>8. \A s \in Servers : (s \in vm' <=> s \in vm) /\ (s \in Off => s \in Off')
    BY <2>1, <2>3, <2>5
  <2>9. QED BY <1>1, <2>1, <2>2, <2>5, <2>7, <2>8, Requested
<1>6. QED BY <1>2, <1>3, <1>4, <1>5 DEF Client

\* Everything is on and has no voltage yet.
LEMMA SInvInit ==
  ASSUME Steady, Init
  PROVE  SInv
<1>1. TInv
  BY TInvInit
<1> DEFINE e == [kind |-> "wall", upd |-> Pair(0, Nominal)]
<1>2. /\ requests = <<e>> /\ Len(requests) = 1 /\ requests[1] = e /\ queue = <<>> /\ Len(queue) = 0
      /\ dead = FALSE /\ wall = Nominal /\ vm = Servers
      /\ \A a \in Asset : status[a] = 1 /\ volt[a] = 0
  BY DEF Init
<1>3. InLine = {} /\ Voltage = {} /\ Once(queue) /\ Off = {}
  BY <1>2 DEF Init, InLine, Voltage, Once, Off
<1>4. e.kind = "wall" /\ e.upd.new = Nominal
  BY DEF Pair
<1> HIDE DEF e
<1>5. Orders = {e}
  <2>1. {requests[i] : i \in 1 .. Len(requests)} = {e}
    BY <1>2
  <2>2. QED BY <1>3, <2>1 DEF Orders
<1>6. Alone
  BY <1>2, <1>3 DEF Alone
<1>7. Levels /\ Wave /\ Aside
  BY <1>2, <1>3 DEF Levels, Wave, Aside
<1>8. \A f \in Orders : Entitled(f)
  BY <1>2, <1>3, <1>4, <1>5 DEF Entitled
<1>9. \A a \in Asset : OutVolt(a) = 0
  BY <1>2 DEF OutVolt
<1>10. \A a \in Asset : Parents[a] \subseteq Asset
  BY Constants
<1>11. \A s \in Servers : s \in Asset /\ Parents[s] # {}
  BY Constants DEF Steady, Servers
<1>12. FollowMains
  BY <1>4, <1>5 DEF FollowMains
<1>13. FollowParents
  BY <1>2, <1>3, <1>9, <1>10 DEF FollowParents
<1>14. ColdStart
  BY <1>2, <1>3, <1>4, <1>5 DEF ColdStart, Steady
<1>15. OffForAReason /\ Fed
  BY <1>2, <1>11 DEF OffForAReason, Fed
<1>16. HighestFed
  <2> SUFFICES ASSUME NEW s \in Servers PROVE Highest(s)
    BY DEF HighestFed
  <2>1. {OutVolt(p) : p \in Parents[s]} = {0}
    BY <1>9, <1>10, <1>11
  <2>2. Supply(s) = {0}
    BY <1>11, <2>1 DEF Supply
  <2>3. QED BY <1>2, <1>11, <2>2 DEF Highest
<1>17. VmFollows
  BY <1>2, <1>11 DEF VmFollows
<1>18. QED BY <1>1, <1>3, <1>6, <1>7, <1>8, <1>12, <1>13, <1>14, <1>15, <1>16, <1>17 DEF SInv

\* No step of a client or of the engine breaks it.
LEMMA SInvNext ==
  ASSUME Steady, SInv, [Next]_vars
  PROVE  SInv'
<1>1. CASE Client
  BY <1>1, ClientStep
<1>2. CASE HandleVoltage
  BY <1>2, VoltageStep
<1>3. CASE HandleServerVoltage
  BY <1>3, ServerVoltageStep
<1>4. CASE HandleLoad
  BY <1>4, LoadStep
<1>5. CASE HandlePress
  <2>1. CASE Head(queue).asset \in Servers
    BY <1>5, <2>1, ServerPressStep
  <2>2. CASE Head(queue).asset \notin Servers
    BY <1>5, <2>2, SwitchStep
  <2>3. QED BY <2>1, <2>2
<1>6. CASE HandleSignal
  <2>1. Head(queue).asset \notin Servers
    <3>0. PICK h : h = Head(queue)
      OBVIOUS
    <3>1. queue # <<>> /\ h.kind = "signal"
      BY <1>6, <3>0 DEF HandleSignal
    <3>2. TInv /\ Alone
      BY DEF SInv
    <3>3. Orders = {h}
      BY <3>0, <3>1, <3>2, OneOrder
    <3>4. Entitled(h)
      BY <3>3 DEF SInv
    <3>5. QED BY <3>0, <3>1, <3>4 DEF Entitled
  <2>2. QED BY <1>6, <2>1, SwitchStep
<1>7. CASE Begin
  BY <1>7, BeginStep
<1>8. CASE UNCHANGED vars
  <2>1. UNCHANGED <<status, volt, vm, userOff, oidOff, wall, queue, requests, dead>>
    BY <1>8 DEF vars
  <2>2. InLine' = InLine
    BY <2>1 DEF InLine
  <2>3. Voltage' = Voltage /\ Orders' = Orders
    BY <2>1, <2>2 DEF Voltage, Orders
  <2>4. Alone' /\ Once(queue)'
    BY <2>1, <2>2 DEF SInv, Alone, Once
  <2>5. TInv'
    BY TInvNext DEF SInv
  <2>6. QED BY <2>1, <2>3, <2>4, <2>5, NothingNew
<1>9. QED BY <1>1, <1>2, <1>3, <1>4, <1>5, <1>6, <1>7, <1>8 DEF Next, Loop

\* At rest it says what clients may rely on.
LEMMA SupplyFollows ==
  ASSUME Steady, SInv
  PROVE  StateFollowsSupply
<1> SUFFICES ASSUME AtRest, NEW a \in Asset
             PROVE  /\ volt[a] \in Supply(a) /\ \A v \in Supply(a) : v <= volt[a]
                    /\ status[a] = 1 => volt[a] > MinVoltage[a]
                    /\ a \in Servers => (a \in vm <=> status[a] = 1)
  BY DEF StateFollowsSupply
<1>1. volt[a] \in Nat /\ volt[a] \in Volts \cup {0}
  BY DEF SInv, TInv, TypeOK, Levels
<1>2. volt[a] \in Supply(a) /\ \A v \in Supply(a) : v <= volt[a]
  <2>1. CASE a \in Servers
    BY <2>1, AtRestFacts DEF Highest
  <2>2. CASE a \notin Servers /\ Parents[a] = {}
    <3>1. volt[a] = wall
      BY <2>2, AtRestFacts, OneParent
    <3>2. Supply(a) = {wall}
      BY <2>2 DEF Supply
    <3>3. QED BY <1>1, <3>1, <3>2
  <2>3. CASE a \notin Servers /\ Parents[a] # {}
    <3>1. PICK p \in Parents[a] : TRUE
      BY <2>3
    <3>2. \A q \in Parents[a] : q = p
      BY <2>3, OneParent
    <3>3. Supply(a) = {OutVolt(p)}
      BY <2>3, <3>2 DEF Supply
    <3>4. volt[a] = OutVolt(p)
      BY <2>3, AtRestFacts
    <3>5. QED BY <1>1, <3>3, <3>4
  <2>4. QED BY <2>1, <2>2, <2>3
<1>3. status[a] = 1 => volt[a] > MinVoltage[a]
  <2>1. status[a] = 1 => volt[a] # 0
    BY AtRestFacts
  <2>2. QED BY <1>1, <2>1 DEF Steady
<1>4. a \in Servers => (a \in vm <=> status[a] = 1)
  BY AtRestFacts
<1>5. QED BY <1>2, <1>3, <1>4

(* In a steady system, whatever its power graph and whatever clients switch,  *)
(* the voltage of every asset is, once the engine is at rest, what the mains  *)
(* or the best of its parents puts out, an asset that is on has enough of it, *)
(* and a server's VM runs exactly when the server is on (asset.py,            *)
(* server_asset.py, PowerIteration).                                          *)
THEOREM SupplyIsFollowed == Steady => (Spec => []StateFollowsSupply)
<1> SUFFICES ASSUME Steady PROVE Spec => []StateFollowsSupply
  OBVIOUS
<1>1. Init => SInv
  BY SInvInit
<1>2. SInv /\ [Next]_vars => SInv'
  BY SInvNext
<1>3. SInv => StateFollowsSupply
  BY SupplyFollows
<1>4. QED BY <1>1, <1>2, <1>3, PTL DEF Spec

-----------------------------------------------------------------------------
(* Parents carry their children.                                           *)

(* The second hypothesis: what asset.py takes no account of does not occur.  *)
(* A PSU draws nothing of its own; neither does an outlet or a PDU that is   *)
(* switched by hand or by its OID; a lamp powers nothing and has no OID.     *)
Lossless ==
  /\ \A a \in Asset : Kind[a] = "psu" => Consumption[a] = 0
  /\ \A a \in Pressable \cup Switched : Kind[a] \in {"outlet", "pdu"} => Consumption[a] = 0
  /\ \A a \in Asset : Kind[a] = "static" => Children(a) = {} /\ a \notin Switched

Carriers == {a \in Asset : Kind[a] \in {"outlet", "pdu"}}

\* The load of an asset as its parents have been told: a lamp's may be ahead.
Shown == [a \in Asset |-> IF Kind[a] = "static" THEN OwnLoad(a) ELSE load[a]]
Due(a) == OwnLoad(a) + SumFunctionOnSet(Shown, Children(a))

Change(e, a) == IF e.kind = "load" /\ e.asset = a THEN e.upd.new - e.upd.old ELSE 0

\* From load l the events of q take asset a to the load due, never below low.
Arrives(q, a, l, low, due) ==
  \E N \in [1 .. Len(q) + 1 -> Int] :
    /\ N[1] = l /\ N[Len(q) + 1] = due
    /\ \A k \in 1 .. Len(q) : N[k + 1] = N[k] + Change(q[k], a)
    /\ \A k \in 1 .. Len(q) + 1 : N[k] >= low

\* Some events, of which at most one changes the load of a, by d.
Reports(F, a, d) ==
  \E i \in Nat \ {0} :
    /\ \A k \in 1 .. Len(F) : Change(F[k], a) = IF k = i THEN d ELSE 0
    /\ i \notin 1 .. Len(F) => d = 0

\* The load events on their way bring every outlet and PDU what it is due.
OnCourse == \A a \in Carriers : Arrives(queue, a, load[a], OwnLoad(a), Due(a))

\* A lamp has its own load, and clients set it before the lamp is switched.
Lamps ==
  /\ \A e \in InLine : e.kind = "load" => Kind[e.asset] # "static"
  /\ \A a \in Asset : Kind[a] = "static" =>
       /\ load[a] = OwnLoad(a) \/ \E e \in Orders : e.kind = "press" /\ e.asset = a
       /\ \A e \in Orders : e.kind = "press" /\ e.asset = a =>
            load[a] = Amps(Consumption[a], e.upd.new * volt[a])

\* What the engine is asked to switch is what clients may switch.
Possible ==
  \A e \in Orders : /\ e.kind = "press" => e.asset \in Pressable
                    /\ e.kind = "signal" => e.asset \in Switched

LInv == SInv /\ OnCourse /\ Lamps /\ Possible

\* An element more or less in one place changes the sum by as much.
LEMMA SumChanges ==
  ASSUME NEW S, IsFiniteSet(S), NEW f, NEW g, NEW c, NEW d \in Int,
         \A x \in S : f[x] \in Int,
         \A x \in S : g[x] = f[x] + (IF x = c THEN d ELSE 0)
  PROVE  /\ SumFunctionOnSet(f, S) \in Int
         /\ SumFunctionOnSet(g, S) = SumFunctionOnSet(f, S) + (IF c \in S THEN d ELSE 0)
<1> DEFINE F(T) == SumFunctionOnSet(f, T)
           G(T) == SumFunctionOnSet(g, T)
           P == {T \in SUBSET S : F(T) \in Int /\ G(T) = F(T) + (IF c \in T THEN d ELSE 0)}
<1>1. ASSUME NEW T \in SUBSET S, \A U \in SUBSET T : U # T => U \in P
      PROVE  T \in P
  <2> DEFINE x == Pick(T)
             U == T \ {x}
  <2>1. IsFiniteSet(T)
    BY FS_Subset
  <2>2. CASE T = {}
    <3>1. F({}) = 0 /\ G({}) = 0
      BY <2>1, SumStep
    <3> HIDE DEF F, G
    <3>2. QED BY <2>2, <3>1
  <2>3. CASE T # {}
    <3>1. x \in T /\ F(T) = f[x] + F(U) /\ G(T) = g[x] + G(U)
      BY <2>1, <2>3, SumStep
    <3>2. U \in P
      BY <1>1, <3>1
    <3> HIDE DEF F, G
    <3>3. F(U) \in Int /\ G(U) = F(U) + (IF c \in U THEN d ELSE 0)
      BY <3>2
    <3>4. x \in S /\ f[x] \in Int /\ g[x] = f[x] + (IF x = c THEN d ELSE 0)
      BY <3>1
    <3>5. CASE x = c
      <4>1. c \notin U /\ c \in T
        BY <3>1, <3>5
      <4> HIDE DEF U, x
      <4>2. F(T) \in Int /\ G(T) = F(T) + d
        BY <3>1, <3>3, <3>4, <3>5, <4>1
      <4>3. QED BY <4>1, <4>2
    <3>6. CASE x # c
      <4>1. c \in U <=> c \in T
        BY <3>6
      <4> HIDE DEF U, x
      <4>2. F(T) \in Int /\ G(T) = F(T) + (IF c \in T THEN d ELSE 0)
        BY <3>1, <3>3, <3>4, <3>6, <4>1
      <4>3. QED BY <4>2
    <3>7. QED BY <3>5, <3>6
  <2>4. QED BY <2>2, <2>3
<1> HIDE DEF P
<1>2. SUBSET S \subseteq P
  BY <1>1, SetInduction
<1>3. S \in P
  BY <1>2
<1>4. QED BY <1>3 DEF P

\* Changes are whole amounts.
LEMMA ChangeIsInt ==
  ASSUME NEW e \in Event, NEW a
  PROVE  Change(e, a) \in Int
<1>1. e.kind = "load" => e.upd \in Update
  BY DEF Event
<1>2. e.kind = "load" => e.upd.new - e.upd.old \in Int
  BY <1>1 DEF Update
<1>3. QED BY <1>2 DEF Change

\* What holds of a load on its course now.
LEMMA CourseHere ==
  ASSUME NEW q \in Seq(Event), NEW a, NEW l, NEW low, NEW due, Arrives(q, a, l, low, due)
  PROVE  /\ l \in Int /\ due \in Int /\ l >= low /\ due >= low
         /\ q = <<>> => l = due
         /\ q # <<>> => l + Change(Head(q), a) >= low
<1>1. PICK N \in [1 .. Len(q) + 1 -> Int] :
        /\ N[1] = l /\ N[Len(q) + 1] = due
        /\ \A k \in 1 .. Len(q) : N[k + 1] = N[k] + Change(q[k], a)
        /\ \A k \in 1 .. Len(q) + 1 : N[k] >= low
  BY DEF Arrives
<1>2. Len(q) \in Nat /\ 1 \in 1 .. Len(q) + 1 /\ Len(q) + 1 \in 1 .. Len(q) + 1
  OBVIOUS
<1>3. q = <<>> => Len(q) = 0
  OBVIOUS
<1>4. q # <<>> => 1 \in 1 .. Len(q) /\ 1 + 1 \in 1 .. Len(q) + 1 /\ Head(q) = q[1]
  OBVIOUS
<1>5. q # <<>> => N[1 + 1] = N[1] + Change(Head(q), a) /\ N[1 + 1] >= low
  BY <1>1, <1>4
<1>6. QED BY <1>1, <1>2, <1>3, <1>5

\* Nothing on its way changes it.
LEMMA CourseQuiet ==
  ASSUME NEW F \in Seq(Event), NEW a, NEW l \in Int, NEW low \in Int, l >= low,
         \A k \in 1 .. Len(F) : Change(F[k], a) = 0
  PROVE  Arrives(F, a, l, low, l)
<1> DEFINE N == [k \in 1 .. Len(F) + 1 |-> l]
<1>1. N \in [1 .. Len(F) + 1 -> Int] /\ Len(F) \in Nat
  OBVIOUS
<1>2. \A k \in 1 .. Len(F) : N[k + 1] = N[k] + Change(F[k], a)
  BY <1>1
<1>3. N[1] = l /\ N[Len(F) + 1] = l /\ \A k \in 1 .. Len(F) + 1 : N[k] >= low
  BY <1>1
<1> HIDE DEF N
<1>4. QED BY <1>1, <1>2, <1>3 DEF Arrives

\* The first event is handled, with a change e of the asset's own, and what is
\* fired reports the change d.
LEMMA CourseStep ==
  ASSUME NEW q \in Seq(Event), q # <<>>, NEW F \in Seq(Event), NEW a,
         NEW l, NEW low \in Int, NEW due, NEW e \in Int, NEW d \in Int,
         Arrives(q, a, l, low, due), Reports(F, a, d), due + d >= low
  PROVE  Arrives(Tail(q) \o F, a, l + Change(Head(q), a) + e, low + e, due + e + d)
<1>1. PICK N \in [1 .. Len(q) + 1 -> Int] :
        /\ N[1] = l /\ N[Len(q) + 1] = due
        /\ \A k \in 1 .. Len(q) : N[k + 1] = N[k] + Change(q[k], a)
        /\ \A k \in 1 .. Len(q) + 1 : N[k] >= low
  BY DEF Arrives
<1>2. PICK i \in Nat \ {0} :
        /\ \A k \in 1 .. Len(F) : Change(F[k], a) = IF k = i THEN d ELSE 0
        /\ i \notin 1 .. Len(F) => d = 0
  BY DEF Reports
<1> DEFINE n == Len(q)
           m == Len(F)
           s == Tail(q) \o F
           M == [k \in 1 .. Len(s) + 1 |->
                   IF k <= n THEN N[k + 1] + e
                   ELSE due + e + (IF k - n >= i THEN d ELSE 0)]
<1>3. /\ n \in Nat \ {0} /\ m \in Nat /\ Len(s) = n - 1 + m /\ Head(q) = q[1]
      /\ \A k \in 1 .. n - 1 : s[k] = q[k + 1]
      /\ \A k \in n .. Len(s) : s[k] = F[k - n + 1]
  <2>1. Tail(q) \in Seq(Event) /\ Len(Tail(q)) = n - 1 /\ n \in Nat \ {0} /\ m \in Nat /\ Head(q) = q[1]
    OBVIOUS
  <2>2. \A k \in 1 .. n - 1 : Tail(q)[k] = q[k + 1]
    BY <2>1
  <2> DEFINE t == Tail(q)
  <2>3. t \in Seq(Event) /\ Len(t) = n - 1 /\ s = t \o F /\ \A k \in 1 .. n - 1 : t[k] = q[k + 1]
    BY <2>1, <2>2
  <2> HIDE DEF t, s, n, m
  <2>4. Len(s) = n - 1 + m /\ \A k \in 1 .. n - 1 : s[k] = t[k]
    BY <2>1, <2>3 DEF m
  <2>5. ASSUME NEW k \in n .. Len(s) PROVE s[k] = F[k - n + 1]
    <3>1. k \in Len(t) + 1 .. Len(t) + Len(F)
      BY <2>1, <2>3, <2>4 DEF m
    <3>2. s[k] = F[k - Len(t)]
      BY <2>3, <3>1
    <3>3. k - Len(t) = k - n + 1
      BY <2>1, <2>3
    <3>4. QED BY <3>2, <3>3
  <2>6. QED BY <2>1, <2>3, <2>4, <2>5
<1>4. due \in Int /\ l \in Int
  BY CourseHere
<1>5. ASSUME NEW k \in 1 .. n PROVE N[k + 1] \in Int /\ N[k + 1] >= low
  <2>1. k + 1 \in 1 .. Len(q) + 1
    BY <1>5
  <2>2. QED BY <1>1, <2>1
<1> HIDE DEF s, n, m
<1>6. M \in [1 .. Len(s) + 1 -> Int]
  <2>1. ASSUME NEW k \in 1 .. Len(s) + 1
        PROVE  (IF k <= n THEN N[k + 1] + e ELSE due + e + (IF k - n >= i THEN d ELSE 0)) \in Int
    <3>1. CASE k <= n
      <4>1. k \in 1 .. n
        BY <1>3, <3>1
      <4>2. QED BY <1>5, <3>1, <4>1
    <3>2. CASE ~(k <= n)
      BY <1>3, <1>4, <3>2
    <3>3. QED BY <3>1, <3>2
  <2>2. QED BY <2>1
<1>7. /\ \A k \in 1 .. n : M[k] = N[k + 1] + e
      /\ \A k \in n + 1 .. Len(s) + 1 : M[k] = due + e + (IF k - n >= i THEN d ELSE 0)
  BY <1>3
<1> HIDE DEF M
<1>8. M[1] = l + Change(Head(q), a) + e
  <2>1. 1 \in 1 .. n /\ 1 \in 1 .. Len(q)
    BY <1>3 DEF n
  <2>2. M[1] = N[1 + 1] + e
    BY <1>7, <2>1
  <2>3. N[1 + 1] = l + Change(Head(q), a)
    BY <1>1, <1>3, <2>1
  <2>4. QED BY <2>2, <2>3
<1>9. M[Len(s) + 1] = due + e + d
  <2>1. CASE m = 0
    <3>1. Len(s) + 1 = n /\ n \in 1 .. n
      BY <1>3, <2>1
    <3>2. d = 0
      BY <1>2, <2>1 DEF m
    <3>3. M[n] = N[n + 1] + e
      BY <1>7, <3>1
    <3>4. QED BY <1>1, <1>4, <3>1, <3>2, <3>3 DEF n
  <2>2. CASE m # 0
    <3>1. Len(s) + 1 \in n + 1 .. Len(s) + 1 /\ Len(s) + 1 - n = m
      BY <1>3, <2>2
    <3>2. M[Len(s) + 1] = due + e + (IF m >= i THEN d ELSE 0)
      <4>1. M[Len(s) + 1] = due + e + (IF Len(s) + 1 - n >= i THEN d ELSE 0)
        BY <1>3, <1>4, <1>7, <3>1
      <4>2. Len(s) + 1 - n >= i <=> m >= i
        BY <3>1
      <4>3. QED BY <4>1, <4>2
    <3>3. ~(m >= i) => d = 0
      BY <1>2, <1>3 DEF m
    <3>4. QED BY <1>4, <3>2, <3>3
  <2>3. QED BY <2>1, <2>2
<1>10. ASSUME NEW k \in 1 .. Len(s) PROVE M[k + 1] = M[k] + Change(s[k], a)
  <2>1. CASE k \in 1 .. n - 1
    <3>1. k \in 1 .. n /\ k + 1 \in 1 .. n /\ k + 1 \in 1 .. Len(q)
      BY <1>3, <2>1 DEF n
    <3>2. M[k] = N[k + 1] + e /\ M[k + 1] = N[k + 1 + 1] + e /\ s[k] = q[k + 1]
      BY <1>3, <1>7, <2>1, <3>1
    <3>3. N[k + 1 + 1] = N[k + 1] + Change(q[k + 1], a)
      BY <1>1, <3>1
    <3>4. Change(q[k + 1], a) \in Int
      <4>1. q[k + 1] \in Event
        BY <3>1
      <4>2. QED BY <4>1, ChangeIsInt
    <3>5. N[k + 1] \in Int
      BY <1>5, <3>1
    <3>6. QED BY <3>2, <3>3, <3>4, <3>5
  <2>2. CASE k \in n .. Len(s)
    <3> DEFINE j == k - n + 1
    <3>1. j \in 1 .. m /\ k + 1 \in n + 1 .. Len(s) + 1 /\ k + 1 - n = j
      BY <1>3, <2>2
    <3>2. Change(s[k], a) = IF j = i THEN d ELSE 0
      <4>1. s[k] = F[j]
        BY <1>3, <2>2
      <4>2. QED BY <1>2, <3>1, <4>1 DEF m
    <3>3. M[k + 1] = due + e + (IF j >= i THEN d ELSE 0)
      <4>1. M[k + 1] = due + e + (IF k + 1 - n >= i THEN d ELSE 0)
        BY <1>3, <1>4, <1>7, <3>1
      <4>2. k + 1 - n >= i <=> j >= i
        BY <3>1
      <4> HIDE DEF j
      <4>3. QED BY <4>1, <4>2
    <3>4. M[k] = due + e + (IF j - 1 >= i THEN d ELSE 0)
      <4>1. CASE k = n
        <5>1. k \in 1 .. n /\ j = 1
          BY <1>3, <4>1
        <5>2. M[k] = N[n + 1] + e
          BY <1>7, <4>1, <5>1
        <5>3. ~(j - 1 >= i)
          BY <5>1
        <5>4. QED BY <1>1, <1>4, <5>2, <5>3 DEF n
      <4>2. CASE k # n
        <5>1. k \in n + 1 .. Len(s) + 1 /\ k - n = j - 1
          BY <1>3, <2>2, <4>2
        <5>2. QED BY <1>7, <5>1
      <4>3. QED BY <4>1, <4>2
    <3>5. j \in Int
      BY <1>3, <2>2
    <3> HIDE DEF j
    <3>6. (IF j >= i THEN d ELSE 0) = (IF j - 1 >= i THEN d ELSE 0) + (IF j = i THEN d ELSE 0)
      BY <3>5
    <3>7. (IF j >= i THEN d ELSE 0) \in Int /\ (IF j - 1 >= i THEN d ELSE 0) \in Int
      OBVIOUS
    <3>8. QED BY <1>4, <3>2, <3>3, <3>4, <3>6, <3>7
  <2>3. QED BY <1>3, <2>1, <2>2
<1>11. ASSUME NEW k \in 1 .. Len(s) + 1 PROVE M[k] >= low + e
  <2>1. CASE k \in 1 .. n
    BY <1>5, <1>7, <2>1
  <2>2. CASE k \in n + 1 .. Len(s) + 1
    <3>1. due >= low
      <4>1. n + 1 \in 1 .. Len(q) + 1
        BY <1>3 DEF n
      <4>2. QED BY <1>1, <4>1 DEF n
    <3>2. M[k] = due + e + (IF k - n >= i THEN d ELSE 0)
      BY <1>7, <2>2
    <3>3. QED BY <1>4, <3>1, <3>2
  <2>3. QED BY <1>3, <2>1, <2>2
<1>12. Arrives(s, a, l + Change(Head(q), a) + e, low + e, due + e + d)
  BY <1>6, <1>8, <1>9, <1>10, <1>11 DEF Arrives
<1>13. QED BY <1>12 DEF s

\* An asset is sent at most one load event of a batch, so that it says what changes.
LEMMA ReportsOnce ==
  ASSUME NEW F \in Seq(Event), NEW b, NEW d,
         \A i, j \in 1 .. Len(F) :
           F[i].kind = "load" /\ F[j].kind = "load" /\ F[i].asset = b /\ F[j].asset = b => i = j,
         \A i \in 1 .. Len(F) :
           F[i].kind = "load" /\ F[i].asset = b => F[i].upd.new - F[i].upd.old = d,
         (\A i \in 1 .. Len(F) : ~(F[i].kind = "load" /\ F[i].asset = b)) => d = 0
  PROVE  Reports(F, b, d)
<1>1. Len(F) \in Nat
  OBVIOUS
<1>2. CASE \E i \in 1 .. Len(F) : F[i].kind = "load" /\ F[i].asset = b
  <2>1. PICK i \in 1 .. Len(F) : F[i].kind = "load" /\ F[i].asset = b
    BY <1>2
  <2>2. i \in Nat \ {0}
    BY <1>1
  <2>3. \A k \in 1 .. Len(F) : Change(F[k], b) = IF k = i THEN d ELSE 0
    BY <2>1 DEF Change
  <2>4. QED BY <2>2, <2>3 DEF Reports
<1>3. CASE \A i \in 1 .. Len(F) : ~(F[i].kind = "load" /\ F[i].asset = b)
  <2>1. d = 0
    BY <1>3
  <2>2. \A k \in 1 .. Len(F) : Change(F[k], b) = IF k = 1 THEN d ELSE 0
    BY <1>3, <2>1 DEF Change
  <2>3. 1 \in Nat \ {0}
    OBVIOUS
  <2>4. QED BY <2>1, <2>2, <2>3 DEF Reports
<1>4. QED BY <1>2, <1>3

\* One load event for each of some assets.
Batch(S, u) ==
  [i \in 1 .. Len(Ordered(S)) |-> LoadEvent(Ordered(S)[i], u[Ordered(S)[i]])]

LEMMA OneEach ==
  ASSUME NEW S \in SUBSET Asset, NEW u, \A x \in S : u[x] \in Update
  PROVE  /\ Batch(S, u) \in Seq(Event) /\ Len(Batch(S, u)) \in Nat
         /\ \A i \in 1 .. Len(Batch(S, u)) :
              /\ Batch(S, u)[i].kind = "load" /\ Batch(S, u)[i].asset \in S
              /\ Batch(S, u)[i].upd = u[Batch(S, u)[i].asset]
         /\ \A i, j \in 1 .. Len(Batch(S, u)) :
              Batch(S, u)[i].asset = Batch(S, u)[j].asset => i = j
         /\ \A x \in S : \E i \in 1 .. Len(Batch(S, u)) : Batch(S, u)[i].asset = x
<1> DEFINE o == Ordered(S)
           P == Batch(S, u)
<1>1. /\ Len(o) \in Nat /\ \A i \in 1 .. Len(o) : o[i] \in S
      /\ \A i, j \in 1 .. Len(o) : o[i] = o[j] => i = j
      /\ \A x \in S : \E i \in 1 .. Len(o) : o[i] = x
  BY OrderedLists
<1> HIDE DEF o
<1>2. P = [i \in 1 .. Len(o) |-> LoadEvent(o[i], u[o[i]])]
  BY DEF o, Batch
<1> HIDE DEF P
<1>3. \A i \in 1 .. Len(o) : /\ LoadEvent(o[i], u[o[i]]) \in Event
                             /\ LoadEvent(o[i], u[o[i]]).kind = "load"
                             /\ LoadEvent(o[i], u[o[i]]).asset = o[i]
                             /\ LoadEvent(o[i], u[o[i]]).upd = u[o[i]]
  BY <1>1 DEF LoadEvent, Event
<1>4. P \in Seq(Event) /\ Len(P) = Len(o)
  BY <1>1, <1>2, <1>3
<1>5. \A i \in 1 .. Len(P) : P[i].kind = "load" /\ P[i].asset = o[i] /\ P[i].upd = u[o[i]]
  BY <1>2, <1>3, <1>4
<1>6. \A i \in 1 .. Len(P) : P[i].kind = "load" /\ P[i].asset \in S /\ P[i].upd = u[P[i].asset]
  BY <1>1, <1>4, <1>5
<1>7. \A i, j \in 1 .. Len(P) : P[i].asset = P[j].asset => i = j
  BY <1>1, <1>4, <1>5
<1>8. \A x \in S : \E i \in 1 .. Len(P) : P[i].asset = x
  BY <1>1, <1>4, <1>5
<1>9. QED BY <1>1, <1>4, <1>6, <1>7, <1>8 DEF P

\* Load is reported to parents, once to each of them.
LEMMA FiredLoads ==
  ASSUME TInv, NEW a \in Asset, NEW r, AnswerOK(a, r)
  PROVE  /\ \A i \in 1 .. Len(Fired(a, r)) : Fired(a, r)[i].kind = "load" =>
              /\ Fired(a, r)[i].asset \in Parents[a]
              /\ r.streams = NoStreams => Fired(a, r)[i].upd = r.upd
         /\ \A i, j \in 1 .. Len(Fired(a, r)) :
              /\ Fired(a, r)[i].kind = "load" /\ Fired(a, r)[j].kind = "load"
              /\ Fired(a, r)[i].asset = Fired(a, r)[j].asset
              => i = j
         /\ r.streams = NoStreams /\ ~Same(r.upd) => \A b \in Parents[a] :
              \E i \in 1 .. Len(Fired(a, r)) : Fired(a, r)[i].kind = "load" /\ Fired(a, r)[i].asset = b
<1> DEFINE c == Ordered(Children(a))
           C == IF Same(r.out) THEN <<>> ELSE ToChildren(a, r.out)
           P == ToParents(a, r.streams, r.upd)
           F == C \o P
<1>1. Fired(a, r) = F
  BY DEF Fired
<1>2. Len(c) \in Nat /\ \A i \in 1 .. Len(c) : c[i] \in Children(a)
  BY Constants, OrderedLists
<1>3. \A i \in 1 .. Len(c) : VoltEvent(c[i], a, r.out) \in Event /\ VoltEvent(c[i], a, r.out).kind = "volt"
  BY <1>2, Constants DEF VoltEvent, Event, AnswerOK
<1> HIDE DEF c
<1>4. C \in Seq(Event) /\ \A i \in 1 .. Len(C) : C[i].kind = "volt"
  <2>1. CASE Same(r.out)
    BY <2>1
  <2>2. CASE ~Same(r.out)
    <3>1. C = [i \in 1 .. Len(c) |-> VoltEvent(c[i], a, r.out)]
      BY <2>2 DEF ToChildren, c
    <3> HIDE DEF C
    <3>2. C \in Seq(Event) /\ Len(C) = Len(c)
      BY <1>2, <1>3, <3>1
    <3>3. QED BY <1>2, <1>3, <3>1, <3>2
  <2>3. QED BY <2>1, <2>2
<1>5. /\ P \in Seq(Event) /\ Len(P) \in Nat
      /\ \A i \in 1 .. Len(P) : /\ P[i].kind = "load" /\ P[i].asset \in Parents[a]
                                /\ r.streams = NoStreams => P[i].upd = r.upd
      /\ \A i, j \in 1 .. Len(P) : P[i].asset = P[j].asset => i = j
      /\ r.streams = NoStreams /\ ~Same(r.upd) => \A b \in Parents[a] : \E i \in 1 .. Len(P) : P[i].asset = b
  <2>1. CASE r.streams # NoStreams
    <3> DEFINE S == {q \in DOMAIN r.streams : ~Same(r.streams[q])}
               u == r.streams
    <3>1. r.streams \in [Parents[a] -> Update]
      BY <2>1 DEF AnswerOK
    <3>2. S \in SUBSET Asset /\ S \subseteq Parents[a] /\ \A x \in S : u[x] \in Update
      BY <3>1, Constants
    <3>3. P = Batch(S, u)
      BY <2>1 DEF ToParents, Batch
    <3>4. r.streams # NoStreams
      BY <2>1
    <3> HIDE DEF S, P, u
    <3>5. /\ P \in Seq(Event) /\ Len(P) \in Nat
          /\ \A i \in 1 .. Len(P) : P[i].kind = "load" /\ P[i].asset \in S
          /\ \A i, j \in 1 .. Len(P) : P[i].asset = P[j].asset => i = j
      <4>1. S \in SUBSET Asset /\ \A x \in S : u[x] \in Update
        BY <3>2
      <4>2. QED BY <3>3, <4>1, OneEach
    <3>6. QED BY <3>2, <3>4, <3>5
  <2>2. CASE r.streams = NoStreams /\ Same(r.upd)
    <3>1. P = <<>>
      BY <2>2 DEF ToParents
    <3> HIDE DEF P
    <3>2. Len(P) = 0 /\ P \in Seq(Event)
      BY <3>1
    <3>3. QED BY <2>2, <3>2
  <2>3. CASE r.streams = NoStreams /\ ~Same(r.upd)
    <3> DEFINE S == Parents[a]
               u == [x \in S |-> r.upd]
    <3>1. P = [i \in 1 .. Len(Ordered(S)) |-> LoadEvent(Ordered(S)[i], r.upd)]
      BY <2>3 DEF ToParents
    <3>2. S \in SUBSET Asset /\ \A x \in S : u[x] = r.upd /\ u[x] \in Update
      BY Constants DEF AnswerOK
    <3>3. \A i \in 1 .. Len(Ordered(S)) : Ordered(S)[i] \in S
      BY <3>2, OrderedLists
    <3> HIDE DEF P, u, S
    <3>4. P = Batch(S, u)
      BY <3>1, <3>2, <3>3 DEF Batch
    <3>5. /\ P \in Seq(Event) /\ Len(P) \in Nat
          /\ \A i \in 1 .. Len(P) : P[i].kind = "load" /\ P[i].asset \in S /\ P[i].upd = u[P[i].asset]
          /\ \A i, j \in 1 .. Len(P) : P[i].asset = P[j].asset => i = j
          /\ \A x \in S : \E i \in 1 .. Len(P) : P[i].asset = x
      <4>1. S \in SUBSET Asset /\ \A x \in S : u[x] \in Update
        BY <3>2
      <4>2. QED BY <3>4, <4>1, OneEach
    <3>6. QED BY <3>2, <3>5 DEF S
  <2>4. QED BY <2>1, <2>2, <2>3
<1> HIDE DEF C, P
<1>6. /\ Len(C) \in Nat /\ Len(P) \in Nat /\ Len(F) = Len(C) + Len(P)
      /\ \A i \in 1 .. Len(C) : F[i] = C[i]
      /\ \A i \in (Len(C) + 1) .. Len(F) : F[i] = P[i - Len(C)]
  BY <1>4, <1>5
<1> HIDE DEF F
<1>7. ASSUME NEW i \in 1 .. Len(F), F[i].kind = "load"
      PROVE  i - Len(C) \in 1 .. Len(P) /\ F[i] = P[i - Len(C)]
  <2>1. i \notin 1 .. Len(C)
    BY <1>4, <1>6, <1>7
  <2>2. i \in (Len(C) + 1) .. Len(F)
    BY <1>6, <2>1
  <2>3. QED BY <1>6, <2>2
<1>8. \A i \in 1 .. Len(F) : F[i].kind = "load" =>
        F[i].asset \in Parents[a] /\ (r.streams = NoStreams => F[i].upd = r.upd)
  BY <1>5, <1>7
<1>9. ASSUME NEW i \in 1 .. Len(F), NEW j \in 1 .. Len(F),
             F[i].kind = "load", F[j].kind = "load", F[i].asset = F[j].asset
      PROVE  i = j
  <2>1. i - Len(C) \in 1 .. Len(P) /\ j - Len(C) \in 1 .. Len(P)
        /\ P[i - Len(C)].asset = P[j - Len(C)].asset
    BY <1>7, <1>9
  <2>2. i - Len(C) = j - Len(C)
    BY <1>5, <2>1
  <2>3. QED BY <1>6, <2>2
<1>10. ASSUME r.streams = NoStreams, ~Same(r.upd), NEW b \in Parents[a]
       PROVE  \E i \in 1 .. Len(F) : F[i].kind = "load" /\ F[i].asset = b
  <2>1. PICK j \in 1 .. Len(P) : P[j].asset = b
    BY <1>5, <1>10
  <2>2. j + Len(C) \in (Len(C) + 1) .. Len(F) /\ j + Len(C) \in 1 .. Len(F) /\ j + Len(C) - Len(C) = j
    BY <1>6
  <2>3. F[j + Len(C)] = P[j]
    BY <1>6, <2>2
  <2>4. QED BY <1>5, <2>1, <2>2, <2>3
<1>11. QED BY <1>1, <1>8, <1>9, <1>10

\* So that each outlet or PDU above hears of the change of load, and no other.
LEMMA FiredReports ==
  ASSUME Steady, TInv, NEW a \in Asset, NEW r, AnswerOK(a, r), NEW b \in Carriers,
         a \in Servers \/ r.streams = NoStreams
  PROVE  Reports(Fired(a, r), b, IF a \in Children(b) THEN r.upd.new - r.upd.old ELSE 0)
<1> DEFINE F == Fired(a, r)
           d == IF a \in Children(b) THEN r.upd.new - r.upd.old ELSE 0
<1>1. F \in Seq(Event)
  BY FiredTyped
<1>2. a \in Children(b) <=> b \in Parents[a]
  BY DEF Children
<1>3. a \in Servers => b \notin Parents[a]
  BY FlowAssumption DEF FlowAssumption, Carriers
<1>4. /\ \A i \in 1 .. Len(F) : F[i].kind = "load" =>
           F[i].asset \in Parents[a] /\ (r.streams = NoStreams => F[i].upd = r.upd)
      /\ \A i, j \in 1 .. Len(F) :
           F[i].kind = "load" /\ F[j].kind = "load" /\ F[i].asset = F[j].asset => i = j
      /\ r.streams = NoStreams /\ ~Same(r.upd) => \A x \in Parents[a] :
           \E i \in 1 .. Len(F) : F[i].kind = "load" /\ F[i].asset = x
  BY FiredLoads
<1>5. Same(r.upd) => r.upd.new - r.upd.old = 0
  BY DEF Same, AnswerOK, Update
<1> HIDE DEF F
<1>6. (\A i \in 1 .. Len(F) : ~(F[i].kind = "load" /\ F[i].asset = b)) => d = 0
  BY <1>2, <1>3, <1>4, <1>5
<1>7. \A i \in 1 .. Len(F) : F[i].kind = "load" /\ F[i].asset = b => F[i].upd.new - F[i].upd.old = d
  BY <1>2, <1>3, <1>4
<1> HIDE DEF d
<1>8. Reports(F, b, d)
  BY <1>1, <1>4, <1>6, <1>7, ReportsOnce
<1>9. QED BY <1>8 DEF F, d

\* A load that is passed on changes what each parent carries by as much.
Upward(a, u) ==
  [i \in 1 .. Len(Ordered(Parents[a])) |-> LoadEvent(Ordered(Parents[a])[i], u)]

LEMMA PassedUp ==
  ASSUME Steady, NEW a \in Asset, NEW u \in Update, NEW b \in Carriers, NEW F, F = Upward(a, u)
  PROVE  /\ F \in Seq(Event) /\ \A i \in 1 .. Len(F) : F[i].kind = "load" /\ F[i].asset \in Parents[a]
         /\ Reports(F, b, IF a \in Children(b) THEN u.new - u.old ELSE 0)
<1> DEFINE S == Parents[a]
           w == [x \in S |-> u]
           d == IF a \in Children(b) THEN u.new - u.old ELSE 0
<1>1. S \in SUBSET Asset /\ \A x \in S : w[x] = u /\ w[x] \in Update
  BY Constants
<1>2. \A i \in 1 .. Len(Ordered(S)) : Ordered(S)[i] \in S
  BY <1>1, OrderedLists
<1>3. a \in Children(b) <=> b \in S
  BY DEF Children
<1> HIDE DEF w, S
<1>4. F = Batch(S, w)
  BY <1>1, <1>2 DEF S, Upward, Batch
<1>5. /\ F \in Seq(Event)
      /\ \A i \in 1 .. Len(F) : F[i].kind = "load" /\ F[i].asset \in S /\ F[i].upd = w[F[i].asset]
      /\ \A i, j \in 1 .. Len(F) : F[i].asset = F[j].asset => i = j
      /\ \A x \in S : \E i \in 1 .. Len(F) : F[i].asset = x
  <2>1. S \in SUBSET Asset /\ \A x \in S : w[x] \in Update
    BY <1>1
  <2>2. QED BY <1>4, <2>1, OneEach
<1>6. ASSUME NEW i \in 1 .. Len(F), F[i].asset = b PROVE F[i].upd.new - F[i].upd.old = d
  <2>1. F[i].upd = w[b] /\ b \in S
    BY <1>5, <1>6
  <2>2. F[i].upd = u
    BY <1>1, <2>1
  <2>3. QED BY <1>3, <2>1, <2>2
<1>7. (\A i \in 1 .. Len(F) : ~(F[i].kind = "load" /\ F[i].asset = b)) => d = 0
  BY <1>3, <1>5
<1> HIDE DEF d
<1>8. Reports(F, b, d)
  <2>1. \A i, j \in 1 .. Len(F) :
          F[i].kind = "load" /\ F[j].kind = "load" /\ F[i].asset = b /\ F[j].asset = b => i = j
    BY <1>5
  <2>2. \A i \in 1 .. Len(F) : F[i].kind = "load" /\ F[i].asset = b => F[i].upd.new - F[i].upd.old = d
    BY <1>6
  <2>3. F \in Seq(Event)
    BY <1>5
  <2>4. QED BY <1>7, <2>1, <2>2, <2>3, ReportsOnce
<1>9. Reports(F, b, IF a \in Children(b) THEN u.new - u.old ELSE 0)
  BY <1>8 DEF d
<1>10. QED BY <1>5, <1>9 DEF S

\* Nothing is drawn without power or without voltage.
LEMMA NoAmps ==
  /\ \A w \in Nat : Amps(w, 0) = 0
  /\ \A v \in Nat : Amps(0, v) = 0
<1>1. \A v \in Nat \ {0} : 0 \div v = 0
  OBVIOUS
<1>2. QED BY <1>1 DEF Amps

\* What an asset draws, and what its parents have been told.
LEMMA OwnIsNat ==
  ASSUME TypeOK
  PROVE  /\ \A a \in Asset : OwnLoad(a) \in Nat
         /\ Shown \in [Asset -> Nat]
<1>1. ASSUME NEW a \in Asset PROVE OwnLoad(a) \in Nat
  BY OutVoltIsNat, Constants, AmpsAreNat DEF OwnLoad
<1>2. \A a \in Asset : load[a] \in Nat
  BY DEF TypeOK
<1>3. QED BY <1>1, <1>2 DEF Shown

\* So it is after a step.
LEMMA OwnIsNatNext ==
  ASSUME TypeOK'
  PROVE  /\ \A a \in Asset : OwnLoad(a)' \in Nat
         /\ Shown' \in [Asset -> Nat]
<1>1. ASSUME NEW a \in Asset PROVE OwnLoad(a)' \in Nat
  <2>1. volt'[a] \in Nat /\ status'[a] \in {0, 1}
    BY DEF TypeOK
  <2>2. volt'[a] * status'[a] \in Nat
    BY <2>1
  <2>3. OwnLoad(a)' = Amps(Consumption[a], volt'[a] * status'[a])
    BY DEF OwnLoad, OutVolt
  <2>4. QED BY <2>2, <2>3, Constants, AmpsAreNat
<1>2. \A a \in Asset : load'[a] \in Nat
  BY DEF TypeOK
<1>3. QED BY <1>1, <1>2 DEF Shown

\* What a carrier is due changes by its own load and by what is shown of its
\* children.
LEMMA DueChanges ==
  ASSUME TypeOK, TypeOK', NEW b \in Asset, NEW c, NEW d \in Int,
         \A x \in Children(b) : Shown'[x] = Shown[x] + (IF x = c THEN d ELSE 0)
  PROVE  /\ Due(b) \in Int /\ Due(b)' \in Int /\ OwnLoad(b) \in Nat /\ OwnLoad(b)' \in Nat
         /\ Due(b)' = Due(b) + (OwnLoad(b)' - OwnLoad(b)) + (IF c \in Children(b) THEN d ELSE 0)
         /\ Due(b) >= OwnLoad(b) /\ Due(b)' >= OwnLoad(b)'
<1> DEFINE S == Children(b)
<1>1. PICK f : f = Shown
  OBVIOUS
<1>2. PICK g : g = Shown'
  OBVIOUS
<1>3. IsFiniteSet(S) /\ S \subseteq Asset
  <2>1. S \subseteq Asset
    BY Constants
  <2>2. IsFiniteSet(Asset)
    BY FlowAssumption DEF FlowAssumption
  <2>3. QED BY <2>1, <2>2, FS_Subset
<1>4. \A x \in S : f[x] \in Nat /\ g[x] \in Nat
  BY <1>1, <1>2, <1>3, OwnIsNat, OwnIsNatNext
<1>5. \A x \in S : g[x] = f[x] + (IF x = c THEN d ELSE 0)
  BY <1>1, <1>2
<1> DEFINE F == SumFunctionOnSet(f, S)
           G == SumFunctionOnSet(g, S)
<1>6. F \in Nat /\ G \in Nat
  BY <1>3, <1>4, SumIsNat
<1>7. G = F + (IF c \in S THEN d ELSE 0)
  <2>1. \A x \in S : f[x] \in Int
    BY <1>4
  <2> HIDE DEF S
  <2>2. QED BY <1>3, <1>5, <2>1, SumChanges
<1>8. Due(b) = OwnLoad(b) + F
  BY <1>1 DEF Due
<1>9. Due(b)' = OwnLoad(b)' + G
  BY <1>2 DEF Due
<1>10. OwnLoad(b) \in Nat /\ OwnLoad(b)' \in Nat
  BY OwnIsNat, OwnIsNatNext
<1> HIDE DEF F, G
<1>11. QED BY <1>6, <1>7, <1>8, <1>9, <1>10 DEF S

\* What is reported of a brings b, which is above it, what b is due then.
LEMMA CourseOf ==
  ASSUME TypeOK, TypeOK', queue \in Seq(Event), queue # <<>>, NEW b \in Carriers, NEW c, NEW d \in Int,
         \A x \in Children(b) : Shown'[x] = Shown[x] + (IF x = c THEN d ELSE 0),
         NEW F \in Seq(Event), Reports(F, b, IF c \in Children(b) THEN d ELSE 0),
         Arrives(queue, b, load[b], OwnLoad(b), Due(b)),
         load'[b] = load[b] + Change(Head(queue), b) + (OwnLoad(b)' - OwnLoad(b))
  PROVE  Arrives(Tail(queue) \o F, b, load'[b], OwnLoad(b)', Due(b)')
<1> DEFINE e == OwnLoad(b)' - OwnLoad(b)
           dd == IF c \in Children(b) THEN d ELSE 0
<1>1. b \in Asset
  BY DEF Carriers
<1>2. /\ Due(b) \in Int /\ Due(b)' \in Int /\ OwnLoad(b) \in Nat /\ OwnLoad(b)' \in Nat
      /\ Due(b)' = Due(b) + (OwnLoad(b)' - OwnLoad(b)) + (IF c \in Children(b) THEN d ELSE 0)
      /\ Due(b)' >= OwnLoad(b)'
  BY <1>1, DueChanges
<1>3. e \in Int /\ dd \in Int /\ OwnLoad(b) + e = OwnLoad(b)' /\ Due(b)' = Due(b) + e + dd
  BY <1>2
<1>4. Due(b) + dd >= OwnLoad(b)
  BY <1>2, <1>3
<1>5. PICK low, due, low2, due2 :
        low = OwnLoad(b) /\ due = Due(b) /\ low2 = OwnLoad(b)' /\ due2 = Due(b)'
  OBVIOUS
<1>6. PICK ee : ee = e
  OBVIOUS
<1> HIDE DEF e, dd
<1>7. /\ low \in Int /\ ee \in Int /\ low + ee = low2 /\ due2 = due + ee + dd
      /\ due + dd >= low /\ Arrives(queue, b, load[b], low, due)
      /\ load'[b] = load[b] + Change(Head(queue), b) + ee /\ Reports(F, b, dd) /\ dd \in Int
  BY <1>2, <1>3, <1>4, <1>5, <1>6 DEF e, dd
<1>8. Arrives(Tail(queue) \o F, b, load[b] + Change(Head(queue), b) + ee, low + ee, due + ee + dd)
  BY <1>7, CourseStep
<1>9. QED BY <1>5, <1>7, <1>8

\* When an asset has handled the first event, and has reported what changed,
\* every outlet and PDU is still on its course.
LEMMA CourseKept ==
  ASSUME Steady, TInv, TInv', OnCourse, queue # <<>>, NEW a \in Asset, Head(queue).asset = a,
         NEW F \in Seq(Event), queue' = Tail(queue) \o F,
         \A b \in Asset \ {a} : status'[b] = status[b] /\ volt'[b] = volt[b] /\ load'[b] = load[b],
         a \in Carriers =>
           load'[a] = load[a] + Change(Head(queue), a) + (OwnLoad(a)' - OwnLoad(a)),
         NEW d \in Int,
         Kind[a] = "static" => OwnLoad(a)' = OwnLoad(a) + d,
         Kind[a] \notin {"static", "server"} => load'[a] = load[a] + d,
         \A b \in Carriers : Reports(F, b, IF a \in Children(b) THEN d ELSE 0)
  PROVE  OnCourse'
<1> SUFFICES ASSUME NEW b \in Carriers
             PROVE  Arrives(queue', b, load'[b], OwnLoad(b)', Due(b)')
  BY DEF OnCourse
<1>1. b \in Asset /\ Kind[b] \in {"outlet", "pdu"}
  BY DEF Carriers
<1>2. TypeOK /\ TypeOK' /\ queue \in Seq(Event)
  BY DEF TInv
<1>3. \A x \in Asset \ {a} : OwnLoad(x)' = OwnLoad(x)
  BY DEF OwnLoad, OutVolt
<1>4. ASSUME NEW x \in Children(b)
      PROVE  Shown'[x] = Shown[x] + (IF x = a THEN d ELSE 0)
  <2>1. x \in Asset /\ b \in Parents[x]
    BY DEF Children
  <2>2. Kind[x] # "server"
    BY <1>1, <2>1, FlowAssumption DEF FlowAssumption, Servers
  <2>3. /\ Shown[x] = (IF Kind[x] = "static" THEN OwnLoad(x) ELSE load[x])
        /\ Shown'[x] = (IF Kind[x] = "static" THEN OwnLoad(x)' ELSE load'[x])
    BY <2>1 DEF Shown
  <2>4. OwnLoad(x) \in Nat /\ load[x] \in Nat
    BY <1>2, <2>1, OwnIsNat DEF TypeOK
  <2>5. CASE x = a
    BY <2>2, <2>3, <2>5
  <2>6. CASE x # a
    BY <1>3, <2>1, <2>3, <2>4, <2>6
  <2>7. QED BY <2>5, <2>6
<1>5. load'[b] = load[b] + Change(Head(queue), b) + (OwnLoad(b)' - OwnLoad(b))
  <2>1. CASE b = a
    BY <2>1
  <2>2. CASE b # a
    <3>1. Change(Head(queue), b) = 0
      BY <2>2 DEF Change
    <3>2. OwnLoad(b)' - OwnLoad(b) = 0
      <4>1. OwnLoad(b) \in Nat /\ OwnLoad(b)' = OwnLoad(b)
        BY <1>1, <1>2, <1>3, <2>2, OwnIsNat
      <4>2. QED BY <4>1
    <3>3. load'[b] = load[b] /\ load[b] \in Nat
      BY <1>1, <1>2, <2>2 DEF TypeOK
    <3>4. QED BY <3>1, <3>2, <3>3
  <2>3. QED BY <2>1, <2>2
<1>6. Arrives(queue, b, load[b], OwnLoad(b), Due(b)) /\ Reports(F, b, IF a \in Children(b) THEN d ELSE 0)
  BY DEF OnCourse
<1>7. \A x \in Children(b) : Shown'[x] = Shown[x] + (IF x = a THEN d ELSE 0)
  BY <1>4
<1>8. Arrives(Tail(queue) \o F, b, load'[b], OwnLoad(b)', Due(b)')
  BY <1>2, <1>5, <1>6, <1>7, CourseOf
<1>9. QED BY <1>8

\* It is too when nothing is on its way and none of the events that are fired
\* tells of a load.
LEMMA CourseBegins ==
  ASSUME Steady, TInv, TInv', OnCourse, queue = <<>>,
         \A k \in 1 .. Len(queue') : queue'[k].kind # "load",
         UNCHANGED <<status, volt>>,
         \A b \in Asset : Kind[b] \notin {"static", "server"} => load'[b] = load[b]
  PROVE  OnCourse'
<1> SUFFICES ASSUME NEW b \in Carriers
             PROVE  Arrives(queue', b, load'[b], OwnLoad(b)', Due(b)')
  BY DEF OnCourse
<1>1. b \in Asset /\ Kind[b] \in {"outlet", "pdu"}
  BY DEF Carriers
<1>2. TypeOK /\ TypeOK' /\ queue \in Seq(Event) /\ queue' \in Seq(Event)
  BY DEF TInv
<1>3. \A x \in Asset : OwnLoad(x)' = OwnLoad(x)
  BY DEF OwnLoad, OutVolt
<1>4. ASSUME NEW x \in Children(b)
      PROVE  Shown'[x] = Shown[x] + (IF x = b THEN 0 ELSE 0)
  <2>1. x \in Asset /\ b \in Parents[x]
    BY DEF Children
  <2>2. Kind[x] # "server"
    BY <1>1, <2>1, FlowAssumption DEF FlowAssumption, Servers
  <2>3. /\ Shown[x] = (IF Kind[x] = "static" THEN OwnLoad(x) ELSE load[x])
        /\ Shown'[x] = (IF Kind[x] = "static" THEN OwnLoad(x)' ELSE load'[x])
    BY <2>1 DEF Shown
  <2>4. OwnLoad(x) \in Nat /\ load[x] \in Nat
    BY <1>2, <2>1, OwnIsNat DEF TypeOK
  <2>5. QED BY <1>3, <2>1, <2>2, <2>3, <2>4
<1>5. /\ Due(b)' \in Int /\ Due(b) \in Int /\ OwnLoad(b) \in Nat
      /\ Due(b)' = Due(b) + (OwnLoad(b)' - OwnLoad(b)) + (IF b \in Children(b) THEN 0 ELSE 0)
  BY <1>1, <1>2, <1>4, DueChanges
<1>6. Due(b)' = Due(b) /\ OwnLoad(b)' = OwnLoad(b)
  BY <1>1, <1>3, <1>5
<1>7. load[b] \in Int /\ load[b] >= OwnLoad(b) /\ load[b] = Due(b)
  <2>1. Arrives(queue, b, load[b], OwnLoad(b), Due(b))
    BY DEF OnCourse
  <2>2. QED BY <1>2, <2>1, CourseHere
<1>8. load'[b] = load[b]
  BY <1>1
<1>9. \A k \in 1 .. Len(queue') : Change(queue'[k], b) = 0
  BY DEF Change
<1>10. PICK low, l, q : low = OwnLoad(b) /\ l = load[b] /\ q = queue'
  OBVIOUS
<1>11. Arrives(q, b, l, low, l)
  BY <1>2, <1>5, <1>7, <1>9, <1>10, CourseQuiet
<1>12. QED BY <1>6, <1>7, <1>8, <1>10, <1>11

\* The engine handles an event.
LEMMA HandledKeeps ==
  ASSUME Steady, Lossless, LInv, SInv', queue # <<>>, requests' = requests,
         NEW a \in Asset, Head(queue).asset = a,
         NEW F \in Seq(Event), queue' = Tail(queue) \o F,
         \A i \in 1 .. Len(F) : /\ F[i].kind \in {"volt", "load"}
                                /\ F[i].kind = "load" => F[i].asset \in Parents[a],
         \A b \in Asset \ {a} : status'[b] = status[b] /\ volt'[b] = volt[b] /\ load'[b] = load[b],
         a \in Carriers =>
           load'[a] = load[a] + Change(Head(queue), a) + (OwnLoad(a)' - OwnLoad(a)),
         NEW d \in Int,
         Kind[a] = "static" => OwnLoad(a)' = OwnLoad(a) + d /\ load'[a] = OwnLoad(a)',
         Kind[a] \notin {"static", "server"} => load'[a] = load[a] + d,
         \A b \in Carriers : Reports(F, b, IF a \in Children(b) THEN d ELSE 0)
  PROVE  LInv'
<1>1. TInv /\ TInv' /\ Alone /\ OnCourse /\ Lamps /\ queue \in Seq(Event)
  BY DEF LInv, SInv, TInv
<1>2. OnCourse'
  BY <1>1, CourseKept
<1>3. ASSUME NEW e \in InLine'
      PROVE  (e \in InLine /\ e.kind \in {"volt", "load"}) \/ \E i \in 1 .. Len(F) : e = F[i]
  <2>1. PICK k \in 1 .. Len(queue') : e = queue'[k]
    BY DEF InLine
  <2>2. /\ Tail(queue) \in Seq(Event) /\ Len(queue) \in Nat /\ Len(queue) > 0
        /\ Len(Tail(queue)) = Len(queue) - 1
        /\ \A i \in 1 .. Len(queue) - 1 : Tail(queue)[i] = queue[i + 1]
    BY <1>1
  <2>3. PICK t \in Seq(Event) : t = Tail(queue)
    BY <2>2
  <2>4. queue' = t \o F
    BY <2>3
  <2>5. Len(queue') = Len(t) + Len(F) /\ Len(t) \in Nat /\ Len(F) \in Nat
    BY <2>4
  <2>6. CASE k \in 1 .. Len(t)
    <3>1. e = t[k]
      BY <2>1, <2>4, <2>6
    <3>2. k + 1 \in 1 .. Len(queue) /\ e = queue[k + 1]
      BY <2>2, <2>3, <2>6, <3>1
    <3>3. e \in InLine /\ e \in Event
      BY <1>1, <3>2 DEF InLine
    <3>4. Len(queue) # 1
      BY <2>2, <2>5, <2>6, <3>2
    <3>5. e.kind \notin {"press", "signal"}
      <4>1. ASSUME queue = <<e>> PROVE FALSE
        BY <3>4, <4>1
      <4>2. QED BY <1>1, <3>3, <4>1 DEF Alone
    <3>6. QED BY <3>3, <3>5 DEF Event
  <2>7. CASE k \in Len(t) + 1 .. Len(t) + Len(F)
    <3>1. k - Len(t) \in 1 .. Len(F) /\ e = F[k - Len(t)]
      BY <2>1, <2>4, <2>5, <2>7
    <3>2. QED BY <3>1
  <2>8. QED BY <2>1, <2>5, <2>6, <2>7
<1>4. Orders' = {}
  <2>1. requests' = <<>> /\ Len(requests') = 0
    BY <1>1, OneOrder
  <2>2. {requests'[i] : i \in 1 .. Len(requests')} = {}
    BY <2>1
  <2>3. \A e \in InLine' : e.kind \notin {"press", "signal"}
    BY <1>3
  <2>4. QED BY <2>2, <2>3 DEF Orders
<1>5. ASSUME NEW e \in InLine', e.kind = "load" PROVE Kind[e.asset] # "static"
  <2>1. CASE e \in InLine
    BY <1>1, <1>5, <2>1 DEF Lamps
  <2>2. CASE e \notin InLine
    <3>1. e.asset \in Parents[a]
      BY <1>3, <1>5, <2>2
    <3>2. e.asset \in Asset /\ a \in Children(e.asset)
      BY <3>1, Constants DEF Children
    <3>3. QED BY <3>2 DEF Lossless
  <2>3. QED BY <2>1, <2>2
<1>6. ASSUME NEW b \in Asset, Kind[b] = "static" PROVE load'[b] = OwnLoad(b)'
  <2>1. CASE b = a
    BY <1>6, <2>1
  <2>2. CASE b # a
    <3>1. \A e \in Orders : e = Head(queue)
      <4>1. Head(queue) \in Event
        BY <1>1
      <4>2. Head(queue).kind \in {"volt", "load", "press", "signal"}
        BY <4>1 DEF Event
      <4>3. QED BY <1>1, <4>2, OneOrder
    <3>2. load[b] = OwnLoad(b)
      BY <1>1, <1>6, <2>2, <3>1 DEF Lamps
    <3>3. OwnLoad(b)' = OwnLoad(b)
      BY <2>2 DEF OwnLoad, OutVolt
    <3>4. load'[b] = load[b]
      BY <2>2
    <3>5. QED BY <3>2, <3>3, <3>4
  <2>3. QED BY <2>1, <2>2
<1>7. Lamps'
  BY <1>4, <1>5, <1>6 DEF Lamps
<1>8. Possible'
  BY <1>4 DEF Possible
<1>9. QED BY <1>2, <1>7, <1>8 DEF LInv

\* What an answer leaves of the load, and what it reports.
LEMMA AnswerKeeps ==
  ASSUME Steady, Lossless, LInv, SInv', queue # <<>>, requests' = requests,
         NEW a \in Asset, Head(queue).asset = a, Head(queue).kind # "load",
         NEW r, AnswerOK(a, r), Settle(a, r), a \in Servers \/ r.streams = NoStreams,
         a \notin Servers => /\ r.upd.new - r.upd.old = OwnLoad(a)' - OwnLoad(a)
                             /\ Kind[a] = "static" => r.load = OwnLoad(a)'
                             /\ Kind[a] # "static" => r.load = load[a] + (OwnLoad(a)' - OwnLoad(a))
  PROVE  LInv'
<1> DEFINE F == Fired(a, r)
           d == r.upd.new - r.upd.old
<1>1. TInv /\ TypeOK /\ TypeOK'
  BY DEF LInv, SInv, TInv
<1>2. /\ F \in Seq(Event)
      /\ \A i \in 1 .. Len(F) : F[i].kind \in {"volt", "load"}
      /\ \A i \in 1 .. Len(F) : F[i].kind = "load" => F[i].asset \in Parents[a]
  BY <1>1, FiredIs, FiredLoads
<1>3. d \in Int
  BY DEF AnswerOK, Update
<1>4. \A b \in Carriers : Reports(F, b, IF a \in Children(b) THEN d ELSE 0)
  BY <1>1, FiredReports
<1>5. /\ status' = [status EXCEPT ![a] = r.status] /\ volt' = [volt EXCEPT ![a] = r.volt]
      /\ load' = [load EXCEPT ![a] = r.load] /\ queue' = Tail(queue) \o F
  BY DEF Settle
<1>6. /\ load'[a] = r.load
      /\ \A b \in Asset \ {a} : status'[b] = status[b] /\ volt'[b] = volt[b] /\ load'[b] = load[b]
  BY <1>1, <1>5 DEF TypeOK
<1>7. a \in Servers <=> Kind[a] = "server"
  BY DEF Servers
<1>8. Change(Head(queue), a) = 0
  BY DEF Change
<1>9. OwnLoad(a) \in Nat /\ OwnLoad(a)' \in Nat /\ load[a] \in Nat
  BY <1>1, OwnIsNat, OwnIsNatNext DEF TypeOK
<1> HIDE DEF F, d
<1>10. a \notin Servers => d = OwnLoad(a)' - OwnLoad(a)
  BY DEF d
<1>11. a \in Carriers => load'[a] = load[a] + Change(Head(queue), a) + (OwnLoad(a)' - OwnLoad(a))
  <2>1. SUFFICES ASSUME a \in Carriers
                 PROVE  load'[a] = load[a] + Change(Head(queue), a) + (OwnLoad(a)' - OwnLoad(a))
    OBVIOUS
  <2>2. a \notin Servers /\ Kind[a] # "static"
    BY <1>7, <2>1 DEF Carriers
  <2>3. load'[a] = load[a] + (OwnLoad(a)' - OwnLoad(a))
    BY <1>6, <2>2
  <2>4. QED BY <1>8, <1>9, <2>3
<1>12. Kind[a] = "static" => OwnLoad(a)' = OwnLoad(a) + d
  BY <1>7, <1>9, <1>10
<1>13. Kind[a] \notin {"static", "server"} => load'[a] = load[a] + d
  BY <1>6, <1>7, <1>9, <1>10
<1>14. Kind[a] = "static" => load'[a] = OwnLoad(a)'
  BY <1>6, <1>7
<1>15. QED BY <1>2, <1>3, <1>4, <1>5, <1>6, <1>11, <1>12, <1>13, <1>14, HandledKeeps

\* A voltage event, answered: what the asset draws changes its load, and is
\* reported.
LEMMA VoltageLoad ==
  ASSUME Steady, Lossless, TInv, NEW a \in Asset, a \notin Off, Kind[a] # "server",
         NEW new \in Volts \cup {0}, new # 0 => ParentsAvailable(a),
         status[a] = 0 => volt[a] = 0, load[a] >= OwnLoad(a) \/ Kind[a] = "psu",
         Kind[a] = "static" => load[a] = OwnLoad(a)
  PROVE  /\ OnInputVoltage(a, new).streams = NoStreams
         /\ OnInputVoltage(a, new).upd = Pair(OwnLoad(a), Amps(Consumption[a], new))
         /\ Kind[a] = "static" => OnInputVoltage(a, new).load = Amps(Consumption[a], new)
         /\ Kind[a] # "static" =>
              OnInputVoltage(a, new).load = load[a] + (Amps(Consumption[a], new) - OwnLoad(a))
<1> DEFINE down == new <= MinVoltage[a] /\ status[a] = 1
           up == new > MinVoltage[a] /\ status[a] = 0 /\ a \notin userOff /\ a \in OnAc
           starts == up /\ ParentsAvailable(a)
           st == IF down THEN 0 ELSE IF starts THEN 1 ELSE status[a]
           out == IF down \/ up THEN Pair(OutVolt(a) * status[a], new * st)
                  ELSE Pair(OutVolt(a), new)
           base == IF down THEN LoadOnPowerOff(a)
                   ELSE IF starts THEN LoadOnPowerUp(a) ELSE load[a]
           counted == st = 1 \/ st # status[a]
           upd == IF counted THEN Pair(Amps(Consumption[a], out.old),
                                       Amps(Consumption[a], out.new))
                  ELSE Pair(0, 0)
           r == OnInputVoltage(a, new)
           own == OwnLoad(a)
           next == Amps(Consumption[a], new)
<1>1. /\ r.status = st /\ r.out = out /\ r.streams = NoStreams /\ r.upd = upd
      /\ r.load = IF Same(upd) THEN base ELSE NotBelow0(base - upd.old + upd.new)
  BY DEF OnInputVoltage, Answer
<1>2. /\ status[a] \in {0, 1} /\ volt[a] \in Nat /\ load[a] \in Nat /\ OutVolt(a) \in Nat
      /\ new \in Nat /\ MinVoltage[a] \in Nat /\ Consumption[a] \in Nat
      /\ own \in Nat /\ next \in Nat
      /\ (status[a] = 0 => OutVolt(a) = 0 /\ own = 0) /\ (new = 0 => next = 0)
      /\ a \notin userOff /\ a \in OnAc /\ (new # 0 => new > MinVoltage[a])
  <2>1. /\ status[a] \in {0, 1} /\ volt[a] \in Nat /\ load[a] \in Nat /\ OutVolt(a) \in Nat
        /\ new \in Nat /\ MinVoltage[a] \in Nat /\ Consumption[a] \in Nat
        /\ (status[a] = 0 => OutVolt(a) = 0)
    <3>1. TypeOK
      BY DEF TInv
    <3>2. OutVolt(a) \in Nat /\ (status[a] = 0 => OutVolt(a) = 0)
      BY <3>1, OutVoltIsNat
    <3>3. status[a] \in {0, 1} /\ volt[a] \in Nat /\ load[a] \in Nat
      BY <3>1 DEF TypeOK
    <3>4. Volts \subseteq Nat /\ MinVoltage \in [Asset -> Nat] /\ Consumption \in [Asset -> Nat]
      BY Constants
    <3>5. new \in Nat
      BY <3>4
    <3>6. MinVoltage[a] \in Nat /\ Consumption[a] \in Nat
      BY <3>4
    <3>7. QED BY <3>2, <3>3, <3>5, <3>6
  <2>2. own \in Nat /\ next \in Nat
    BY <2>1, OwnIsNat, AmpsAreNat DEF TInv
  <2>3. (status[a] = 0 => own = 0) /\ (new = 0 => next = 0)
    BY <2>1, NoAmps DEF OwnLoad
  <2>4. a \notin userOff /\ a \in OnAc /\ (new # 0 => new > MinVoltage[a])
    BY <2>1 DEF Steady, Off
  <2>5. QED BY <2>1, <2>2, <2>3, <2>4
<1>3. out = Pair(OutVolt(a), new) /\ st = IF new = 0 THEN 0 ELSE 1
  BY <1>1, VoltageAnswer
<1> HIDE DEF out
<1>4. upd = Pair(own, next)
  <2>1. out.old = OutVolt(a) /\ out.new = new
    BY <1>3, PairIsUpdate
  <2>2. CASE counted
    BY <2>1, <2>2 DEF OwnLoad
  <2>3. CASE ~counted
    <3>1. st = 0 /\ status[a] = 0
      BY <1>3, <2>3
    <3>2. new = 0
      BY <1>3, <3>1
    <3>3. own = 0 /\ next = 0
      BY <1>2, <3>1, <3>2
    <3>4. upd = Pair(0, 0)
      BY <2>3
    <3> HIDE DEF upd, own, next
    <3>5. QED BY <3>3, <3>4
  <2>4. QED BY <2>2, <2>3
<1>5. upd.old = own /\ upd.new = next /\ (Same(upd) <=> own = next)
  BY <1>4, PairIsUpdate DEF Same
<1>6. down <=> new = 0 /\ status[a] = 1
  BY <1>2
<1>7. starts <=> new # 0 /\ status[a] = 0
  BY <1>2
<1> HIDE DEF upd, down, starts, own, next, st
<1>8. r.load = IF own = next THEN base ELSE NotBelow0(base - own + next)
  BY <1>1, <1>5
<1>9. CASE Kind[a] = "static"
  <2>1. base = IF down THEN 0 ELSE IF starts THEN Amps(Consumption[a], volt[a]) ELSE own
    BY <1>9 DEF LoadOnPowerOff, LoadOnPowerUp, own
  <2>2. starts => Amps(Consumption[a], volt[a]) = 0 /\ own = 0
    BY <1>2, <1>7, NoAmps
  <2>3. down => next = 0
    BY <1>2, <1>6
  <2> HIDE DEF base
  <2>4. ASSUME down PROVE r.load = next
    BY <1>2, <1>8, <2>1, <2>3, <2>4 DEF NotBelow0
  <2>5. ASSUME ~down PROVE r.load = next
    <3>1. base = own
      BY <2>1, <2>2, <2>5
    <3>2. QED BY <1>2, <1>8, <3>1 DEF NotBelow0
  <2>6. r.load = next
    BY <2>4, <2>5
  <2>7. QED BY <1>1, <1>4, <1>9, <2>6 DEF own, next
<1>10. CASE Kind[a] # "static"
  <2>1. Amps(Consumption[a], volt[a]) = 0 \/ Kind[a] # "psu"
    BY <1>2, NoAmps DEF Lossless
  <2>2. base = load[a]
    <3>1. LoadOnPowerOff(a) = load[a]
      BY <1>10 DEF LoadOnPowerOff
    <3>2. LoadOnPowerUp(a) = load[a]
      BY <1>2, <1>10, <2>1 DEF LoadOnPowerUp, PsuLoadOnPowerUp
    <3>3. QED BY <3>1, <3>2
  <2>3. Kind[a] = "psu" => own = 0 /\ next = 0
    BY <1>2, NoAmps DEF Lossless, own, next, OwnLoad
  <2> HIDE DEF base
  <2>4. load[a] >= own
    BY <1>2, <2>3 DEF own
  <2>5. r.load = load[a] + (next - own)
    BY <1>2, <1>8, <2>2, <2>4 DEF NotBelow0
  <2>6. QED BY <1>1, <1>4, <1>10, <2>5 DEF own, next
<1>11. QED BY <1>9, <1>10

\* What is passed up goes to the parents.
LEMMA UpwardTyped ==
  ASSUME Steady, NEW a \in Asset, NEW u \in Update, NEW F, F = Upward(a, u)
  PROVE  F \in Seq(Event) /\ \A i \in 1 .. Len(F) : F[i].kind = "load" /\ F[i].asset \in Parents[a]
<1> DEFINE S == Parents[a]
           w == [x \in S |-> u]
<1>1. S \in SUBSET Asset /\ \A x \in S : w[x] = u /\ w[x] \in Update
  BY Constants
<1>2. \A i \in 1 .. Len(Ordered(S)) : Ordered(S)[i] \in S
  BY <1>1, OrderedLists
<1> HIDE DEF w, S
<1>3. F = Batch(S, w)
  BY <1>1, <1>2 DEF S, Upward, Batch
<1>4. /\ F \in Seq(Event)
      /\ \A i \in 1 .. Len(F) : F[i].kind = "load" /\ F[i].asset \in S
  <2>1. S \in SUBSET Asset /\ \A x \in S : w[x] \in Update
    BY <1>1
  <2>2. /\ Batch(S, w) \in Seq(Event)
        /\ \A i \in 1 .. Len(Batch(S, w)) :
             Batch(S, w)[i].kind = "load" /\ Batch(S, w)[i].asset \in S
    BY <2>1, OneEach
  <2>3. QED BY <1>3, <2>2
<1>5. QED BY <1>4 DEF S

\* What the invariant says of an asset that is about to handle an event.
LEMMA LoadHere ==
  ASSUME LInv, NEW a \in Asset
  PROVE  /\ a \in Carriers => load[a] >= OwnLoad(a)
         /\ a \in Carriers /\ queue # <<>> => load[a] + Change(Head(queue), a) >= OwnLoad(a)
         /\ Kind[a] = "static" /\ Orders = {} => load[a] = OwnLoad(a)
         /\ load[a] \in Nat /\ OwnLoad(a) \in Nat
<1>1. queue \in Seq(Event) /\ TypeOK
  BY DEF LInv, SInv, TInv
<1>2. a \in Carriers => Arrives(queue, a, load[a], OwnLoad(a), Due(a))
  BY DEF LInv, OnCourse
<1>3. /\ a \in Carriers => load[a] >= OwnLoad(a)
      /\ a \in Carriers /\ queue # <<>> => load[a] + Change(Head(queue), a) >= OwnLoad(a)
  BY <1>1, <1>2, CourseHere
<1>4. Kind[a] = "static" /\ Orders = {} => load[a] = OwnLoad(a)
  BY DEF LInv, Lamps
<1>5. load[a] \in Nat /\ OwnLoad(a) \in Nat
  BY <1>1, OwnIsNat DEF TypeOK
<1>6. QED BY <1>3, <1>4, <1>5

\* A voltage event.
LEMMA VoltageKeeps ==
  ASSUME Steady, Lossless, LInv, SInv', HandleVoltage
  PROVE  LInv'
<1>0. PICK h : h = Head(queue)
  OBVIOUS
<1> DEFINE a == h.asset
           new == h.upd.new
           r == OnInputVoltage(a, new)
<1>1. /\ queue # <<>> /\ h.kind = "volt" /\ Kind[a] # "server" /\ Settle(a, r)
      /\ requests' = requests
  BY <1>0 DEF HandleVoltage
<1>2. SInv /\ TInv /\ TypeOK /\ OffForAReason
  BY DEF LInv, SInv, TInv
<1>3. /\ Orders = {} /\ a \in Asset \ Servers /\ new \in Volts \cup {0} /\ new \in Nat
      /\ a \notin Off /\ (new # 0 => ParentsAvailable(a))
  BY <1>0, <1>2, VoltageFinds
<1>4. status[a] = 0 => volt[a] = 0
  BY <1>2, <1>3 DEF OffForAReason
<1>5. /\ load[a] >= OwnLoad(a) \/ Kind[a] = "psu"
      /\ Kind[a] = "static" => load[a] = OwnLoad(a)
  <2>1. /\ a \in Carriers => load[a] >= OwnLoad(a)
        /\ Kind[a] = "static" => load[a] = OwnLoad(a)
        /\ load[a] \in Nat /\ OwnLoad(a) \in Nat
    BY <1>3, LoadHere
  <2>2. Kind[a] \in {"outlet", "pdu", "static", "psu"}
    BY <1>1, <1>3, Constants
  <2>3. a \in Carriers \/ Kind[a] \in {"static", "psu"}
    BY <1>3, <2>2 DEF Carriers
  <2>4. QED BY <2>1, <2>3
<1>6. AnswerOK(a, r)
  BY <1>2, <1>3, VoltageAnswered
<1>7. r.volt = new /\ r.status = IF new = 0 THEN 0 ELSE 1
  BY <1>2, <1>3, VoltageAnswer
<1> DEFINE next == Amps(Consumption[a], new)
<1>8. /\ r.streams = NoStreams /\ r.upd = Pair(OwnLoad(a), next)
      /\ Kind[a] = "static" => r.load = next
      /\ Kind[a] # "static" => r.load = load[a] + (next - OwnLoad(a))
  BY <1>1, <1>2, <1>3, <1>4, <1>5, VoltageLoad
<1> HIDE DEF r
<1>9. OwnLoad(a)' = next
  <2>1. status'[a] = (IF new = 0 THEN 0 ELSE 1) /\ volt'[a] = new
    BY <1>1, <1>2, <1>3, <1>7 DEF Settle, TypeOK
  <2>2. new * 0 = 0 /\ new * 1 = new
    BY <1>3
  <2>3. OwnLoad(a)' = Amps(Consumption[a], volt'[a] * status'[a])
    BY DEF OwnLoad, OutVolt
  <2> HIDE DEF new
  <2>4. volt'[a] * status'[a] = new
    BY <2>1, <2>2
  <2>5. QED BY <2>3, <2>4
<1>10. r.upd.old = OwnLoad(a) /\ r.upd.new = next
  BY <1>8, PairIsUpdate
<1>11. a \in Asset /\ Head(queue).asset = a /\ Head(queue).kind # "load"
  BY <1>0, <1>1, <1>3
<1> HIDE DEF a, next
<1>12. QED BY <1>1, <1>6, <1>8, <1>9, <1>10, <1>11, AnswerKeeps

\* A button or an OID of an asset that is no server.
LEMMA SwitchKeeps ==
  ASSUME Steady, Lossless, LInv, SInv', HandlePress \/ HandleSignal, Head(queue).asset \notin Servers
  PROVE  LInv'
<1>0. PICK h : h = Head(queue)
  OBVIOUS
<1> DEFINE a == h.asset
           st == h.upd.new
<1>1. SInv /\ TInv /\ TypeOK /\ Alone /\ Lamps /\ Possible
  BY DEF LInv, SInv, TInv
<1>2. queue # <<>> /\ h.kind \in {"press", "signal"}
  BY <1>0 DEF HandlePress, HandleSignal
<1>3. /\ h \in Orders /\ Orders = {h} /\ Entitled(h) /\ a \in Asset \ Servers
      /\ st \in {0, 1} /\ h.kind # "wall"
  <2>1. Orders = {h} /\ h.kind # "wall"
    BY <1>0, <1>1, <1>2, OneOrder
  <2>2. h \in Orders
    BY <2>1
  <2>3. QED BY <1>0, <1>1, <1>2, <2>1, <2>2, OrderFindsNothing
<1>4. /\ status[a] \in {0, 1} /\ volt[a] \in Nat /\ load[a] \in Nat /\ OwnLoad(a) \in Nat
      /\ Consumption[a] \in Nat
  BY <1>1, <1>3, OwnIsNat, Constants DEF TypeOK
<1>5. Kind[a] \in {"outlet", "pdu", "static", "psu"}
  BY <1>3, Constants DEF Servers
<1>6. Kind[a] # "static" => Consumption[a] = 0
  BY <1>1, <1>2, <1>3, <1>5 DEF Lossless, Possible
<1>7. OwnLoad(a)' = Amps(Consumption[a], volt'[a] * status'[a])
  BY DEF OwnLoad, OutVolt
<1>8. Consumption[a] = 0 => OwnLoad(a) = 0 /\ OwnLoad(a)' = 0
  <2>1. volt'[a] * status'[a] \in Nat /\ volt[a] * status[a] \in Nat
    <3>1. volt'[a] \in Nat /\ status'[a] \in {0, 1}
      BY <1>3 DEF SInv, TInv, TypeOK
    <3> HIDE DEF a
    <3>2. QED BY <1>4, <3>1
  <2>2. QED BY <1>7, <2>1, NoAmps DEF OwnLoad, OutVolt
<1>9. CASE HandlePress
  <2> DEFINE r == OnPress(a, st)
  <2>1. h.kind = "press" /\ Kind[a] # "server"
    BY <1>0, <1>3, <1>9 DEF HandlePress, Servers
  <2>2. Settle(a, r) /\ requests' = requests
    BY <1>0, <1>9, <2>1 DEF HandlePress
  <2>3. AnswerOK(a, r)
    BY <1>1, <1>3, PressAnswered
  <2>4. /\ r.status = st /\ r.volt = volt[a] /\ r.streams = NoStreams /\ r.load = load[a]
        /\ r.upd.old = Amps(Consumption[a], (1 - st) * volt[a])
        /\ r.upd.new = Amps(Consumption[a], st * volt[a])
    BY DEF OnPress, Answer, Pair
  <2> HIDE DEF r
  <2>5. status'[a] = st /\ volt'[a] = volt[a]
    BY <1>1, <1>3, <2>2, <2>4 DEF Settle, TypeOK
  <2>6. r.upd.old = OwnLoad(a)
    <3>1. status[a] = 1 - st
      BY <1>3, <2>1 DEF Entitled
    <3>2. (1 - st) * volt[a] = volt[a] * (1 - st)
      <4> HIDE DEF st, a
      <4>1. QED BY <1>3, <1>4
    <3>3. QED BY <2>4, <3>1, <3>2 DEF OwnLoad, OutVolt
  <2>7. r.upd.new = OwnLoad(a)' /\ Amps(Consumption[a], st * volt[a]) = OwnLoad(a)'
    <3>1. st * volt[a] = volt[a] * st
      <4> HIDE DEF st, a
      <4>1. QED BY <1>3, <1>4
    <3>2. QED BY <1>7, <2>4, <2>5, <3>1
  <2>8. Kind[a] = "static" => r.load = OwnLoad(a)'
    <3>1. Kind[a] = "static" => load[a] = Amps(Consumption[a], st * volt[a])
      BY <1>1, <1>3, <2>1 DEF Lamps
    <3>2. QED BY <2>4, <2>7, <3>1
  <2>9. Kind[a] # "static" => r.load = load[a] + (OwnLoad(a)' - OwnLoad(a))
    BY <1>4, <1>6, <1>8, <2>4
  <2>10. a \in Asset /\ Head(queue).asset = a /\ Head(queue).kind # "load"
    BY <1>0, <1>2, <1>3
  <2> HIDE DEF a
  <2>11. QED BY <1>2, <2>2, <2>3, <2>4, <2>6, <2>7, <2>8, <2>9, <2>10, AnswerKeeps
<1>10. CASE HandleSignal
  <2> DEFINE r == OnSignal(a, st)
  <2>1. h.kind = "signal"
    BY <1>0, <1>10 DEF HandleSignal
  <2>2. Settle(a, r) /\ requests' = requests
    BY <1>0, <1>10 DEF HandleSignal
  <2>3. AnswerOK(a, r)
    BY <1>1, <1>3, PressAnswered
  <2>4. /\ r.streams = NoStreams /\ r.load = load[a] /\ r.upd.old = 0 /\ r.upd.new = 0
    BY DEF OnSignal, Answer, Pair
  <2> HIDE DEF r
  <2>5. Kind[a] # "static"
    BY <1>1, <1>3, <2>1 DEF Lossless, Possible
  <2>6. OwnLoad(a) = 0 /\ OwnLoad(a)' = 0
    BY <1>6, <1>8, <2>5
  <2>7. a \in Asset /\ Head(queue).asset = a /\ Head(queue).kind # "load"
    BY <1>0, <1>2, <1>3
  <2>8. r.load = load[a] + (OwnLoad(a)' - OwnLoad(a))
    BY <1>4, <2>4, <2>6
  <2>9. r.upd.new - r.upd.old = OwnLoad(a)' - OwnLoad(a)
    BY <2>4, <2>6
  <2> HIDE DEF a
  <2>10. QED BY <1>2, <2>2, <2>3, <2>4, <2>5, <2>7, <2>8, <2>9, AnswerKeeps
<1>11. QED BY <1>9, <1>10

\* A voltage event or a button of a server: what it tells its PSUs is nothing
\* an outlet or a PDU hears of yet.
LEMMA ServerKeeps ==
  ASSUME Steady, Lossless, LInv, SInv',
         HandleServerVoltage \/ (HandlePress /\ Head(queue).asset \in Servers)
  PROVE  LInv'
<1>0. PICK h : h = Head(queue)
  OBVIOUS
<1> DEFINE s == h.asset
<1>1. SInv /\ TInv /\ queue \in Seq(Event) /\ dead' = FALSE
  BY DEF LInv, SInv, TInv, Alone
<1>2. queue # <<>>
  BY DEF HandleServerVoltage, HandlePress
<1>3. h \in Event /\ s \in Asset /\ h.src \in Asset /\ h.upd \in Update
  <2>1. h \in Event
    BY <1>0, <1>1, <1>2
  <2>2. QED BY <2>1 DEF Event, Binary, Update
<1>4. CASE HandleServerVoltage
  <2> DEFINE r == ServerAnswer(s, h.src, h.upd)
  <2>1. h.kind = "volt" /\ s \in Servers /\ Settle(s, r) /\ requests' = requests
    BY <1>0, <1>3, <1>4 DEF HandleServerVoltage, ServerAnswer, Servers
  <2>2. AnswerOK(s, r)
    BY <1>1, <1>3, ServerUpAnswered, ServerDownAnswered DEF ServerAnswer
  <2>3. Head(queue).asset = s /\ Head(queue).kind # "load"
    BY <1>0, <2>1
  <2> HIDE DEF r, s
  <2>4. QED BY <1>2, <1>3, <2>1, <2>2, <2>3, AnswerKeeps
<1>5. CASE HandlePress /\ Head(queue).asset \in Servers
  <2> DEFINE r == IF h.upd.new = 1 THEN ServerOn(s) ELSE ServerOff(s)
  <2>1. h.kind = "press" /\ s \in Servers /\ Kind[s] = "server"
    BY <1>0, <1>5 DEF HandlePress, Servers
  <2>2. /\ Settle(s, r) /\ requests' = requests
        /\ h.upd.new = 1 => OnlinePsus(s) # {}
    BY <1>0, <1>1, <1>5, <2>1 DEF HandlePress
  <2>3. AnswerOK(s, r)
    BY <1>1, <1>3, <2>2, ServerPressAnswered
  <2>4. Head(queue).asset = s /\ Head(queue).kind # "load"
    BY <1>0, <2>1
  <2> HIDE DEF r, s
  <2>5. QED BY <1>2, <1>3, <2>1, <2>2, <2>3, <2>4, AnswerKeeps
<1>6. QED BY <1>4, <1>5

\* A load event is passed up.
LEMMA LoadKeeps ==
  ASSUME Steady, Lossless, LInv, SInv', HandleLoad
  PROVE  LInv'
<1>0. PICK h : h = Head(queue)
  OBVIOUS
<1> DEFINE a == h.asset
           new == NewLoad(a, h.upd)
           F == Upward(a, Pair(load[a], new))
<1>1. TInv /\ TypeOK /\ queue \in Seq(Event) /\ Lamps
  BY DEF LInv, SInv, TInv
<1>2. queue # <<>> /\ h.kind = "load" /\ requests' = requests /\ UNCHANGED <<status, volt>>
  BY <1>0 DEF HandleLoad
<1>3. load' = [load EXCEPT ![a] = new] /\ queue' = Tail(queue) \o F
  BY <1>0 DEF HandleLoad, Upward
<1>4. h \in Event /\ h \in InLine
  <2>1. Len(queue) \in Nat /\ 1 \in 1 .. Len(queue) /\ h = queue[1]
    BY <1>0, <1>1, <1>2
  <2>2. QED BY <1>1, <2>1 DEF InLine
<1>5. a \in Asset /\ h.upd.old \in Nat /\ h.upd.new \in Nat
  BY <1>2, <1>4 DEF Event, Update
<1>6. Kind[a] # "static"
  BY <1>1, <1>2, <1>4 DEF Lamps
<1>7. /\ load[a] \in Nat /\ OwnLoad(a) \in Nat
      /\ a \in Carriers => load[a] + Change(Head(queue), a) >= OwnLoad(a)
  BY <1>2, <1>5, LoadHere
<1>8. Change(Head(queue), a) = h.upd.new - h.upd.old
  BY <1>0, <1>2 DEF Change
<1>9. new = NotBelow0(load[a] + h.upd.new - h.upd.old) /\ new \in Nat
  <2>1. load[a] + h.upd.new - h.upd.old \in Int
    BY <1>5, <1>7
  <2>2. QED BY <2>1, AmpsAreNat DEF NewLoad
<1> HIDE DEF new, F
<1>10. a \in Carriers => new = load[a] + Change(Head(queue), a)
  BY <1>5, <1>7, <1>8, <1>9 DEF NotBelow0
<1>11. load'[a] = new /\ \A b \in Asset \ {a} : load'[b] = load[b]
  BY <1>1, <1>3, <1>5 DEF TypeOK
<1>12. OwnLoad(a)' = OwnLoad(a)
  BY <1>2 DEF OwnLoad, OutVolt
<1>13. Pair(load[a], new) \in Update /\ Pair(load[a], new).old = load[a] /\ Pair(load[a], new).new = new
  BY <1>7, <1>9, PairIsUpdate
<1> DEFINE d == new - load[a]
<1>14. /\ F \in Seq(Event)
       /\ \A i \in 1 .. Len(F) : /\ F[i].kind \in {"volt", "load"}
                                 /\ F[i].kind = "load" => F[i].asset \in Parents[a]
       /\ \A b \in Carriers : Reports(F, b, IF a \in Children(b) THEN d ELSE 0)
  <2>1. PICK u : u = Pair(load[a], new)
    OBVIOUS
  <2>2. u \in Update /\ u.new - u.old = d /\ F = Upward(a, u)
    BY <1>13, <2>1 DEF F
  <2> HIDE DEF d
  <2>3. \A b \in Carriers : Reports(F, b, IF a \in Children(b) THEN d ELSE 0)
    <3>1. SUFFICES ASSUME NEW b \in Carriers
                   PROVE  Reports(F, b, IF a \in Children(b) THEN d ELSE 0)
      OBVIOUS
    <3>2. Reports(F, b, IF a \in Children(b) THEN u.new - u.old ELSE 0)
      BY <1>5, <2>2, PassedUp
    <3>3. QED BY <2>2, <3>2
  <2>4. F \in Seq(Event) /\ \A i \in 1 .. Len(F) : F[i].kind = "load" /\ F[i].asset \in Parents[a]
    BY <1>5, <2>2, UpwardTyped
  <2>5. QED BY <2>3, <2>4
<1>15. d \in Int /\ (a \in Carriers => load'[a] = load[a] + Change(Head(queue), a) + (OwnLoad(a)' - OwnLoad(a)))
  BY <1>7, <1>9, <1>10, <1>11, <1>12
<1>16. load'[a] = load[a] + d
  BY <1>7, <1>9, <1>11
<1>17. Head(queue).asset = a
  BY <1>0
<1>18. \A b \in Asset \ {a} : status'[b] = status[b] /\ volt'[b] = volt[b]
  BY <1>2
<1> HIDE DEF a, d
<1>19. QED BY <1>2, <1>3, <1>5, <1>6, <1>11, <1>14, <1>15, <1>16, <1>17, <1>18, HandledKeeps

\* The next iteration is launched.
LEMMA BeginKeeps ==
  ASSUME Steady, Lossless, LInv, SInv', Begin
  PROVE  LInv'
<1>0. PICK o : o = Head(requests)
  OBVIOUS
<1>1. /\ SInv /\ TInv /\ TInv' /\ Alone /\ OnCourse /\ Lamps /\ Possible
      /\ requests \in Seq(Request)
  BY DEF LInv, SInv, TInv
<1>2. requests # <<>> /\ requests' = Tail(requests) /\ UNCHANGED <<status, volt, load>>
  BY DEF Begin, redis
<1>3. Orders = {o} /\ queue = <<>> /\ requests' = <<>> /\ o \in Orders
  <2>1. Orders = {o} /\ queue = <<>> /\ requests' = <<>>
    BY <1>0, <1>1, <1>2, OneOrder
  <2>2. QED BY <2>1
<1>4. Entitled(o)
  BY <1>1, <1>3, OrderFindsNothing
<1>5. {requests'[i] : i \in 1 .. Len(requests')} = {}
  BY <1>3
<1>6. /\ \A k \in 1 .. Len(queue') : queue'[k].kind # "load"
      /\ (o.kind # "wall" /\ Orders' = {o}) \/ (o.kind = "wall" /\ Orders' = {})
  <2>1. CASE o.kind # "wall"
    <3>1. queue' = <<o>>
      BY <1>0, <2>1 DEF Begin
    <3>2. Len(queue') = 1 /\ queue'[1] = o
      BY <3>1
    <3>3. InLine' = {o}
      BY <3>2 DEF InLine
    <3>4. o.kind \in {"press", "signal"}
      BY <1>4, <2>1 DEF Entitled
    <3>5. Orders' = {o}
      BY <1>5, <3>3, <3>4 DEF Orders
    <3>6. QED BY <2>1, <3>2, <3>4, <3>5
  <2>2. CASE o.kind = "wall"
    <3> DEFINE m == Ordered(Mains)
    <3>1. queue' = [i \in 1 .. Len(m) |-> VoltEvent(m[i], m[i], o.upd)]
      BY <1>0, <2>2 DEF Begin
    <3>2. Len(m) \in Nat
      BY Constants, OrderedLists
    <3> HIDE DEF m
    <3>3. Len(queue') = Len(m) /\ \A i \in 1 .. Len(m) : queue'[i] = VoltEvent(m[i], m[i], o.upd)
      BY <3>1, <3>2
    <3>4. \A i \in 1 .. Len(queue') : queue'[i].kind = "volt"
      <4>1. \A x : VoltEvent(x, x, o.upd).kind = "volt"
        BY DEF VoltEvent
      <4>2. QED BY <3>3, <4>1
    <3>5. \A e \in InLine' : e.kind = "volt"
      BY <3>4 DEF InLine
    <3>6. Orders' = {}
      BY <1>5, <3>5 DEF Orders
    <3>7. QED BY <2>2, <3>4, <3>6
  <2>3. QED BY <2>1, <2>2
<1>7. OnCourse'
  BY <1>1, <1>2, <1>3, <1>6, CourseBegins
<1>8. \A a \in Asset : OwnLoad(a)' = OwnLoad(a)
  BY <1>2 DEF OwnLoad, OutVolt
<1>9. \A e \in InLine' : e.kind # "load"
  BY <1>6 DEF InLine
<1>10. Lamps'
  <2>1. SUFFICES ASSUME NEW a \in Asset, Kind[a] = "static"
                 PROVE  /\ load'[a] = OwnLoad(a)' \/ \E e \in Orders' : e.kind = "press" /\ e.asset = a
                        /\ \A e \in Orders' : e.kind = "press" /\ e.asset = a =>
                             load'[a] = Amps(Consumption[a], e.upd.new * volt'[a])
    BY <1>9 DEF Lamps
  <2>2. /\ load[a] = OwnLoad(a) \/ (o.kind = "press" /\ o.asset = a)
        /\ o.kind = "press" /\ o.asset = a => load[a] = Amps(Consumption[a], o.upd.new * volt[a])
    BY <1>1, <1>3, <2>1 DEF Lamps
  <2>3. load'[a] = load[a] /\ volt'[a] = volt[a] /\ OwnLoad(a)' = OwnLoad(a)
    BY <1>2, <1>8
  <2>4. CASE o.kind # "wall" /\ Orders' = {o}
    BY <2>2, <2>3, <2>4
  <2>5. CASE o.kind = "wall" /\ Orders' = {}
    BY <2>2, <2>3, <2>5
  <2>6. QED BY <1>6, <2>4, <2>5
<1>11. Possible'
  BY <1>1, <1>3, <1>6 DEF Possible
<1>12. QED BY <1>7, <1>10, <1>11 DEF LInv

\* A client asks for something, and has set the load of a lamp or of a server.
LEMMA AskedKeeps ==
  ASSUME Steady, Lossless, LInv, SInv', AtRest, NEW e, requests' = Append(requests, e),
         UNCHANGED <<status, volt, queue>>,
         e.kind = "press" => e.asset \in Pressable,
         e.kind = "signal" => e.asset \in Switched,
         \A b \in Asset : Kind[b] \notin {"static", "server"} => load'[b] = load[b],
         \A b \in Asset : Kind[b] = "static" =>
           load'[b] = IF e.kind = "press" /\ e.asset = b
                      THEN Amps(Consumption[b], e.upd.new * volt[b]) ELSE load[b]
  PROVE  LInv'
<1>1. SInv /\ TInv /\ TInv' /\ OnCourse /\ Lamps
  BY DEF LInv, SInv
<1>2. Orders = {} /\ queue = <<>> /\ requests = <<>>
  BY <1>1, AtRestFacts
<1>3. requests' = <<e>> /\ Len(requests') = 1 /\ requests'[1] = e /\ queue' = <<>> /\ Len(queue') = 0
  BY <1>2
<1>4. InLine' = {}
  BY <1>3 DEF InLine
<1>5. Orders' = {e}
  <2>1. {requests'[i] : i \in 1 .. Len(requests')} = {e}
    BY <1>3
  <2>2. QED BY <1>4, <2>1 DEF Orders
<1>6. OnCourse'
  BY <1>1, <1>2, <1>3, CourseBegins
<1>7. \A a \in Asset : OwnLoad(a)' = OwnLoad(a)
  BY DEF OwnLoad, OutVolt
<1>8. Lamps'
  <2>1. SUFFICES ASSUME NEW a \in Asset, Kind[a] = "static"
                 PROVE  /\ load'[a] = OwnLoad(a)' \/ (e.kind = "press" /\ e.asset = a)
                        /\ e.kind = "press" /\ e.asset = a =>
                             load'[a] = Amps(Consumption[a], e.upd.new * volt'[a])
    BY <1>4, <1>5 DEF Lamps
  <2>2. load[a] = OwnLoad(a)
    BY <1>1, <1>2, <2>1 DEF Lamps
  <2>3. QED BY <1>7, <2>1, <2>2
<1>9. Possible'
  BY <1>5 DEF Possible
<1>10. QED BY <1>6, <1>8, <1>9 DEF LInv

\* Every client.
LEMMA ClientKeeps ==
  ASSUME Steady, Lossless, LInv, SInv', Client
  PROVE  LInv'
<1>1. SInv /\ TypeOK
  BY DEF LInv, SInv, TInv
<1>2. ASSUME NEW a \in Asset, SwitchOff(a) PROVE LInv'
  <2>0. PICK e : e = PressEvent(a, Pair(1, 0))
    OBVIOUS
  <2>1. /\ AtRest /\ requests' = Append(requests, e) /\ a \in Pressable
        /\ load' = [load EXCEPT ![a] = LoadOnPowerOff(a)] /\ UNCHANGED <<status, volt, queue>>
    BY <1>2, <2>0 DEF SwitchOff, Publish, Steady
  <2>2. e.kind = "press" /\ e.asset = a /\ e.upd.new = 0
    BY <2>0 DEF PressEvent, Pair
  <2>3. load'[a] = LoadOnPowerOff(a) /\ \A b \in Asset \ {a} : load'[b] = load[b]
    BY <1>1, <2>1 DEF TypeOK
  <2>4. Amps(Consumption[a], 0 * volt[a]) = 0
    <3>1. volt[a] \in Nat /\ Consumption[a] \in Nat
      BY <1>1, Constants DEF TypeOK
    <3>2. 0 * volt[a] = 0
      BY <3>1
    <3>3. QED BY <3>1, <3>2, NoAmps
  <2>5. /\ Kind[a] = "static" => LoadOnPowerOff(a) = 0
        /\ Kind[a] \notin {"static", "server"} => LoadOnPowerOff(a) = load[a]
    BY DEF LoadOnPowerOff
  <2>6. \A b \in Asset : Kind[b] \notin {"static", "server"} => load'[b] = load[b]
    BY <2>3, <2>5
  <2>7. \A b \in Asset : Kind[b] = "static" =>
          load'[b] = IF e.kind = "press" /\ e.asset = b
                     THEN Amps(Consumption[b], e.upd.new * volt[b]) ELSE load[b]
    BY <2>2, <2>3, <2>4, <2>5
  <2>8. QED BY <2>1, <2>2, <2>6, <2>7, AskedKeeps
<1>3. ASSUME NEW a \in Asset, SwitchOn(a) PROVE LInv'
  <2>0. PICK e : e = PressEvent(a, Pair(0, 1))
    OBVIOUS
  <2>1. PICK l : l = IF Kind[a] = "server" THEN ServerLoadOnPowerUp(a) ELSE LoadOnPowerUp(a)
    OBVIOUS
  <2>2. /\ AtRest /\ requests' = Append(requests, e) /\ a \in Pressable
        /\ load' = [load EXCEPT ![a] = l] /\ UNCHANGED <<status, volt, queue>>
    BY <1>3, <2>0, <2>1 DEF SwitchOn, Publish, Steady
  <2>3. e.kind = "press" /\ e.asset = a /\ e.upd.new = 1
    BY <2>0 DEF PressEvent, Pair
  <2>4. load'[a] = l /\ \A b \in Asset \ {a} : load'[b] = load[b]
    BY <1>1, <2>2 DEF TypeOK
  <2>5. volt[a] \in Nat /\ load[a] \in Nat /\ 1 * volt[a] = volt[a]
    BY <1>1 DEF TypeOK
  <2>6. Kind[a] = "psu" => Amps(Consumption[a], volt[a]) = 0
    BY <2>5, NoAmps DEF Lossless
  <2>7. /\ Kind[a] = "static" => l = Amps(Consumption[a], volt[a])
        /\ Kind[a] \notin {"static", "server"} => l = load[a]
    BY <2>1, <2>5, <2>6 DEF LoadOnPowerUp, PsuLoadOnPowerUp
  <2>8. \A b \in Asset : Kind[b] \notin {"static", "server"} => load'[b] = load[b]
    BY <2>4, <2>7
  <2>9. \A b \in Asset : Kind[b] = "static" =>
          load'[b] = IF e.kind = "press" /\ e.asset = b
                     THEN Amps(Consumption[b], e.upd.new * volt[b]) ELSE load[b]
    BY <2>3, <2>4, <2>5, <2>7
  <2>10. QED BY <2>2, <2>3, <2>8, <2>9, AskedKeeps
<1>4. ASSUME NEW v \in Volts, SetVoltage(v) PROVE LInv'
  <2>0. PICK e : e = [kind |-> "wall", upd |-> Pair(wall, v)]
    OBVIOUS
  <2>1. AtRest /\ requests' = Append(requests, e) /\ UNCHANGED <<status, volt, load, queue>>
    BY <1>4, <2>0 DEF SetVoltage, Publish, Steady, redis
  <2>2. e.kind = "wall"
    BY <2>0
  <2>3. QED BY <2>1, <2>2, AskedKeeps
<1>5. ASSUME NEW a \in Switched, NEW st \in {0, 1}, SetOid(a, st) PROVE LInv'
  <2>0. PICK e : e = SignalEvent(a, Pair(status[a], st))
    OBVIOUS
  <2>1. AtRest /\ requests' = Append(requests, e) /\ UNCHANGED <<status, volt, load, queue>>
    BY <1>5, <2>0 DEF SetOid, Publish, Steady, redis
  <2>2. e.kind = "signal" /\ e.asset = a
    BY <2>0 DEF SignalEvent
  <2>3. QED BY <2>1, <2>2, AskedKeeps
<1>6. QED BY <1>2, <1>3, <1>4, <1>5 DEF Client

\* Zeros add up to zero.
LEMMA SumOfZeros ==
  ASSUME NEW f, NEW S, IsFiniteSet(S), \A x \in S : f[x] = 0
  PROVE  SumFunctionOnSet(f, S) = 0
<1> DEFINE P == {T \in SUBSET S : SumFunctionOnSet(f, T) = 0}
<1>1. ASSUME NEW T \in SUBSET S, \A U \in SUBSET T : U # T => U \in P
      PROVE  T \in P
  <2>1. IsFiniteSet(T)
    BY FS_Subset
  <2>2. CASE T = {}
    <3>1. SumFunctionOnSet(f, {}) = 0
      BY <2>1, SumStep
    <3>2. QED BY <2>2, <3>1
  <2>3. CASE T # {}
    <3>1. /\ Pick(T) \in T
          /\ SumFunctionOnSet(f, T) = f[Pick(T)] + SumFunctionOnSet(f, T \ {Pick(T)})
      BY <2>1, <2>3, SumStep
    <3>2. T \ {Pick(T)} \in P
      BY <1>1, <3>1
    <3>3. QED BY <3>1, <3>2
  <2>4. QED BY <2>2, <2>3
<1> HIDE DEF P
<1>2. SUBSET S \subseteq P
  BY <1>1, SetInduction
<1>3. QED BY <1>2 DEF P

\* Nothing is drawn yet, and nothing is due.
LEMMA LInvInit ==
  ASSUME Steady, Init
  PROVE  LInv
<1>1. SInv /\ TInv /\ TypeOK
  BY SInvInit DEF SInv, TInv
<1> DEFINE e == [kind |-> "wall", upd |-> Pair(0, Nominal)]
<1>2. /\ requests = <<e>> /\ Len(requests) = 1 /\ requests[1] = e /\ queue = <<>> /\ Len(queue) = 0
      /\ \A a \in Asset : volt[a] = 0 /\ status[a] = 1 /\ load[a] = 0
  BY DEF Init
<1>3. e.kind = "wall"
  OBVIOUS
<1> HIDE DEF e
<1>4. InLine = {} /\ Orders = {e}
  <2>1. InLine = {}
    BY <1>2 DEF InLine
  <2>2. {requests[i] : i \in 1 .. Len(requests)} = {e}
    BY <1>2
  <2>3. QED BY <2>1, <2>2 DEF Orders
<1>5. ASSUME NEW a \in Asset PROVE OwnLoad(a) = 0
  <2>1. OutVolt(a) = 0
    BY <1>2 DEF OutVolt
  <2>2. Consumption[a] \in Nat
    BY Constants
  <2>3. QED BY <2>1, <2>2, NoAmps DEF OwnLoad
<1>6. ASSUME NEW a \in Asset PROVE Due(a) = 0
  <2>1. IsFiniteSet(Children(a)) /\ Children(a) \subseteq Asset
    <3>1. Children(a) \subseteq Asset
      BY Constants
    <3>2. QED BY <3>1, FS_Subset, FlowAssumption DEF FlowAssumption
  <2>2. \A x \in Children(a) : Shown[x] = 0
    BY <1>2, <1>5, <2>1 DEF Shown
  <2>3. PICK f : f = Shown
    OBVIOUS
  <2>4. SumFunctionOnSet(f, Children(a)) = 0
    BY <2>1, <2>2, <2>3, SumOfZeros
  <2>5. QED BY <1>5, <2>3, <2>4 DEF Due
<1>7. OnCourse
  <2> SUFFICES ASSUME NEW b \in Carriers
               PROVE  Arrives(queue, b, load[b], OwnLoad(b), Due(b))
    BY DEF OnCourse
  <2>1. load[b] = 0 /\ OwnLoad(b) = 0 /\ Due(b) = 0
    BY <1>2, <1>5, <1>6 DEF Carriers
  <2>2. queue \in Seq(Event) /\ \A k \in 1 .. Len(queue) : Change(queue[k], b) = 0
    BY <1>1, <1>2 DEF TInv
  <2>3. Arrives(queue, b, 0, 0, 0)
    BY <2>2, CourseQuiet
  <2>4. QED BY <2>1, <2>3
<1>8. Lamps
  BY <1>2, <1>3, <1>4, <1>5 DEF Lamps
<1>9. Possible
  BY <1>3, <1>4 DEF Possible
<1>10. QED BY <1>1, <1>7, <1>8, <1>9 DEF LInv

\* No step of a client or of the engine breaks it.
LEMMA LInvNext ==
  ASSUME Steady, Lossless, LInv, [Next]_vars
  PROVE  LInv'
<1>1. SInv /\ SInv'
  BY SInvNext DEF LInv
<1>2. CASE Client
  BY <1>1, <1>2, ClientKeeps
<1>3. CASE HandleVoltage
  BY <1>1, <1>3, VoltageKeeps
<1>4. CASE HandleServerVoltage
  BY <1>1, <1>4, ServerKeeps
<1>5. CASE HandleLoad
  BY <1>1, <1>5, LoadKeeps
<1>6. CASE HandlePress
  <2>1. CASE Head(queue).asset \in Servers
    BY <1>1, <1>6, <2>1, ServerKeeps
  <2>2. CASE Head(queue).asset \notin Servers
    BY <1>1, <1>6, <2>2, SwitchKeeps
  <2>3. QED BY <2>1, <2>2
<1>7. CASE HandleSignal
  <2>1. Head(queue).asset \notin Servers
    <3>0. PICK h : h = Head(queue)
      OBVIOUS
    <3>1. queue # <<>> /\ h.kind = "signal"
      BY <1>7, <3>0 DEF HandleSignal
    <3>2. TInv /\ Alone
      BY <1>1 DEF SInv
    <3>3. Orders = {h}
      BY <3>0, <3>1, <3>2, OneOrder
    <3>4. Entitled(h)
      BY <1>1, <3>3 DEF SInv
    <3>5. QED BY <3>0, <3>1, <3>4 DEF Entitled
  <2>2. QED BY <1>1, <1>7, <2>1, SwitchKeeps
<1>8. CASE Begin
  BY <1>1, <1>8, BeginKeeps
<1>9. CASE UNCHANGED vars
  <2>1. UNCHANGED <<status, volt, load, queue, requests>>
    BY <1>9 DEF vars, redis
  <2>2. InLine' = InLine
    BY <2>1 DEF InLine
  <2>3. Orders' = Orders
    BY <2>1, <2>2 DEF Orders
  <2>4. \A a \in Asset : OwnLoad(a)' = OwnLoad(a)
    BY <2>1 DEF OwnLoad, OutVolt
  <2>5. Shown' = Shown
    BY <2>1, <2>4 DEF Shown
  <2>6. OnCourse'
    <3> SUFFICES ASSUME NEW b \in Carriers
                 PROVE  Arrives(queue', b, load'[b], OwnLoad(b)', Due(b)')
      BY DEF OnCourse
    <3>1. b \in Asset
      BY DEF Carriers
    <3>2. OwnLoad(b)' = OwnLoad(b) /\ Due(b)' = Due(b)
      BY <2>4, <2>5, <3>1 DEF Due
    <3>3. Arrives(queue, b, load[b], OwnLoad(b), Due(b))
      BY DEF LInv, OnCourse
    <3>4. QED BY <2>1, <3>2, <3>3
  <2>7. Lamps'
    BY <2>1, <2>2, <2>3, <2>4 DEF LInv, Lamps
  <2>8. Possible'
    BY <2>3 DEF LInv, Possible
  <2>9. QED BY <1>1, <2>6, <2>7, <2>8 DEF LInv
<1>10. QED BY <1>2, <1>3, <1>4, <1>5, <1>6, <1>7, <1>8, <1>9 DEF Next, Loop

\* At rest nothing is on its way: what is due is there.
LEMMA CarriedAtRest ==
  ASSUME Steady, Lossless, LInv
  PROVE  ParentsCarryTheirChildren
<1> SUFFICES ASSUME AtRest, NEW a \in Asset, Kind[a] \notin {"psu", "server"}
             PROVE  load[a] = OwnLoad(a) + SumFunctionOnSet(load, Children(a))
  BY DEF ParentsCarryTheirChildren, CarriedBy
<1>1. SInv /\ TInv /\ TypeOK /\ OnCourse /\ Lamps
  BY DEF LInv, SInv, TInv
<1>2. queue = <<>> /\ queue \in Seq(Event) /\ Orders = {}
  BY <1>1, AtRestFacts DEF TInv
<1>3. OwnLoad(a) \in Nat
  BY <1>1, OwnIsNat
<1>4. Kind[a] \in {"static", "outlet", "pdu"}
  BY Constants
<1>5. Children(a) \subseteq Asset /\ IsFiniteSet(Children(a))
  <2>1. Children(a) \subseteq Asset
    BY Constants
  <2>2. QED BY <2>1, FS_Subset, FlowAssumption DEF FlowAssumption
<1>6. CASE Kind[a] = "static"
  <2>1. Children(a) = {}
    BY <1>6 DEF Lossless
  <2>2. SumFunctionOnSet(load, {}) = 0
    BY <1>5, <2>1, SumStep
  <2>3. load[a] = OwnLoad(a)
    BY <1>1, <1>2, <1>6 DEF Lamps
  <2>4. QED BY <1>3, <2>1, <2>2, <2>3
<1>7. CASE Kind[a] \in {"outlet", "pdu"}
  <2>1. a \in Carriers
    BY <1>7 DEF Carriers
  <2>2. Arrives(queue, a, load[a], OwnLoad(a), Due(a))
    BY <1>1, <2>1 DEF OnCourse
  <2>3. load[a] = Due(a)
    BY <1>2, <2>2, CourseHere
  <2>4. ASSUME NEW x \in Children(a) PROVE load[x] = Shown[x] /\ Shown[x] \in Nat
    <3>1. x \in Asset
      BY <1>5
    <3>2. Kind[x] = "static" => load[x] = OwnLoad(x)
      BY <1>1, <1>2, <3>1 DEF Lamps
    <3>3. QED BY <1>1, <3>1, <3>2 DEF Shown, TypeOK
  <2>5. PICK f, g, d, S : f = Shown /\ g = load /\ d = 0 /\ S = Children(a)
    OBVIOUS
  <2>6. \A x \in S : f[x] \in Int /\ g[x] = f[x] + (IF x = a THEN d ELSE 0)
    BY <2>4, <2>5
  <2>7. d \in Int /\ IsFiniteSet(S)
    BY <1>5, <2>5
  <2>8. /\ SumFunctionOnSet(f, S) \in Int
        /\ SumFunctionOnSet(g, S) = SumFunctionOnSet(f, S) + (IF a \in S THEN d ELSE 0)
    <3>1. (\A x \in S : f[x] \in Int) /\ \A x \in S : g[x] = f[x] + (IF x = a THEN d ELSE 0)
      BY <2>6
    <3>2. QED BY <2>7, <3>1, SumChanges
  <2>9. SumFunctionOnSet(g, S) = SumFunctionOnSet(f, S)
    BY <2>5, <2>8
  <2>10. QED BY <2>3, <2>5, <2>9 DEF Due
<1>8. QED BY <1>4, <1>6, <1>7

(* In a steady system whose switches and PSUs draw nothing of their own, a   *)
(* lamp powering nothing, whatever its power graph and whatever clients      *)
(* switch: once the engine is at rest, outlets and PDUs carry exactly what   *)
(* they draw and what the assets they power carry (asset.py,                 *)
(* on_child_load_update; PowerIteration, which passes load to the parents).  *)
THEOREM LoadIsCarried == Steady /\ Lossless => (Spec => []ParentsCarryTheirChildren)
<1> SUFFICES ASSUME Steady, Lossless PROVE Spec => []ParentsCarryTheirChildren
  OBVIOUS
<1>1. Init => LInv
  BY LInvInit
<1>2. LInv /\ [Next]_vars => LInv'
  BY LInvNext
<1>3. LInv => ParentsCarryTheirChildren
  BY CarriedAtRest
<1>4. QED BY <1>1, <1>2, <1>3, PTL DEF Spec
=============================================================================
