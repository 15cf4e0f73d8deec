--------------------------- MODULE BuilderProofs ---------------------------
(***************************************************************************)
(* Proofs about Builder, for every build graph, every capacity of plan.q   *)
(* and errch and every step limit.                                         *)
(*                                                                         *)
(* The inductive invariant says what the counters of the plan count: a     *)
(* slot is outstanding until plan.done of its producer has visited it,     *)
(* nwaits is the number of outstanding slots of a step, npendings the      *)
(* number of steps with outstanding slots, and the steps without any are   *)
(* exactly those in transit, received, or started.                         *)
(***************************************************************************)
EXTENDS Builder, FiniteSetTheorems, TLAPS

-----------------------------------------------------------------------------
(* The inductive invariant *)

\* The mutex is held by the goroutine that is inside plan.done, and done's
\* locals are empty when nobody is.
LockInv ==
    /\ \A s \in Step : (mu = s) <=> (st[s] = "done")
    /\ mu = NoStep => move = <<>> /\ todo = {} /\ spill = <<>>
    /\ \A s \in Step : mu = s => todo \subseteq Feeds(graph, s)

\* The wait lists of a step's outputs are untouched until its plan.done.
WaitsInv ==
    \A p \in Step : ~Made(p) =>
        \A t \in Outputs(p) : waits[t] = {sl \in Slots(graph) : SlotTarget(graph, sl) = t}

Outstanding(sl) ==
    \/ sl \in todo
    \/ \E p \in Step : sl \in Feeds(graph, p) /\ ~Made(p)

OutOf(s) == {sl \in SlotsOf(graph, s) : Outstanding(sl)}

CountInv == \A s \in Step : nwaits[s] = Cardinality(OutOf(s))

Waiting == {s \in Step : nwaits[s] # 0}
PendingInv == npendings = Cardinality(Waiting)

\* Steps without outstanding slots are in transit or received, once.
In(s, seq) == \E i \in DOMAIN seq : seq[i] = s
Distinct(seq) == \A i, j \in DOMAIN seq : seq[i] = seq[j] => i = j

Moving(s) == In(s, q) \/ In(s, ready) \/ In(s, move) \/ In(s, spill)

PlaceInv ==
    /\ Distinct(q) /\ Distinct(ready) /\ Distinct(move) /\ Distinct(spill)
    /\ \A s \in Step :
          /\ ~(In(s, q) /\ In(s, ready))
          /\ ~(In(s, q) /\ In(s, move))
          /\ ~(In(s, q) /\ In(s, spill))
          /\ ~(In(s, ready) /\ In(s, move))
          /\ ~(In(s, ready) /\ In(s, spill))
          /\ ~(In(s, move) /\ In(s, spill))
    /\ \A s \in Step : Moving(s) => st[s] = "idle" /\ s # cur /\ nwaits[s] = 0
    /\ \A s \in Step : nwaits[s] = 0 => Moving(s) \/ s = cur \/ st[s] # "idle"
    /\ \A s \in Step : st[s] # "idle" => nwaits[s] = 0
    /\ loop = "dispatch" => cur \in Step /\ st[cur] = "idle" /\ nwaits[cur] = 0
    /\ loop # "dispatch" => cur = NoStep

ClosedInv == closed => ready = <<>> /\ npendings = 0 /\ mu = NoStep

SpillInv ==
    loop \in {"acquire", "select"} /\ q = <<>> =>
        ready = <<>> /\ spill = <<>> /\ move = <<>>

Active == {s \in Step : st[s] \in {"running", "done", "release"}}
SemaInv ==
    sema = Cardinality(Active) + (IF loop \in {"select", "dispatch"} THEN 1 ELSE 0)

IInv == TypeOK /\ LockInv /\ WaitsInv /\ CountInv /\ PendingInv /\ PlaceInv
        /\ ClosedInv /\ SpillInv /\ SemaInv

\* How errors travel to Build's result.  Without an interruption, a failure stops
\* the loop before the context is done, so the loop never returns early; with
\* one, an error may be dropped on its way.
InError(seq) == \E i \in DOMAIN seq : seq[i] = "fail"

ErrInv ==
    /\ \A s \in Step : st[s] \in {"idle", "running", "done"} => serr[s] = "nil"
    /\ \A s \in Step : st[s] = "exited" /\ serr[s] = "fail" =>
          nfail # 0 \/ InError(errch) \/ interrupted
    /\ \A s \in Step : serr[s] = "canceled" => nfail # 0 \/ interrupted
    /\ canceled => interrupted \/ (loop = "drain" /\ nfail # 0) \/ loop = "returned"
    /\ interrupted \/ loop = "returned" => canceled
    /\ loop = "drain" => nfail # 0 \/ (closed /\ q = <<>>)
    /\ loop = "returned" => AllExited \/ interrupted
    /\ loop = "dump" => interrupted
    /\ result = "ok" => loop = "returned" /\ AllExited
    /\ NilMeansAllMade

-----------------------------------------------------------------------------
(* The build graph *)

\* Inputs of a step are a sequence of targets (Graph.StepDef).
LEMMA InsType ==
    ASSUME NEW g \in Graphs, NEW s \in Step
    PROVE  Ins(g, s) \in Seq(Target)
BY BuilderAssumption DEF WellFormed, WellTyped, Ins

\* There are finitely many waits, each of a step for a target.
LEMMA SlotsFinite ==
    ASSUME NEW g \in Graphs
    PROVE  /\ IsFiniteSet(Slots(g))
           /\ Slots(g) \subseteq Step \X Nat
           /\ \A sl \in Slots(g) : sl[1] \in Step /\ SlotTarget(g, sl) \in Target
<1> DEFINE D == {DOMAIN Ins(g, s) : s \in Step}
<1>1. IsFiniteSet(D)
  <2> HIDE DEF D
  <2>1. IsFiniteSet(Step)
    BY GraphAssumption
  <2>2. IsFiniteSet({DOMAIN Ins(g, s) : s \in Step})
    <3> DEFINE f == [s \in Step |-> DOMAIN Ins(g, s)]
    <3>1. f \in Surjection(Step, {DOMAIN Ins(g, s) : s \in Step})
      BY DEF Surjection
    <3> QED BY <2>1, <3>1, FS_Surjection
  <2> QED BY <2>2 DEF D
<1>2. \A d \in D : IsFiniteSet(d)
  <2> SUFFICES ASSUME NEW s \in Step PROVE IsFiniteSet(DOMAIN Ins(g, s))
    OBVIOUS
  <2>1. DOMAIN Ins(g, s) = 1..Len(Ins(g, s)) /\ Len(Ins(g, s)) \in Nat
    BY InsType
  <2> QED BY <2>1, FS_Interval
<1>3. IsFiniteSet(UNION D)
  BY <1>1, <1>2, FS_UNION
<1>4. IsFiniteSet(Step \X UNION D)
  BY <1>3, GraphAssumption, FS_Product
<1>5. Slots(g) \subseteq Step \X UNION D
  BY DEF Slots
<1>6. IsFiniteSet(Slots(g))
  BY <1>4, <1>5, FS_Subset
<1>7. UNION D \subseteq Nat
  BY InsType
<1>8. ASSUME NEW sl \in Slots(g)
      PROVE  sl[1] \in Step /\ SlotTarget(g, sl) \in Target
  BY InsType DEF Slots, SlotTarget
<1> QED BY <1>5, <1>6, <1>7, <1>8

\* Every wait is ended by the outputs of exactly one step.
LEMMA OneFeeder ==
    ASSUME NEW g \in Graphs, NEW sl \in Slots(g)
    PROVE  /\ \E p \in Step : sl \in Feeds(g, p)
           /\ \A p, r \in Step : sl \in Feeds(g, p) /\ sl \in Feeds(g, r) => p = r
<1>1. SlotTarget(g, sl) \in Target
  BY SlotsFinite
<1>2. InEdges(g, SlotTarget(g, sl)) # {}
  BY DEF Slots, SlotTarget
<1>3. PICK p \in Step : SlotTarget(g, sl) \in Range(g.outs[p])
  BY <1>2 DEF InEdges
<1>4. \A t \in Target : \A p1, r1 \in InEdges(g, t) : p1 = r1
  BY BuilderAssumption DEF WellFormed, OneProducer
<1> QED BY <1>1, <1>3, <1>4 DEF Feeds, InEdges

-----------------------------------------------------------------------------
(* Channels and slices of distinct steps *)

\* Nothing is in an empty channel.
LEMMA EmptySeq == Distinct(<<>>) /\ \A s \in Step : ~In(s, <<>>)
BY DEF In, Distinct

\* A send adds one element.
LEMMA AppendSeq ==
    ASSUME NEW seq \in Seq(Step), NEW e \in Step
    PROVE  /\ Append(seq, e) \in Seq(Step)
           /\ Append(seq, e) # <<>>
           /\ \A s \in Step : In(s, Append(seq, e)) <=> In(s, seq) \/ s = e
           /\ Distinct(seq) /\ ~In(e, seq) => Distinct(Append(seq, e))
<1>1. /\ Append(seq, e) \in Seq(Step)
      /\ Len(Append(seq, e)) = Len(seq) + 1
      /\ DOMAIN seq = 1..Len(seq)
      /\ DOMAIN Append(seq, e) = 1..Len(seq) + 1
      /\ Append(seq, e)[Len(seq) + 1] = e
      /\ \A i \in DOMAIN seq : Append(seq, e)[i] = seq[i]
      /\ Len(seq) \in Nat
  OBVIOUS
<1>2. \A s \in Step : In(s, Append(seq, e)) <=> In(s, seq) \/ s = e
  BY <1>1 DEF In
<1>3. Distinct(seq) /\ ~In(e, seq) => Distinct(Append(seq, e))
  BY <1>1 DEF In, Distinct
<1> QED BY <1>1, <1>2, <1>3

\* A receive removes one element.
LEMMA TailSeq ==
    ASSUME NEW seq \in Seq(Step), seq # <<>>
    PROVE  /\ Head(seq) \in Step
           /\ Tail(seq) \in Seq(Step)
           /\ In(Head(seq), seq)
           /\ \A s \in Step : In(s, seq) <=> s = Head(seq) \/ In(s, Tail(seq))
           /\ Distinct(seq) => Distinct(Tail(seq)) /\ ~In(Head(seq), Tail(seq))
<1>1. /\ Head(seq) = seq[1] /\ Head(seq) \in Step
      /\ Tail(seq) \in Seq(Step)
      /\ Len(seq) \in Nat \ {0}
      /\ DOMAIN seq = 1..Len(seq)
      /\ DOMAIN Tail(seq) = 1..Len(seq) - 1
      /\ \A i \in DOMAIN Tail(seq) : Tail(seq)[i] = seq[i + 1]
  OBVIOUS
<1>2. \A s \in Step : In(s, seq) <=> s = Head(seq) \/ In(s, Tail(seq))
  <2> TAKE s \in Step
  <2>1. ASSUME In(s, seq), s # Head(seq) PROVE In(s, Tail(seq))
    <3>1. PICK i \in DOMAIN seq : seq[i] = s
      BY <2>1 DEF In
    <3>2. i - 1 \in DOMAIN Tail(seq) /\ Tail(seq)[i - 1] = s
      BY <1>1, <2>1, <3>1
    <3> QED BY <3>2 DEF In
  <2>2. s = Head(seq) \/ In(s, Tail(seq)) => In(s, seq)
    BY <1>1 DEF In
  <2> QED BY <2>1, <2>2
<1>3. Distinct(seq) => Distinct(Tail(seq)) /\ ~In(Head(seq), Tail(seq))
  BY <1>1 DEF In, Distinct
<1>4. In(Head(seq), seq)
  BY <1>1 DEF In
<1> QED BY <1>1, <1>2, <1>3, <1>4

\* A part of a sequence of steps.
LEMMA PartSeq ==
    ASSUME NEW seq \in Seq(Step), NEW a \in 1..Len(seq) + 1,
           NEW b \in (a - 1)..Len(seq)
    PROVE  /\ SubSeq(seq, a, b) \in Seq(Step)
           /\ Len(SubSeq(seq, a, b)) = b - a + 1
           /\ DOMAIN SubSeq(seq, a, b) = 1..(b - a + 1)
           /\ \A i \in 1..(b - a + 1) : SubSeq(seq, a, b)[i] = seq[a + i - 1]
OBVIOUS

\* plan.ready after append(p.ready, ready...).
LEMMA ConcatSeq ==
    ASSUME NEW a \in Seq(Step), NEW b \in Seq(Step)
    PROVE  /\ a \o b \in Seq(Step)
           /\ a \o b = <<>> <=> a = <<>> /\ b = <<>>
           /\ \A s \in Step : In(s, a \o b) <=> In(s, a) \/ In(s, b)
           /\ Distinct(a) /\ Distinct(b) /\ (\A s \in Step : ~(In(s, a) /\ In(s, b)))
                 => Distinct(a \o b)
<1>1. /\ a \o b \in Seq(Step)
      /\ Len(a) \in Nat /\ Len(b) \in Nat
      /\ DOMAIN a = 1..Len(a) /\ DOMAIN b = 1..Len(b)
      /\ DOMAIN (a \o b) = 1..Len(a) + Len(b)
      /\ \A i \in 1..Len(a) : (a \o b)[i] = a[i] /\ a[i] \in Step
      /\ \A i \in Len(a) + 1 .. Len(a) + Len(b) : (a \o b)[i] = b[i - Len(a)]
      /\ \A i \in 1..Len(b) : (a \o b)[Len(a) + i] = b[i]
  OBVIOUS
<1>2. a \o b = <<>> <=> a = <<>> /\ b = <<>>
  OBVIOUS
<1>3. ASSUME NEW s \in Step PROVE In(s, a \o b) <=> In(s, a) \/ In(s, b)
  <2>1. ASSUME In(s, a \o b) PROVE In(s, a) \/ In(s, b)
    <3>1. PICK i \in 1..Len(a) + Len(b) : (a \o b)[i] = s
      BY <1>1, <2>1 DEF In
    <3>2. CASE i \in 1..Len(a)
      BY <1>1, <3>1, <3>2 DEF In
    <3>3. CASE i \in Len(a) + 1 .. Len(a) + Len(b)
      <4>1. i - Len(a) \in DOMAIN b /\ b[i - Len(a)] = s
        BY <1>1, <3>1, <3>3
      <4> QED BY <4>1 DEF In
    <3> QED BY <1>1, <3>2, <3>3
  <2>2. In(s, a) => In(s, a \o b)
    BY <1>1 DEF In
  <2>3. In(s, b) => In(s, a \o b)
    <3> SUFFICES ASSUME NEW i \in DOMAIN b, b[i] = s PROVE In(s, a \o b)
      BY DEF In
    <3>1. Len(a) + i \in DOMAIN (a \o b) /\ (a \o b)[Len(a) + i] = s
      BY <1>1
    <3> QED BY <3>1 DEF In
  <2> QED BY <2>1, <2>2, <2>3
<1>4. ASSUME Distinct(a), Distinct(b), \A s \in Step : ~(In(s, a) /\ In(s, b)),
             NEW i \in DOMAIN (a \o b), NEW j \in DOMAIN (a \o b),
             (a \o b)[i] = (a \o b)[j]
      PROVE  i = j
  <2> DEFINE A == 1..Len(a)
             B == Len(a) + 1 .. Len(a) + Len(b)
  <2>1. i \in A \cup B /\ j \in A \cup B
    BY <1>1
  <2>2. CASE i \in A /\ j \in A
    BY <1>1, <1>4, <2>2 DEF Distinct
  <2>3. CASE i \in B /\ j \in B
    <3>1. i - Len(a) \in DOMAIN b /\ j - Len(a) \in DOMAIN b
      BY <1>1, <2>3
    <3>2. i - Len(a) = j - Len(a)
      BY <1>1, <1>4, <2>3, <3>1 DEF Distinct
    <3> QED BY <1>1, <2>3, <3>2
  <2>4. ASSUME NEW k \in A, NEW l \in B PROVE (a \o b)[k] # (a \o b)[l]
    <3>1. l - Len(a) \in DOMAIN b /\ (a \o b)[l] = b[l - Len(a)]
      BY <1>1
    <3>2. In(a[k], a) /\ a[k] \in Step /\ (a \o b)[k] = a[k]
      BY <1>1 DEF In
    <3>3. a[k] # b[l - Len(a)]
      BY <1>4, <3>1, <3>2 DEF In
    <3> QED BY <3>1, <3>2, <3>3
  <2> QED BY <1>4, <2>1, <2>2, <2>3, <2>4
<1>5. Distinct(a) /\ Distinct(b) /\ (\A s \in Step : ~(In(s, a) /\ In(s, b)))
         => Distinct(a \o b)
  BY <1>4 DEF Distinct
<1> QED BY <1>1, <1>2, <1>3, <1>5

-----------------------------------------------------------------------------
(* The initial state *)

\* The waits of one step are finitely many.
LEMMA SlotsOfFinite ==
    ASSUME NEW g \in Graphs, NEW s \in Step
    PROVE  /\ IsFiniteSet(SlotsOf(g, s))
           /\ Cardinality(SlotsOf(g, s)) \in Nat
           /\ Cardinality(SlotsOf(g, s)) = 0 <=> SlotsOf(g, s) = {}
<1>1. IsFiniteSet(SlotsOf(g, s))
  BY SlotsFinite, FS_Subset DEF SlotsOf
<1> QED BY <1>1, FS_CardinalityType, FS_EmptySet

\* schedule's plan satisfies the invariant.
LEMMA InitIInv == Init => IInv
<1> SUFFICES ASSUME Init PROVE IInv
  OBVIOUS
<1>g. graph \in Graphs
  BY DEF Init
<1> DEFINE R == InitialReady(graph)
<1>r. IsFiniteSet(R) /\ R \subseteq Step /\ Cardinality(R) \in Nat
  BY GraphAssumption, FS_Subset, FS_CardinalityType DEF InitialReady
<1>1. PICK order \in [1..Cardinality(R) -> R] :
        LET n == IF Len(order) < QCap THEN Len(order) ELSE QCap
        IN /\ IsEnumeration(order, R)
           /\ q = SubSeq(order, 1, n)
           /\ ready = SubSeq(order, n + 1, Len(order))
  BY DEF Init, PlanInit
<1> DEFINE n == IF Len(order) < QCap THEN Len(order) ELSE QCap
           L == Len(order)
<1> HIDE DEF R
<1>2. /\ order \in Seq(Step) /\ L \in Nat /\ n \in 0..L
      /\ DOMAIN order = 1..L
      /\ n = 0 => L = 0
      /\ \A i \in 1..L : order[i] \in R
  BY <1>r, <1>1, BuilderAssumption
<1>s. q = SubSeq(order, 1, n) /\ ready = SubSeq(order, n + 1, L)
  BY <1>1
<1> HIDE DEF n, L
<1>3. /\ q \in Seq(Step) /\ Len(q) = n /\ DOMAIN q = 1..n
      /\ \A i \in 1..n : q[i] = order[i]
  <2>1. 1 \in 1..Len(order) + 1 /\ n \in (1 - 1)..Len(order)
    BY <1>2 DEF L
  <2>2. n - 1 + 1 = n /\ \A i \in 1..n : 1 + i - 1 = i
    BY <1>2
  <2>3. /\ q \in Seq(Step) /\ Len(q) = n - 1 + 1 /\ DOMAIN q = 1..(n - 1 + 1)
        /\ \A i \in 1..(n - 1 + 1) : q[i] = order[1 + i - 1]
    BY <1>2, <1>s, <2>1, PartSeq, Zenon
  <2> QED BY <2>2, <2>3
<1>4. /\ ready \in Seq(Step) /\ Len(ready) = L - n /\ DOMAIN ready = 1..(L - n)
      /\ \A i \in 1..(L - n) : ready[i] = order[n + i]
  <2> DEFINE k == n + 1
             r == SubSeq(order, k, Len(order))
  <2>1. k \in 1..Len(order) + 1 /\ Len(order) \in (k - 1)..Len(order)
    BY <1>2 DEF L
  <2>2. L - k + 1 = L - n /\ \A i \in 1..(L - n) : k + i - 1 = n + i
    BY <1>2
  <2>3. ready = r
    BY <1>s DEF L
  <2> HIDE DEF k
  <2>4. /\ r \in Seq(Step) /\ Len(r) = Len(order) - k + 1
        /\ DOMAIN r = 1..(Len(order) - k + 1)
        /\ \A i \in 1..(Len(order) - k + 1) : r[i] = order[k + i - 1]
    BY <1>2, <2>1, PartSeq
  <2> HIDE DEF r
  <2> QED BY <2>2, <2>3, <2>4 DEF L
<1>e. IsEnumeration(order, R)
  BY <1>1
<1>5. Distinct(q) /\ Distinct(ready)
  <2>1. Distinct(q)
    BY <1>e, <1>2, <1>3 DEF Distinct, IsEnumeration
  <2>2. ASSUME NEW i \in 1..(L - n), NEW j \in 1..(L - n), ready[i] = ready[j]
        PROVE  i = j
    <3>1. n + i \in 1..L /\ n + j \in 1..L /\ order[n + i] = order[n + j]
      BY <1>2, <1>4, <2>2
    <3>2. n + i = n + j
      BY <1>e, <1>2, <3>1 DEF IsEnumeration
    <3> QED BY <1>2, <3>2
  <2> QED BY <1>4, <2>1, <2>2 DEF Distinct
<1>6. \A s \in Step : ~(In(s, q) /\ In(s, ready))
  <2> SUFFICES ASSUME NEW i \in 1..n, NEW j \in 1..(L - n), q[i] = ready[j]
               PROVE  FALSE
    BY <1>3, <1>4 DEF In
  <2>1. n + j \in 1..L /\ i \in 1..L /\ i # n + j
    BY <1>2
  <2>2. order[i] = order[n + j]
    BY <1>3, <1>4
  <2> QED BY <1>e, <1>2, <2>1, <2>2 DEF IsEnumeration
<1>7. \A s \in Step : In(s, q) \/ In(s, ready) <=> s \in R
  <2> TAKE s \in Step
  <2>1. In(s, q) \/ In(s, ready) => s \in R
    <3>1. In(s, q) => s \in R
      BY <1>2, <1>3 DEF In
    <3>2. ASSUME NEW i \in 1..(L - n) PROVE ready[i] \in R
      <4>1. n + i \in 1..L
        BY <1>2
      <4> QED BY <1>2, <1>4, <4>1
    <3>3. In(s, ready) => s \in R
      BY <1>4, <3>2 DEF In
    <3> QED BY <3>1, <3>3
  <2>2. ASSUME s \in R PROVE In(s, q) \/ In(s, ready)
    <3>1. PICK i \in 1..L : order[i] = s
      BY <1>e, <1>2, <2>2 DEF IsEnumeration
    <3>2. CASE i <= n
      BY <1>2, <1>3, <3>1, <3>2 DEF In
    <3>3. CASE i > n
      <4>1. i - n \in 1..(L - n) /\ ready[i - n] = s
        BY <1>2, <1>4, <3>1, <3>3
      <4> QED BY <1>4, <4>1 DEF In
    <3> QED BY <1>2, <3>2, <3>3
  <2> QED BY <2>1, <2>2
<1>8. q = <<>> => ready = <<>>
  BY <1>2, <1>3, <1>4
<1>9. \A s \in Step : ~Made(s) /\ st[s] = "idle" /\ serr[s] = "nil"
  BY DEF Init, Made
<1>10. \A s \in Step : OutOf(s) = SlotsOf(graph, s)
  <2> SUFFICES ASSUME NEW s \in Step, NEW sl \in SlotsOf(graph, s)
               PROVE  Outstanding(sl)
    BY DEF OutOf
  <2>1. \E p \in Step : sl \in Feeds(graph, p)
    BY <1>g, OneFeeder DEF SlotsOf
  <2> QED BY <1>9, <2>1 DEF Outstanding
<1>11. \A s \in Step : nwaits[s] = Cardinality(SlotsOf(graph, s))
  BY DEF Init, PlanInit
<1>12. \A s \in Step : nwaits[s] \in Nat /\ (nwaits[s] = 0 <=> s \in R)
  BY <1>g, <1>11, SlotsOfFinite DEF R, InitialReady
<1>13. Waiting = Step \ R
  BY <1>12, <1>r DEF Waiting
<1>14. IsFiniteSet(Step \ R) /\ Cardinality(Step \ R) \in Nat
  BY GraphAssumption, FS_Subset, FS_CardinalityType
<1>15. npendings = Cardinality(Step \ R)
  BY DEF Init, PlanInit, R
<1>16. Active = {}
  BY <1>9 DEF Active
<1>17. /\ mu = NoStep /\ move = <<>> /\ todo = {} /\ spill = <<>>
       /\ loop = "acquire" /\ cur = NoStep /\ sema = 0
       /\ interrupted = FALSE /\ canceled = FALSE
       /\ errch = <<>> /\ nfail = 0 /\ sawCancel = FALSE /\ result = "none"
       /\ st = [s \in Step |-> "idle"] /\ serr = [s \in Step |-> "nil"]
       /\ waits = [t \in Target |-> {sl \in Slots(graph) : SlotTarget(graph, sl) = t}]
       /\ nwaits = [s \in Step |-> Cardinality(SlotsOf(graph, s))]
       /\ closed = FALSE
  BY DEF Init, PlanInit
<1>18. TypeOK
  <2>1. nwaits \in [Step -> Nat]
    BY <1>12, <1>17
  <2>2. waits \in [Target -> SUBSET Slots(graph)]
    BY <1>17
  <2>3. /\ st \in [Step -> StepStates] /\ serr \in [Step -> Err]
        /\ errch \in Seq(Err) /\ move \in Seq(Step) /\ spill \in Seq(Step)
        /\ sema \in 0..StepLimit /\ nfail \in Nat /\ npendings \in Nat
    BY <1>14, <1>15, <1>17, BuilderAssumption DEF StepStates, Err
  <2>4. /\ closed \in BOOLEAN /\ interrupted \in BOOLEAN /\ canceled \in BOOLEAN /\ sawCancel \in BOOLEAN
        /\ loop \in LoopStates /\ result \in Results
        /\ mu \in Step \cup {NoStep} /\ cur \in Step \cup {NoStep}
        /\ todo \subseteq Slots(graph)
    BY <1>17 DEF LoopStates, Results
  <2> QED BY <1>g, <1>3, <1>4, <2>1, <2>2, <2>3, <2>4 DEF TypeOK
<1>19. LockInv
  BY <1>9, <1>17, BuilderAssumption DEF LockInv
<1>20. WaitsInv
  <2>1. \A p \in Step : \A t \in Outputs(p) : t \in Target
    BY <1>g, BuilderAssumption DEF Outputs, Range, WellFormed, WellTyped
  <2> QED BY <1>17, <2>1 DEF WaitsInv
<1>21. CountInv
  BY <1>10, <1>11 DEF CountInv
<1>22. PendingInv
  BY <1>13, <1>15 DEF PendingInv
<1>23. PlaceInv
  BY <1>5, <1>6, <1>7, <1>9, <1>12, <1>17, EmptySeq, BuilderAssumption
     DEF PlaceInv, Moving
<1>24. ClosedInv /\ SpillInv
  BY <1>8, <1>17 DEF ClosedInv, SpillInv
<1>25. SemaInv
  BY <1>16, <1>17, FS_EmptySet DEF SemaInv
<1> QED BY <1>18, <1>19, <1>20, <1>21, <1>22, <1>23, <1>24, <1>25 DEF IInv

-----------------------------------------------------------------------------
(* Preservation *)

\* The outputs of a step are targets.
LEMMA OutputsType ==
    ASSUME graph \in Graphs, NEW s \in Step
    PROVE  Outputs(s) \subseteq Target
BY BuilderAssumption DEF Outputs, Range, WellFormed, WellTyped

\* The counters keep their meaning in a step that leaves the wait lists, the
\* counters and the set of made steps alone.
LEMMA CountFrame ==
    ASSUME IInv, UNCHANGED <<graph, waits, nwaits, npendings, todo>>,
           \A s \in Step : Made(s)' <=> Made(s)
    PROVE  WaitsInv' /\ CountInv' /\ PendingInv'
<1>1. \A sl : Outstanding(sl)' <=> Outstanding(sl)
  BY DEF Outstanding
<1>2. \A s \in Step : OutOf(s)' = OutOf(s)
  BY <1>1 DEF OutOf
<1>3. CountInv'
  BY <1>2 DEF IInv, CountInv
<1>4. WaitsInv'
  BY DEF IInv, WaitsInv, Outputs
<1>5. PendingInv'
  BY DEF IInv, PendingInv, Waiting
<1> QED BY <1>3, <1>4, <1>5

\* Outstanding slots are finitely many, so nwaits counts them.
LEMMA OutOfFinite ==
    ASSUME graph \in Graphs, NEW s \in Step
    PROVE  /\ IsFiniteSet(OutOf(s))
           /\ Cardinality(OutOf(s)) \in Nat
           /\ Cardinality(OutOf(s)) = 0 <=> OutOf(s) = {}
<1>1. IsFiniteSet(OutOf(s))
  BY SlotsOfFinite, FS_Subset DEF OutOf
<1> QED BY <1>1, FS_CardinalityType, FS_EmptySet

\* A step of the plan that is in no place and has no waits left has started.
LEMMA ActiveFinite ==
    IsFiniteSet(Active) /\ Cardinality(Active) \in Nat
BY GraphAssumption, FS_Subset, FS_CardinalityType DEF Active

\* The steps of the loop that touch neither the plan nor a goroutine.
LEMMA LoopQuietInv ==
    ASSUME IInv,
           \/ AcquireStepSema \/ AcquireCanceled \/ ReceiveClosed \/ ReceiveError
           \/ ReceiveCtxDone \/ DumpAndReturn \/ CollectError \/ BuildReturn
           \/ Interrupt
    PROVE  IInv'
<1> USE DEF planVars, doneVars, loopVars
<1>u. UNCHANGED <<graph, q, ready, waits, nwaits, npendings, closed, mu, move,
                  todo, spill, cur, st, serr>>
  BY DEF AcquireStepSema, AcquireCanceled, ReceiveClosed, ReceiveError,
         ReceiveCtxDone, DumpAndReturn, CollectError, BuildReturn, Interrupt
<1>t. TypeOK
  BY DEF IInv
<1>c. Cardinality(Active) \in Nat /\ Active' = Active
  BY <1>u, ActiveFinite DEF Active
<1>1. CASE AcquireStepSema
  <2>1. /\ sema' = sema + 1 /\ loop = "acquire" /\ loop' = "select"
        /\ sema < StepLimit /\ UNCHANGED <<interrupted, canceled, errch, nfail, sawCancel,
                                                   result>>
    BY <1>1 DEF AcquireStepSema
  <2>2. sema' \in 0..StepLimit
    BY <1>t, <2>1, BuilderAssumption DEF TypeOK
  <2>3. SemaInv'
    BY <1>c, <2>1 DEF IInv, SemaInv
  <2>4. TypeOK'
    BY <1>t, <1>u, <2>1, <2>2 DEF TypeOK, LoopStates
  <2>5. SpillInv' /\ PlaceInv'
    BY <1>u, <2>1 DEF IInv, SpillInv, PlaceInv, Moving
  <2>6. LockInv' /\ ClosedInv'
    BY <1>u DEF IInv, LockInv, ClosedInv
  <2> QED BY <1>u, <2>3, <2>4, <2>5, <2>6, CountFrame DEF IInv, Made
<1>2. CASE ~AcquireStepSema
  <2>1. /\ \/ sema' = sema - 1 /\ loop = "select" /\ loop' \notin {"select", "dispatch"}
           \/ /\ sema' = sema
              /\ loop' \in {"select", "dispatch"} <=> loop \in {"select", "dispatch"}
        /\ loop' = "dispatch" <=> loop = "dispatch"
        /\ loop' \in {"acquire", "select"} => loop \in {"acquire", "select"}
    BY <1>2 DEF AcquireCanceled, ReceiveClosed, ReceiveError,
         ReceiveCtxDone, DumpAndReturn, CollectError, BuildReturn, Interrupt
  <2>2. sema' \in 0..StepLimit /\ SemaInv'
    BY <1>t, <1>c, <2>1, BuilderAssumption DEF IInv, SemaInv, TypeOK
  <2>3. loop' \in LoopStates /\ result' \in Results /\ interrupted' \in BOOLEAN
        /\ canceled' \in BOOLEAN
        /\ sawCancel' \in BOOLEAN
    BY <1>t, <1>2 DEF AcquireCanceled, ReceiveClosed, ReceiveError, TypeOK,
         ReceiveCtxDone, DumpAndReturn, CollectError, BuildReturn, Interrupt,
         LoopStates, Results, BuildResult
  <2>4. errch' \in Seq(Err) /\ nfail' \in Nat
    <3>1. \/ UNCHANGED <<errch, nfail>>
          \/ errch # <<>> /\ errch' = Tail(errch) /\ nfail' = CountFailure(Head(errch))
      BY <1>2 DEF AcquireCanceled, ReceiveClosed, ReceiveError,
         ReceiveCtxDone, DumpAndReturn, CollectError, BuildReturn, Interrupt
    <3>2. nfail' = nfail \/ nfail' = nfail + 1
      BY <3>1 DEF CountFailure
    <3>3. errch \in Seq(Err) /\ nfail \in Nat
      BY <1>t DEF TypeOK
    <3> HIDE DEF Err
    <3> QED BY <3>1, <3>2, <3>3
  <2>5. TypeOK'
    BY <1>t, <1>u, <2>2, <2>3, <2>4 DEF TypeOK
  <2>6. SpillInv' /\ PlaceInv'
    BY <1>u, <2>1 DEF IInv, SpillInv, PlaceInv, Moving
  <2>7. LockInv' /\ ClosedInv'
    BY <1>u DEF IInv, LockInv, ClosedInv
  <2> QED BY <1>u, <2>2, <2>5, <2>6, <2>7, CountFrame DEF IInv, Made
<1> QED BY <1>1, <1>2

\* The loop receives a step.
LEMMA ReceiveStepInv ==
    ASSUME IInv, ReceiveStep
    PROVE  IInv'
<1> USE DEF planVars, doneVars, loopVars
<1>t. TypeOK
  BY DEF IInv
<1>u. /\ UNCHANGED <<graph, interrupted, ready, waits, nwaits, npendings, closed, mu, move, todo,
                     spill, sawCancel, result, sema, canceled, errch, nfail, st, serr>>
      /\ loop = "select" /\ loop' = "dispatch" /\ q # <<>>
      /\ cur' = Head(q) /\ q' = Tail(q)
  BY DEF ReceiveStep
<1>q. /\ Head(q) \in Step /\ Tail(q) \in Seq(Step) /\ In(Head(q), q)
      /\ \A s \in Step : In(s, q) <=> s = Head(q) \/ In(s, Tail(q))
      /\ Distinct(q) => Distinct(Tail(q)) /\ ~In(Head(q), Tail(q))
  BY <1>t, <1>u, TailSeq DEF TypeOK
<1>1. TypeOK'
  BY <1>t, <1>u, <1>q DEF TypeOK, LoopStates
<1>2. PlaceInv'
  <2>1. PlaceInv /\ cur = NoStep
    BY <1>u DEF IInv, PlaceInv
  <2> QED BY <1>u, <1>q, <2>1, BuilderAssumption DEF PlaceInv, Moving
<1>3. SpillInv' /\ SemaInv' /\ LockInv' /\ ClosedInv'
  BY <1>u DEF IInv, SpillInv, SemaInv, Active, LockInv, ClosedInv
<1> QED BY <1>u, <1>1, <1>2, <1>3, CountFrame DEF IInv, Made

\* The loop calls pushReady and starts the goroutine of the received step.
LEMMA DispatchInv ==
    ASSUME IInv, Dispatch
    PROVE  IInv'
<1> USE DEF planVars, doneVars, loopVars
<1>t. TypeOK
  BY DEF IInv
<1>u. /\ UNCHANGED <<graph, interrupted, waits, nwaits, npendings, closed, mu, move, todo,
                     spill, sawCancel, result, sema, canceled, errch, nfail, serr>>
      /\ loop = "dispatch" /\ loop' = "acquire" /\ mu = NoStep /\ cur' = NoStep
      /\ st' = [st EXCEPT ![cur] = "running"]
  BY DEF Dispatch
<1>c. cur \in Step /\ st[cur] = "idle" /\ nwaits[cur] = 0
  BY <1>u DEF IInv, PlaceInv
<1>s. /\ st' \in [Step -> StepStates]
      /\ st'[cur] = "running"
      /\ \A s \in Step : s # cur => st'[s] = st[s]
  BY <1>t, <1>u, <1>c DEF TypeOK, StepStates
<1>e. move = <<>> /\ spill = <<>>
  BY <1>u DEF IInv, LockInv
<1>p. /\ q' \in Seq(Step) /\ ready' \in Seq(Step)
      /\ Distinct(q') /\ Distinct(ready')
      /\ \A s \in Step : In(s, q') \/ In(s, ready') <=> In(s, q) \/ In(s, ready)
      /\ \A s \in Step : ~(In(s, q') /\ In(s, ready'))
      /\ q' = <<>> => ready' = <<>>
      /\ ready = <<>> => ready' = <<>>
  <2>1. q \in Seq(Step) /\ ready \in Seq(Step) /\ Distinct(q) /\ Distinct(ready)
        /\ \A s \in Step : ~(In(s, q) /\ In(s, ready))
    BY <1>t DEF TypeOK, IInv, PlaceInv
  <2>2. CASE ready # <<>> /\ Len(q) < QCap
    <3>1. q' = Append(q, Head(ready)) /\ ready' = Tail(ready)
      BY <2>2 DEF Dispatch, PushReady
    <3>2. Head(ready) \in Step /\ In(Head(ready), ready) /\ ~In(Head(ready), q)
      BY <2>1, <2>2, TailSeq
    <3>3. /\ \A s \in Step : In(s, q') <=> In(s, q) \/ s = Head(ready)
          /\ Distinct(q') /\ q' \in Seq(Step) /\ q' # <<>>
      BY <2>1, <3>1, <3>2, AppendSeq
    <3>4. /\ \A s \in Step : In(s, ready) <=> s = Head(ready) \/ In(s, ready')
          /\ Distinct(ready') /\ ~In(Head(ready), ready') /\ ready' \in Seq(Step)
      BY <2>1, <2>2, <3>1, TailSeq
    <3> QED BY <2>1, <2>2, <3>2, <3>3, <3>4
  <2>3. CASE ~(ready # <<>> /\ Len(q) < QCap)
    <3>1. q' = q /\ ready' = ready
      BY <2>3 DEF Dispatch, PushReady
    <3>2. q = <<>> => Len(q) < QCap
      BY BuilderAssumption
    <3> QED BY <2>1, <2>3, <3>1, <3>2
  <2> QED BY <2>2, <2>3
<1>1. TypeOK'
  BY <1>t, <1>u, <1>s, <1>p DEF TypeOK, LoopStates
<1>2. PlaceInv'
  <2>1. PlaceInv
    BY DEF IInv
  <2>2. \A s \in Step : Moving(s)' <=> Moving(s)
    BY <1>u, <1>e, <1>p DEF Moving
  <2>3. \A s \in Step : ~In(s, move') /\ ~In(s, spill')
    BY <1>u, <1>e, EmptySeq
  <2>4. Distinct(move') /\ Distinct(spill')
    BY <1>u, <1>e, EmptySeq
  <2>5. ASSUME NEW s \in Step
        PROVE /\ Moving(s)' => st'[s] = "idle" /\ s # cur' /\ nwaits'[s] = 0
              /\ nwaits'[s] = 0 => Moving(s)' \/ s = cur' \/ st'[s] # "idle"
              /\ st'[s] # "idle" => nwaits'[s] = 0
    BY <1>u, <1>c, <1>s, <2>1, <2>2, BuilderAssumption DEF PlaceInv
  <2> QED BY <1>u, <1>p, <2>3, <2>4, <2>5 DEF PlaceInv
<1>3. SpillInv'
  BY <1>u, <1>e, <1>p DEF SpillInv
<1>4. SemaInv'
  <2>1. Active' = Active \cup {cur} /\ cur \notin Active
    BY <1>s, <1>c DEF Active
  <2>2. Cardinality(Active') = Cardinality(Active) + 1
    BY <2>1, ActiveFinite, FS_AddElement
  <2> QED BY <1>t, <1>u, <2>2, ActiveFinite DEF IInv, SemaInv, TypeOK
<1>5. LockInv'
  BY <1>u, <1>s, <1>c, BuilderAssumption DEF IInv, LockInv
<1>6. ClosedInv'
  BY <1>u, <1>p DEF IInv, ClosedInv
<1>7. \A s \in Step : Made(s)' <=> Made(s)
  BY <1>u, <1>s, <1>c DEF Made
<1> QED BY <1>u, <1>1, <1>2, <1>3, <1>4, <1>5, <1>6, <1>7, CountFrame DEF IInv

\* A goroutine ends its step without plan.done, gives its permit back, or exits.
LEMMA StepQuietInv ==
    ASSUME IInv, NEW s \in Step,
           \/ StepFail(s) \/ StepCanceled(s) \/ ReleaseStepSema(s)
           \/ SendError(s) \/ DropError(s)
    PROVE  IInv'
<1> USE DEF planVars, doneVars, loopVars
<1>t. TypeOK
  BY DEF IInv
<1>u. /\ UNCHANGED <<graph, interrupted, q, ready, waits, nwaits, npendings, closed, mu, move, todo,
                     spill, loop, cur, sawCancel, result, canceled, nfail>>
      /\ st' = [st EXCEPT ![s] = st'[s]] /\ serr' = [serr EXCEPT ![s] = serr'[s]]
      /\ st'[s] \in {"release", "send", "exited"}
      /\ st[s] \notin {"idle", "done"} /\ serr'[s] \in Err
      /\ \/ st[s] = "running" /\ st'[s] = "release" /\ serr'[s] # "nil" /\ sema' = sema
         \/ st[s] = "release" /\ st'[s] = "send" /\ serr' = serr /\ sema' = sema - 1
         \/ st[s] = "send" /\ st'[s] = "exited" /\ serr' = serr /\ sema' = sema
  <2>1. CASE StepFail(s) \/ StepCanceled(s)
    BY <1>t, <2>1 DEF StepFail, StepCanceled, TypeOK, StepStates, Err
  <2>2. CASE ReleaseStepSema(s) \/ SendError(s) \/ DropError(s)
    BY <1>t, <2>2 DEF ReleaseStepSema, SendError, DropError, TypeOK
  <2> QED BY <2>1, <2>2
<1>s. \A r \in Step : r # s => st'[r] = st[r] /\ serr'[r] = serr[r]
  BY <1>t, <1>u DEF TypeOK
<1>e. errch' \in Seq(Err)
  <2>1. errch' = errch \/ errch' = Append(errch, serr[s])
    BY DEF StepFail, StepCanceled, ReleaseStepSema, SendError, DropError
  <2>2. errch \in Seq(Err) /\ serr[s] \in Err
    BY <1>t DEF TypeOK
  <2> QED BY <2>1, <2>2
<1>1. SemaInv' /\ sema' \in 0..StepLimit
  <2>1. CASE st[s] = "release"
    <3>1. Active' = Active \ {s} /\ s \in Active
      BY <1>u, <1>s, <2>1 DEF Active
    <3>2. Cardinality(Active') = Cardinality(Active) - 1 /\ Cardinality(Active) # 0
      BY <3>1, ActiveFinite, FS_RemoveElement, FS_EmptySet
    <3>3. sema' = sema - 1 /\ loop' = loop /\ sema \in 0..StepLimit
      BY <1>t, <1>u, <2>1 DEF TypeOK
    <3>4. SemaInv /\ StepLimit \in Nat
      BY BuilderAssumption DEF IInv
    <3> QED BY <3>2, <3>3, <3>4, ActiveFinite DEF SemaInv
  <2>2. CASE st[s] # "release"
    <3>1. Active' = Active /\ sema' = sema
      BY <1>u, <1>s, <2>2 DEF Active
    <3> QED BY <1>t, <1>u, <3>1 DEF IInv, SemaInv, TypeOK
  <2> QED BY <2>1, <2>2
<1>2. TypeOK'
  BY <1>t, <1>u, <1>e, <1>1 DEF TypeOK, StepStates
<1>3. \A r \in Step : Made(r)' <=> Made(r)
  <2>1. Made(s)' <=> Made(s)
    BY <1>u DEF Made
  <2> QED BY <1>s, <2>1 DEF Made
<1>4. LockInv'
  <2>1. st'[s] # "done" /\ st[s] # "done"
    BY <1>u
  <2> QED BY <1>u, <1>s, <2>1 DEF IInv, LockInv
<1>5. PlaceInv'
  <2>1. \A r \in Step : st'[r] = "idle" <=> st[r] = "idle"
    BY <1>u, <1>s
  <2> QED BY <1>t, <1>u, <2>1 DEF IInv, PlaceInv, Moving, TypeOK
<1>6. SpillInv' /\ ClosedInv'
  BY <1>u DEF IInv, SpillInv, ClosedInv
<1> QED BY <1>u, <1>1, <1>2, <1>3, <1>4, <1>5, <1>6, CountFrame DEF IInv

\* plan.done begins, or returns because the plan is closed.
LEMMA StepDoneInv ==
    ASSUME IInv, NEW s \in Step, StepDone(s)
    PROVE  IInv'
<1> USE DEF planVars, doneVars, loopVars
<1>t. TypeOK /\ graph \in Graphs
  BY DEF IInv, TypeOK
<1>u. /\ UNCHANGED <<graph, interrupted, q, waits, nwaits, npendings, closed, loop, cur, sawCancel,
                     result, sema, canceled, errch, nfail>>
      /\ st[s] = "running" /\ mu = NoStep
  BY DEF StepDone
<1>l. move = <<>> /\ todo = {} /\ spill = <<>>
  BY <1>u DEF IInv, LockInv
<1>f. ~Made(s)
  BY <1>u DEF Made
<1>o. Outputs(s) \subseteq Target
  BY <1>t, OutputsType
<1>w. UNION {waits[t] : t \in Outputs(s)} = Feeds(graph, s)
  <2>1. \A t \in Outputs(s) : waits[t] = {sl \in Slots(graph) : SlotTarget(graph, sl) = t}
    BY <1>f DEF IInv, WaitsInv
  <2> QED BY <2>1 DEF Feeds, Outputs
<1>a. CASE closed
  <2>1. /\ st' = [st EXCEPT ![s] = "release"] /\ serr' = [serr EXCEPT ![s] = "nil"]
        /\ UNCHANGED <<ready, mu, move, todo, spill>>
    BY <1>a DEF StepDone, FinishDone
  <2>2. /\ st'[s] = "release" /\ serr'[s] = "nil"
        /\ \A r \in Step : r # s => st'[r] = st[r] /\ serr'[r] = serr[r]
    BY <1>t, <2>1 DEF TypeOK
  <2>3. \A r \in Step : nwaits[r] = 0
    <3>1. npendings = 0
      BY <1>a DEF IInv, ClosedInv
    <3>2. IsFiniteSet(Waiting)
      BY GraphAssumption, FS_Subset DEF Waiting
    <3>3. Waiting = {}
      BY <3>1, <3>2, FS_EmptySet DEF IInv, PendingInv
    <3> QED BY <3>3 DEF Waiting
  <2>4. \A r \in Step : OutOf(r) = {}
    BY <1>t, <2>3, OutOfFinite DEF IInv, CountInv
  <2>5. \A r \in Step : OutOf(r)' \subseteq OutOf(r)
    BY <1>u, <2>1, <2>2 DEF OutOf, Outstanding, Made
  <2>6. CountInv'
    <3>1. \A r \in Step : OutOf(r)' = {}
      BY <2>4, <2>5
    <3> QED BY <1>u, <2>3, <3>1, FS_EmptySet DEF CountInv
  <2>7. WaitsInv'
    BY <1>u, <2>2 DEF IInv, WaitsInv, Made, Outputs
  <2>8. PendingInv' /\ ClosedInv' /\ SpillInv'
    BY <1>u, <2>1 DEF IInv, PendingInv, Waiting, ClosedInv, SpillInv
  <2>9. TypeOK'
    BY <1>t, <1>u, <2>1 DEF TypeOK, StepStates, Err
  <2>10. LockInv'
    BY <1>u, <2>1, <2>2 DEF IInv, LockInv
  <2>11. PlaceInv'
    <3>1. \A r \in Step : st'[r] = "idle" <=> st[r] = "idle"
      BY <1>u, <2>2
    <3> QED BY <1>u, <2>1, <3>1 DEF IInv, PlaceInv, Moving
  <2>12. SemaInv'
    <3>1. Active' = Active
      BY <1>u, <2>2 DEF Active
    <3> QED BY <1>u, <3>1 DEF IInv, SemaInv
  <2> QED BY <2>6, <2>7, <2>8, <2>9, <2>10, <2>11, <2>12 DEF IInv
<1>b. CASE ~closed
  <2>1. /\ st' = [st EXCEPT ![s] = "done"] /\ mu' = s /\ move' = ready
        /\ ready' = <<>> /\ todo' = Feeds(graph, s) /\ UNCHANGED <<spill, serr>>
    BY <1>b, <1>w DEF StepDone
  <2>2. /\ st'[s] = "done"
        /\ \A r \in Step : r # s => st'[r] = st[r]
    BY <1>t, <2>1 DEF TypeOK
  <2>3. Made(s)' /\ \A r \in Step : r # s => (Made(r)' <=> Made(r))
    BY <2>1, <2>2 DEF Made
  <2>4. \A sl \in Slots(graph) : Outstanding(sl)' <=> Outstanding(sl)
    <3> TAKE sl \in Slots(graph)
    <3>1. PICK p \in Step : sl \in Feeds(graph, p)
      BY <1>t, OneFeeder
    <3>2. \A r \in Step : sl \in Feeds(graph, r) => r = p
      BY <1>t, <3>1, OneFeeder
    <3> QED BY <1>u, <1>l, <1>f, <2>1, <2>3, <3>1, <3>2 DEF Outstanding
  <2>5. \A r \in Step : OutOf(r)' = OutOf(r)
    BY <1>u, <2>4 DEF OutOf, SlotsOf
  <2>6. CountInv'
    BY <1>u, <2>5 DEF IInv, CountInv
  <2>7. WaitsInv'
    BY <1>u, <2>3 DEF IInv, WaitsInv, Outputs
  <2>8. PendingInv' /\ ClosedInv' /\ SpillInv'
    BY <1>u, <1>l, <1>b, <2>1 DEF IInv, PendingInv, Waiting, ClosedInv, SpillInv
  <2>9. TypeOK'
    <3>1. ready' \in Seq(Step) /\ move' \in Seq(Step) /\ todo' \subseteq Slots(graph)
      BY <1>t, <2>1 DEF TypeOK, Feeds
    <3> QED BY <1>t, <1>u, <2>1, <3>1 DEF TypeOK, StepStates
  <2>10. LockInv'
    <3>1. \A r \in Step : mu' = r <=> st'[r] = "done"
      BY <1>u, <2>1, <2>2, BuilderAssumption DEF IInv, LockInv
    <3> QED BY <1>u, <2>1, <3>1, BuilderAssumption DEF LockInv
  <2>11. PlaceInv'
    <3>1. \A r \in Step : st'[r] = "idle" <=> st[r] = "idle"
      BY <1>u, <2>2
    <3>2. \A r \in Step : ~In(r, move) /\ ~In(r, ready') /\ ~In(r, spill)
      BY <1>l, <2>1, EmptySeq
    <3>3. Distinct(ready')
      BY <2>1, EmptySeq
    <3>4. \A r \in Step : Moving(r)' <=> Moving(r)
      BY <1>u, <2>1, <3>2 DEF Moving
    <3>5. PlaceInv
      BY DEF IInv
    <3>6. /\ Distinct(q') /\ Distinct(move') /\ Distinct(spill')
          /\ \A r \in Step : ~(In(r, q') /\ In(r, move'))
      BY <1>u, <2>1, <3>5 DEF PlaceInv
    <3>7. \A r \in Step : ~In(r, ready') /\ ~In(r, spill')
      BY <2>1, <3>2
    <3>8. \A r \in Step :
             /\ Moving(r)' => st'[r] = "idle" /\ r # cur' /\ nwaits'[r] = 0
             /\ nwaits'[r] = 0 => Moving(r)' \/ r = cur' \/ st'[r] # "idle"
             /\ st'[r] # "idle" => nwaits'[r] = 0
      BY <1>u, <3>1, <3>4, <3>5 DEF PlaceInv
    <3>9. /\ loop' = "dispatch" => cur' \in Step /\ st'[cur'] = "idle" /\ nwaits'[cur'] = 0
          /\ loop' # "dispatch" => cur' = NoStep
      BY <1>u, <3>1, <3>5 DEF PlaceInv
    <3> QED BY <3>3, <3>6, <3>7, <3>8, <3>9 DEF PlaceInv
  <2>12. SemaInv'
    <3>1. Active' = Active
      BY <1>u, <2>2 DEF Active
    <3> QED BY <1>u, <3>1 DEF IInv, SemaInv
  <2> QED BY <2>6, <2>7, <2>8, <2>9, <2>10, <2>11, <2>12 DEF IInv
<1> QED BY <1>a, <1>b

\* plan.done offers a spilled step to q.
LEMMA DoneMoveInv ==
    ASSUME IInv, NEW s \in Step, DoneMove(s)
    PROVE  IInv'
<1> USE DEF planVars, doneVars, loopVars
<1>t. TypeOK /\ PlaceInv
  BY DEF IInv
<1>u. /\ UNCHANGED <<graph, interrupted, waits, nwaits, npendings, closed, mu, todo, spill, loop, cur,
                     sawCancel, result, sema, canceled, errch, nfail, st, serr>>
      /\ mu = s /\ move # <<>> /\ move' = Tail(move)
      /\ \/ q' = Append(q, Head(move)) /\ ready' = ready
         \/ ready' = Append(ready, Head(move)) /\ q' = q /\ ~(Len(q) < QCap)
  BY DEF DoneMove
<1>m. /\ Head(move) \in Step /\ Tail(move) \in Seq(Step) /\ In(Head(move), move)
      /\ \A r \in Step : In(r, move) <=> r = Head(move) \/ In(r, move')
      /\ Distinct(move') /\ ~In(Head(move), move')
  BY <1>t, <1>u, TailSeq DEF TypeOK, PlaceInv
<1>n. /\ ~In(Head(move), q) /\ ~In(Head(move), ready) /\ ~In(Head(move), spill)
  BY <1>t, <1>m DEF PlaceInv
<1>p. /\ q' \in Seq(Step) /\ ready' \in Seq(Step)
      /\ Distinct(q') /\ Distinct(ready')
      /\ \/ /\ \A r \in Step : In(r, q') <=> In(r, q) \/ r = Head(move)
            /\ ready' = ready
         \/ /\ \A r \in Step : In(r, ready') <=> In(r, ready) \/ r = Head(move)
            /\ q' = q
      /\ q' # <<>>
  <2>1. q \in Seq(Step) /\ ready \in Seq(Step) /\ Distinct(q) /\ Distinct(ready)
    BY <1>t DEF TypeOK, PlaceInv
  <2>2. CASE q' = Append(q, Head(move)) /\ ready' = ready
    BY <1>m, <1>n, <2>1, <2>2, AppendSeq
  <2>3. CASE ready' = Append(ready, Head(move)) /\ q' = q /\ ~(Len(q) < QCap)
    <3>1. q # <<>>
      BY <2>3, BuilderAssumption
    <3> QED BY <1>m, <1>n, <2>1, <2>3, <3>1, AppendSeq
  <2> QED BY <1>u, <2>2, <2>3
<1>1. TypeOK'
  BY <1>t, <1>u, <1>m, <1>p DEF TypeOK
<1>2. PlaceInv'
  <2>1. \A r \in Step : Moving(r)' <=> Moving(r)
    BY <1>u, <1>m, <1>p DEF Moving
  <2>2. \A r \in Step : ~(In(r, q') /\ In(r, ready')) /\ ~(In(r, q') /\ In(r, move'))
            /\ ~(In(r, ready') /\ In(r, move')) /\ ~(In(r, q') /\ In(r, spill'))
            /\ ~(In(r, ready') /\ In(r, spill')) /\ ~(In(r, move') /\ In(r, spill'))
    BY <1>t, <1>u, <1>m, <1>n, <1>p DEF PlaceInv
  <2> QED BY <1>t, <1>u, <1>m, <1>p, <2>1, <2>2 DEF PlaceInv
<1>3. ClosedInv'
  BY <1>u, BuilderAssumption DEF IInv, ClosedInv
<1>4. SpillInv'
  BY <1>p DEF SpillInv
<1>5. LockInv' /\ SemaInv'
  BY <1>u, BuilderAssumption DEF IInv, LockInv, SemaInv, Active
<1>6. \A r \in Step : Made(r)' <=> Made(r)
  BY <1>u DEF Made
<1> QED BY <1>u, <1>1, <1>2, <1>3, <1>4, <1>5, <1>6, CountFrame DEF IInv

\* plan.done appends its local slice to plan.ready, and closes q at the end.
LEMMA DoneEndInv ==
    ASSUME IInv, NEW s \in Step, DoneEnd(s)
    PROVE  IInv'
<1> USE DEF planVars, doneVars, loopVars
<1>t. TypeOK /\ PlaceInv
  BY DEF IInv
<1>u. /\ UNCHANGED <<graph, interrupted, q, waits, nwaits, npendings, move, todo, loop, cur,
                     sawCancel, result, sema, canceled, errch, nfail>>
      /\ st[s] = "done" /\ mu = s /\ move = <<>> /\ todo = {}
      /\ ready' = ready \o spill /\ spill' = <<>> /\ mu' = NoStep
      /\ closed' = (ready' = <<>> /\ npendings = 0)
      /\ st' = [st EXCEPT ![s] = "release"] /\ serr' = [serr EXCEPT ![s] = "nil"]
  BY DEF DoneEnd, FinishDone, NothingLeft
<1>s. /\ st'[s] = "release" /\ serr'[s] = "nil"
      /\ \A r \in Step : r # s => st'[r] = st[r] /\ serr'[r] = serr[r]
  BY <1>t, <1>u DEF TypeOK
<1>p. /\ ready' \in Seq(Step) /\ Distinct(ready')
      /\ ready' = <<>> <=> ready = <<>> /\ spill = <<>>
      /\ \A r \in Step : In(r, ready') <=> In(r, ready) \/ In(r, spill)
  BY <1>t, <1>u, ConcatSeq DEF TypeOK, PlaceInv
<1>1. TypeOK'
  <2>1. closed' \in BOOLEAN /\ spill' \in Seq(Step)
    BY <1>u
  <2> QED BY <1>t, <1>u, <1>p, <2>1 DEF TypeOK, StepStates, Err
<1>2. PlaceInv'
  <2>1. \A r \in Step : st'[r] = "idle" <=> st[r] = "idle"
    BY <1>u, <1>s
  <2>2. \A r \in Step : ~In(r, move') /\ ~In(r, spill')
    BY <1>u, EmptySeq
  <2>3. Distinct(move') /\ Distinct(spill')
    BY <1>u, EmptySeq
  <2>4. \A r \in Step : Moving(r)' <=> Moving(r)
    BY <1>u, <1>p, <2>2 DEF Moving
  <2>5. \A r \in Step : ~(In(r, q') /\ In(r, ready'))
    BY <1>t, <1>u, <1>p DEF PlaceInv
  <2> QED BY <1>t, <1>u, <1>p, <2>1, <2>2, <2>3, <2>4, <2>5 DEF PlaceInv
<1>3. ClosedInv' /\ SpillInv'
  BY <1>u, <1>p DEF IInv, ClosedInv, SpillInv
<1>4. LockInv'
  <2>1. \A r \in Step : st'[r] # "done"
    BY <1>u, <1>s DEF IInv, LockInv
  <2> QED BY <1>u, <2>1, BuilderAssumption DEF LockInv
<1>5. SemaInv'
  <2>1. Active' = Active
    BY <1>u, <1>s DEF Active
  <2> QED BY <1>u, <2>1 DEF IInv, SemaInv
<1>6. \A r \in Step : Made(r)' <=> Made(r)
  BY <1>u, <1>s DEF Made
<1> QED BY <1>u, <1>1, <1>2, <1>3, <1>4, <1>5, <1>6, CountFrame DEF IInv

\* plan.done visits a waiter.
LEMMA DoneWakeInv ==
    ASSUME IInv, NEW s \in Step, NEW sl \in todo, DoneWake(s, sl)
    PROVE  IInv'
<1> USE DEF planVars, doneVars, loopVars
<1>t. TypeOK /\ PlaceInv /\ graph \in Graphs
  BY DEF IInv, TypeOK
<1> DEFINE w == sl[1]
           tgt == SlotTarget(graph, sl)
<1>u. /\ UNCHANGED <<graph, interrupted, ready, closed, mu, move, loop, cur, sawCancel, result, sema,
                     canceled, errch, nfail, st, serr>>
      /\ st[s] = "done" /\ mu = s /\ move = <<>> /\ todo' = todo \ {sl}
      /\ nwaits' = [nwaits EXCEPT ![w] = @ - 1]
  BY DEF DoneWake
<1>sl. sl \in Slots(graph) /\ sl \in Feeds(graph, s) /\ w \in Step /\ tgt \in Target
  BY <1>t, <1>u, SlotsFinite DEF IInv, LockInv, TypeOK
<1>a. /\ sl \in OutOf(w)
      /\ OutOf(w)' = OutOf(w) \ {sl}
      /\ \A r \in Step : r # w => OutOf(r)' = OutOf(r)
  <2>1. \A r \in Step : sl \in Feeds(graph, r) => Made(r) /\ Made(r)'
    <3>1. \A r \in Step : sl \in Feeds(graph, r) => r = s
      BY <1>t, <1>sl, OneFeeder
    <3> QED BY <1>u, <3>1 DEF Made
  <2>2. Outstanding(sl) /\ ~Outstanding(sl)'
    BY <1>u, <2>1 DEF Outstanding
  <2>3. \A x : x # sl => (Outstanding(x)' <=> Outstanding(x))
    BY <1>u DEF Outstanding, Made
  <2>4. sl \in SlotsOf(graph, w) /\ \A r \in Step : sl \in SlotsOf(graph, r) => r = w
    BY <1>sl DEF SlotsOf
  <2> QED BY <1>u, <1>sl, <2>2, <2>3, <2>4 DEF OutOf
<1>b. /\ nwaits[w] = Cardinality(OutOf(w)) /\ nwaits[w] \in Nat \ {0}
      /\ Cardinality(OutOf(w)') = nwaits[w] - 1
  <2>1. IsFiniteSet(OutOf(w)) /\ nwaits[w] = Cardinality(OutOf(w)) /\ nwaits[w] \in Nat
    BY <1>t, <1>sl, OutOfFinite DEF IInv, CountInv
  <2>2. nwaits[w] # 0
    BY <1>t, <1>a, <1>sl, <2>1, OutOfFinite
  <2> QED BY <1>a, <2>1, <2>2, FS_RemoveElement
<1>c. /\ nwaits'[w] = nwaits[w] - 1
      /\ \A r \in Step : r # w => nwaits'[r] = nwaits[r]
      /\ nwaits' \in [Step -> Nat]
  BY <1>t, <1>u, <1>sl, <1>b DEF TypeOK
<1>1. CountInv'
  BY <1>a, <1>b, <1>c DEF IInv, CountInv
<1>d. ~Moving(w) /\ w # cur /\ st[w] = "idle"
  <2>1. ~Moving(w) /\ st[w] = "idle"
    BY <1>t, <1>b, <1>sl DEF PlaceInv
  <2>2. w # cur
    BY <1>t, <1>b, <1>sl, BuilderAssumption DEF PlaceInv
  <2> QED BY <2>1, <2>2
<1>2. WaitsInv'
  <2>1. waits' = waits \/ waits' = [waits EXCEPT ![tgt] = @ \ {sl}]
    BY DEF DoneWake
  <2>2. \A t \in Target : t # tgt => waits'[t] = waits[t]
    BY <1>t, <2>1 DEF TypeOK
  <2>3. ASSUME NEW p \in Step, ~Made(p) PROVE tgt \notin Outputs(p)
    <3>1. sl \notin Feeds(graph, p)
      <4>1. sl \in Feeds(graph, p) => p = s
        BY <1>t, <1>sl, OneFeeder
      <4> QED BY <1>u, <2>3, <4>1 DEF Made
    <3> QED BY <1>sl, <3>1 DEF Feeds, Outputs
  <2>4. \A p \in Step : Outputs(p) \subseteq Target /\ Outputs(p)' = Outputs(p)
    BY <1>t, <1>u, OutputsType DEF Outputs
  <2>5. \A p \in Step : Made(p)' <=> Made(p)
    BY <1>u DEF Made
  <2> QED BY <1>u, <2>2, <2>3, <2>4, <2>5 DEF IInv, WaitsInv
<1>3. LockInv'
  BY <1>u, BuilderAssumption DEF IInv, LockInv
<1>4. SemaInv'
  BY <1>u DEF IInv, SemaInv, Active
<1>5. ClosedInv'
  BY <1>u, BuilderAssumption DEF IInv, ClosedInv
<1>f. IsFiniteSet(Waiting) /\ w \in Waiting /\ npendings = Cardinality(Waiting)
  BY <1>b, <1>sl, GraphAssumption, FS_Subset DEF Waiting, IInv, PendingInv
<1>q. q \in Seq(Step) /\ spill \in Seq(Step)
  BY <1>t DEF TypeOK
<1>x. CASE nwaits'[w] = 0
  <2>1. /\ npendings' = npendings - 1
        /\ waits' = [waits EXCEPT ![tgt] = @ \ {sl}]
        /\ \/ q' = Append(q, w) /\ spill' = spill
           \/ spill' = Append(spill, w) /\ q' = q /\ ~(Len(q) < QCap)
    BY <1>x DEF DoneWake, NoWaitsLeft
  <2>2. Waiting' = Waiting \ {w}
    BY <1>x, <1>c DEF Waiting
  <2>3. PendingInv' /\ npendings' \in Nat
    <3>1. Cardinality(Waiting') = Cardinality(Waiting) - 1
      BY <1>f, <2>2, FS_RemoveElement
    <3>2. IsFiniteSet(Waiting')
      BY <1>f, <2>2, FS_RemoveElement
    <3> QED BY <1>f, <2>1, <3>1, <3>2, FS_CardinalityType DEF PendingInv
  <2>4. ~In(w, q) /\ ~In(w, ready) /\ ~In(w, move) /\ ~In(w, spill)
    BY <1>d DEF Moving
  <2>5. /\ q' \in Seq(Step) /\ spill' \in Seq(Step)
        /\ Distinct(q') /\ Distinct(spill') /\ q' # <<>>
        /\ \/ /\ \A r \in Step : In(r, q') <=> In(r, q) \/ r = w
              /\ spill' = spill
           \/ /\ \A r \in Step : In(r, spill') <=> In(r, spill) \/ r = w
              /\ q' = q
    <3>1. Distinct(q) /\ Distinct(spill)
      BY <1>t DEF PlaceInv
    <3>2. CASE q' = Append(q, w) /\ spill' = spill
      BY <1>q, <1>sl, <2>4, <3>1, <3>2, AppendSeq
    <3>3. CASE spill' = Append(spill, w) /\ q' = q /\ ~(Len(q) < QCap)
      <4>1. q # <<>>
        BY <3>3, BuilderAssumption
      <4> QED BY <1>q, <1>sl, <2>4, <3>1, <3>3, <4>1, AppendSeq
    <3> QED BY <2>1, <3>2, <3>3
  <2>6. TypeOK'
    <3>1. waits' \in [Target -> SUBSET Slots(graph)]
      BY <1>t, <2>1 DEF TypeOK
    <3> QED BY <1>t, <1>u, <1>c, <2>3, <2>5, <3>1 DEF TypeOK
  <2>7. \A r \in Step : Moving(r)' <=> Moving(r) \/ r = w
    BY <1>u, <2>5 DEF Moving
  <2>8. PlaceInv'
    <3>1. \A r \in Step : ~(In(r, q') /\ In(r, ready')) /\ ~(In(r, q') /\ In(r, move'))
            /\ ~(In(r, ready') /\ In(r, move')) /\ ~(In(r, q') /\ In(r, spill'))
            /\ ~(In(r, ready') /\ In(r, spill')) /\ ~(In(r, move') /\ In(r, spill'))
      BY <1>t, <1>u, <2>4, <2>5 DEF PlaceInv
    <3>2. ASSUME NEW r \in Step
          PROVE  /\ Moving(r)' => st'[r] = "idle" /\ r # cur' /\ nwaits'[r] = 0
                 /\ nwaits'[r] = 0 => Moving(r)' \/ r = cur' \/ st'[r] # "idle"
                 /\ st'[r] # "idle" => nwaits'[r] = 0
      BY <1>t, <1>u, <1>c, <1>d, <1>x, <2>7 DEF PlaceInv
    <3>3. loop' = "dispatch" => cur' \in Step /\ st'[cur'] = "idle" /\ nwaits'[cur'] = 0
      BY <1>t, <1>u, <1>c, <1>d DEF PlaceInv
    <3> QED BY <1>t, <1>u, <2>5, <3>1, <3>2, <3>3 DEF PlaceInv
  <2>9. SpillInv'
    BY <2>5 DEF SpillInv
  <2> QED BY <1>1, <1>2, <1>3, <1>4, <1>5, <2>3, <2>6, <2>8, <2>9 DEF IInv
<1>y. CASE nwaits'[w] # 0
  <2>1. UNCHANGED <<npendings, waits, q, spill>>
    BY <1>y DEF DoneWake, NoWaitsLeft
  <2>2. Waiting' = Waiting
    BY <1>y, <1>b, <1>c DEF Waiting
  <2>3. PendingInv' /\ SpillInv'
    BY <1>u, <2>1, <2>2 DEF IInv, PendingInv, SpillInv
  <2>4. TypeOK'
    BY <1>t, <1>u, <1>c, <2>1 DEF TypeOK
  <2>5. PlaceInv'
    <3>1. \A r \in Step : Moving(r)' <=> Moving(r)
      BY <1>u, <2>1 DEF Moving
    <3>2. ASSUME NEW r \in Step
          PROVE  /\ Moving(r)' => st'[r] = "idle" /\ r # cur' /\ nwaits'[r] = 0
                 /\ nwaits'[r] = 0 => Moving(r)' \/ r = cur' \/ st'[r] # "idle"
                 /\ st'[r] # "idle" => nwaits'[r] = 0
      BY <1>t, <1>u, <1>c, <1>d, <1>y, <3>1 DEF PlaceInv
    <3>3. loop' = "dispatch" => cur' \in Step /\ st'[cur'] = "idle" /\ nwaits'[cur'] = 0
      BY <1>t, <1>u, <1>c, <1>d DEF PlaceInv
    <3> QED BY <1>t, <1>u, <2>1, <3>2, <3>3 DEF PlaceInv
  <2> QED BY <1>1, <1>2, <1>3, <1>4, <1>5, <2>3, <2>4, <2>5 DEF IInv
<1> QED BY <1>x, <1>y

\* Every step of the loop, the goroutines and the environment preserves IInv.
LEMMA NextIInv == IInv /\ [Next]_vars => IInv'
<1> SUFFICES ASSUME IInv, [Next]_vars PROVE IInv'
  OBVIOUS
<1>1. CASE LoopNext
  BY <1>1, LoopQuietInv, ReceiveStepInv, DispatchInv DEF LoopNext
<1>2. ASSUME NEW s \in Step, StepNext(s) PROVE IInv'
  BY <1>2, StepDoneInv, DoneMoveInv, DoneEndInv, DoneWakeInv, StepQuietInv
     DEF StepNext
<1>3. CASE Interrupt
  BY <1>3, LoopQuietInv
<1>4. CASE UNCHANGED vars
  <2>1. \A s \in Step : Made(s)' <=> Made(s)
    BY <1>4 DEF vars, Made
  <2>2. WaitsInv' /\ CountInv' /\ PendingInv'
    BY <1>4, <2>1, CountFrame DEF vars, planVars, doneVars
  <2> QED BY <1>4, <2>2 DEF vars, planVars, doneVars, loopVars, IInv, TypeOK,
             LockInv, PlaceInv, Moving, ClosedInv, SpillInv, SemaInv, Active
<1>5. CASE Terminated
  BY <1>4, <1>5 DEF Terminated
<1> QED BY <1>1, <1>2, <1>3, <1>4, <1>5 DEF Next

\* The inductive invariant holds in every reachable state of Build.
THEOREM Invariance == Spec => []IInv
BY InitIInv, NextIInv, PTL DEF Spec

-----------------------------------------------------------------------------
(* The properties *)

\* Every variable of Build keeps its type: the counters never go negative and
\* stepSema is never over-released (Builder.Build, plan.done).
THEOREM TypeCorrect == Spec => []TypeOK
<1>1. IInv => TypeOK
  BY DEF IInv
<1> QED BY <1>1, Invariance, PTL

\* A step that has left the plan has no outstanding slot, so its producers are
\* made (plan.done, Step.ReadyToRun).
LEMMA NoSlotLeft == IInv => StartsAfterProducers
<1> SUFFICES ASSUME IInv, NEW s \in Step, st[s] # "idle" \/ s = cur,
                    NEW p \in Producers(graph, s)
             PROVE  Made(p)
  BY DEF StartsAfterProducers
<1>1. graph \in Graphs
  BY DEF IInv, TypeOK
<1>2. nwaits[s] = 0
  BY BuilderAssumption DEF IInv, PlaceInv
<1>3. OutOf(s) = {}
  BY <1>1, <1>2, OutOfFinite DEF IInv, CountInv
<1>4. PICK sl \in Feeds(graph, p) : sl[1] = s
  BY DEF Producers
<1>5. sl \in SlotsOf(graph, s) /\ p \in Step
  BY <1>4 DEF SlotsOf, Feeds, Producers
<1> QED BY <1>3, <1>5 DEF OutOf, Outstanding

\* A step runs only after plan.done of every step that generates one of its
\* inputs (Step.ReadyToRun, plan.done).
THEOREM StartsAfterProducersThm == Spec => []StartsAfterProducers
BY NoSlotLeft, Invariance, PTL

\* A step is dispatched at most once (plan.done, plan.pushReady, the loop).
THEOREM DispatchedOnceThm == Spec => []DispatchedOnce
<1>1. IInv => DispatchedOnce
  <2> SUFFICES ASSUME IInv PROVE DispatchedOnce
    OBVIOUS
  <2>1. /\ q \in Seq(Step) /\ ready \in Seq(Step) /\ move \in Seq(Step)
        /\ spill \in Seq(Step)
    BY DEF IInv, TypeOK
  <2>2. PlaceInv
    BY DEF IInv
  <2> DEFINE a == q \o ready
             b == a \o move
             c == b \o spill
  <2>3. /\ a \in Seq(Step) /\ Distinct(a)
        /\ \A s \in Step : In(s, a) <=> In(s, q) \/ In(s, ready)
    BY <2>1, <2>2, ConcatSeq DEF PlaceInv
  <2> HIDE DEF a
  <2>4. /\ b \in Seq(Step) /\ Distinct(b)
        /\ \A s \in Step : In(s, b) <=> In(s, a) \/ In(s, move)
    BY <2>1, <2>2, <2>3, ConcatSeq DEF PlaceInv
  <2> HIDE DEF b
  <2>5. /\ c \in Seq(Step) /\ Distinct(c)
        /\ \A s \in Step : In(s, c) <=> In(s, b) \/ In(s, spill)
    BY <2>1, <2>2, <2>3, <2>4, ConcatSeq DEF PlaceInv
  <2>6. InTransit = c
    BY DEF InTransit, a, b
  <2> HIDE DEF c
  <2>7. \A i \in DOMAIN c : c[i] \in Step /\ In(c[i], c)
    BY <2>5 DEF In
  <2>8. \A s \in Step : In(s, c) => st[s] = "idle" /\ s # cur
    BY <2>2, <2>3, <2>4, <2>5 DEF PlaceInv, Moving
  <2> QED BY <2>5, <2>6, <2>7, <2>8 DEF DispatchedOnce, Distinct
<1> QED BY <1>1, Invariance, PTL

\* plan.q is closed only when nothing can be sent any more and no step is left
\* behind (plan.done).
THEOREM ClosedIsFinalThm == Spec => []ClosedIsFinal
<1>1. IInv => ClosedIsFinal
  <2> SUFFICES ASSUME IInv, closed
               PROVE  /\ ready = <<>> /\ move = <<>> /\ spill = <<>> /\ mu = NoStep
                      /\ \A s \in Step : st[s] # "idle" \/ s = cur \/ In(s, q)
    BY DEF ClosedIsFinal, In
  <2>1. ready = <<>> /\ npendings = 0 /\ mu = NoStep
    BY DEF IInv, ClosedInv
  <2>2. move = <<>> /\ spill = <<>>
    BY <2>1 DEF IInv, LockInv
  <2>3. Waiting = {}
    <3>1. IsFiniteSet(Waiting)
      BY GraphAssumption, FS_Subset DEF Waiting
    <3> QED BY <2>1, <3>1, FS_EmptySet DEF IInv, PendingInv
  <2>4. \A s \in Step : nwaits[s] = 0
    BY <2>3 DEF Waiting
  <2>5. \A s \in Step : Moving(s) => In(s, q)
    BY <2>1, <2>2, EmptySeq DEF Moving
  <2> QED BY <2>1, <2>2, <2>4, <2>5 DEF IInv, PlaceInv
<1> QED BY <1>1, Invariance, PTL

\* The loop never waits on an empty queue while steps are spilled
\* (plan.pushReady).
THEOREM SpillNotStrandedThm == Spec => []SpillNotStranded
<1>1. IInv => SpillNotStranded
  BY DEF IInv, SpillInv, SpillNotStranded
<1> QED BY <1>1, Invariance, PTL

\* At most StepLimit steps run at a time (stepSema in Builder.Build).
THEOREM ConcurrencyBoundedThm == Spec => []ConcurrencyBounded
<1>1. IInv => ConcurrencyBounded
  <2> SUFFICES ASSUME IInv PROVE Cardinality(Active) <= StepLimit
    BY DEF ConcurrencyBounded, Active
  <2>1. sema \in 0..StepLimit /\ SemaInv
    BY DEF IInv, TypeOK
  <2> QED BY <2>1, ActiveFinite, BuilderAssumption DEF SemaInv
<1> QED BY <1>1, Invariance, PTL

-----------------------------------------------------------------------------
(* The result of Build *)

\* A loop that leaves with a closed, empty queue leaves no step idle.
LEMMA NothingIdle ==
    ASSUME IInv, closed, q = <<>>, cur = NoStep
    PROVE  \A s \in Step : st[s] # "idle"
<1>1. ready = <<>> /\ npendings = 0 /\ mu = NoStep
  BY DEF IInv, ClosedInv
<1>2. move = <<>> /\ spill = <<>>
  BY <1>1 DEF IInv, LockInv
<1>3. IsFiniteSet(Waiting)
  BY GraphAssumption, FS_Subset DEF Waiting
<1>4. \A s \in Step : nwaits[s] = 0
  BY <1>1, <1>3, FS_EmptySet DEF IInv, PendingInv, Waiting
<1>5. \A s \in Step : ~Moving(s)
  BY <1>1, <1>2, EmptySeq DEF Moving
<1> QED BY <1>4, <1>5, BuilderAssumption DEF IInv, PlaceInv

\* Receiving takes an error from the channel; sending adds one.
LEMMA ErrorChannel ==
    ASSUME NEW seq \in Seq(Err)
    PROVE  /\ seq # <<>> => /\ Head(seq) \in Err /\ Tail(seq) \in Seq(Err)
                            /\ InError(seq) => Head(seq) = "fail" \/ InError(Tail(seq))
           /\ \A e \in Err : /\ InError(seq) => InError(Append(seq, e))
                             /\ e = "fail" => InError(Append(seq, e))
           /\ ~InError(<<>>)
<1>1. ASSUME seq # <<>>, InError(seq), Head(seq) # "fail" PROVE InError(Tail(seq))
  <2>1. PICK i \in 1..Len(seq) : seq[i] = "fail"
    BY <1>1 DEF InError
  <2>2. i # 1 /\ Len(seq) \in Nat /\ i \in Nat
    BY <1>1, <2>1
  <2>3. i - 1 \in DOMAIN Tail(seq) /\ Tail(seq)[i - 1] = seq[i]
    BY <1>1, <2>1, <2>2
  <2> QED BY <2>1, <2>3 DEF InError
<1>2. ASSUME NEW e \in Err
      PROVE  /\ InError(seq) => InError(Append(seq, e))
             /\ e = "fail" => InError(Append(seq, e))
  <2>1. /\ DOMAIN seq = 1..Len(seq) /\ Len(seq) \in Nat
        /\ DOMAIN Append(seq, e) = 1..Len(seq) + 1
        /\ Append(seq, e)[Len(seq) + 1] = e
        /\ \A i \in DOMAIN seq : Append(seq, e)[i] = seq[i]
    OBVIOUS
  <2> QED BY <2>1 DEF InError
<1>3. ~InError(<<>>)
  BY DEF InError
<1>4. seq # <<>> => Head(seq) \in Err /\ Tail(seq) \in Seq(Err)
  OBVIOUS
<1> QED BY <1>1, <1>2, <1>3, <1>4

\* The initial state.
LEMMA InitErrInv == Init => ErrInv
BY DEF Init, ErrInv, AllExited, NilMeansAllMade

\* The steps of the loop carry errors to the result.
LEMMA LoopErrInv ==
    ASSUME IInv, ErrInv, LoopNext
    PROVE  ErrInv'
<1>e. /\ errch \in Seq(Err) /\ nfail \in Nat /\ st \in [Step -> StepStates]
      /\ serr \in [Step -> Err] /\ q \in Seq(Step)
  BY DEF IInv, TypeOK
<1>1. CASE AcquireStepSema \/ ReceiveStep \/ ReceiveClosed
  BY <1>1 DEF AcquireStepSema, ReceiveStep, ReceiveClosed, planVars, doneVars,
     ErrInv, AllExited, NilMeansAllMade, Made
<1>2. CASE AcquireCanceled \/ ReceiveCtxDone \/ DumpAndReturn
  BY <1>2 DEF AcquireCanceled, ReceiveCtxDone, DumpAndReturn, ErrInv, planVars,
     AllExited, NilMeansAllMade, Made
<1>3. CASE ReceiveError
  <2>1. /\ loop = "select" /\ errch # <<>> /\ errch' = Tail(errch)
        /\ UNCHANGED <<interrupted, st, serr, q, closed, result>>
        /\ nfail' = IF Head(errch) = "fail" THEN nfail + 1 ELSE nfail
        /\ \/ nfail' # 0 /\ canceled' = TRUE /\ loop' = "drain"
           \/ loop' = "acquire" /\ canceled' = canceled
    BY <1>e, <1>3 DEF ReceiveError, CountFailure, ShouldFail, FailuresAllowed,
       planVars, loopVars
  <2>2. nfail # 0 => nfail' # 0
    BY <1>e, <2>1
  <2>3. InError(errch) => nfail' # 0 \/ InError(errch')
    BY <1>e, <2>1, ErrorChannel
  <2> QED BY <2>1, <2>2, <2>3 DEF ErrInv, AllExited, NilMeansAllMade, Made
<1>4. CASE Dispatch
  <2>1. /\ loop = "dispatch" /\ cur \in Step /\ st[cur] = "idle"
        /\ st' = [st EXCEPT ![cur] = "running"] /\ loop' = "acquire"
        /\ UNCHANGED <<interrupted, serr, result, canceled, errch, nfail>>
    BY <1>4 DEF Dispatch, IInv, PlaceInv
  <2>2. (canceled => interrupted) /\ result # "ok"
    BY <2>1 DEF ErrInv
  <2>3. \A s \in Step : st'[s] = IF s = cur THEN "running" ELSE st[s]
    BY <1>e, <2>1
  <2> QED BY <2>1, <2>2, <2>3 DEF ErrInv, NilMeansAllMade
<1>5. CASE CollectError
  <2>1. /\ loop = "drain" /\ errch # <<>> /\ errch' = Tail(errch)
        /\ UNCHANGED <<interrupted, st, serr, q, closed, loop, result, canceled>>
        /\ nfail' = IF Head(errch) = "fail" THEN nfail + 1 ELSE nfail
    BY <1>5 DEF CollectError, CountFailure, planVars
  <2>2. nfail # 0 => nfail' # 0
    BY <1>e, <2>1
  <2>3. InError(errch) => nfail' # 0 \/ InError(errch')
    BY <1>e, <2>1, ErrorChannel
  <2> QED BY <2>1, <2>2, <2>3 DEF ErrInv, AllExited, NilMeansAllMade, Made
<1>6. CASE BuildReturn
  <2>1. /\ loop = "drain" /\ AllExited /\ errch = <<>> /\ loop' = "returned"
        /\ result' = BuildResult /\ UNCHANGED <<interrupted, st, serr, errch, nfail>>
        /\ canceled' = TRUE
    BY <1>6 DEF BuildReturn
  <2>2. ASSUME result' = "ok", NEW s \in Step
        PROVE  Made(s) \/ (interrupted /\ st[s] = "exited")
    <3>1. nfail = 0
      BY <2>1, <2>2 DEF BuildResult
    <3>2. closed /\ q = <<>> /\ cur = NoStep
      BY <2>1, <3>1 DEF ErrInv, IInv, PlaceInv
    <3>3. st[s] = "exited"
      BY <2>1, <3>2, NothingIdle DEF AllExited
    <3>4. serr[s] = "nil" \/ interrupted
      BY <1>e, <2>1, <3>1, <3>3, ErrorChannel DEF ErrInv, Err
    <3> QED BY <3>3, <3>4 DEF Made
  <2>3. NilMeansAllMade'
    BY <2>1, <2>2 DEF NilMeansAllMade, Made
  <2> QED BY <2>1, <2>3 DEF ErrInv, AllExited
<1> QED BY <1>1, <1>2, <1>3, <1>4, <1>5, <1>6 DEF LoopNext

\* The steps of the goroutines keep their errors, or drop them when interrupted.
LEMMA StepErrInv ==
    ASSUME IInv, ErrInv, NEW s \in Step, StepNext(s)
    PROVE  ErrInv'
<1>e. /\ errch \in Seq(Err) /\ nfail \in Nat /\ st \in [Step -> StepStates]
      /\ serr \in [Step -> Err] /\ q \in Seq(Step)
  BY DEF IInv, TypeOK
<1>a. st[s] \notin {"idle", "exited"}
  BY DEF StepNext, StepDone, DoneMove, DoneEnd, DoneWake, StepFail, StepCanceled,
     ReleaseStepSema, SendError, DropError
<1>b. (loop = "returned" => interrupted) /\ result # "ok"
  BY <1>a DEF ErrInv, AllExited
<1>c. UNCHANGED <<interrupted, loop, result, canceled, nfail>>
  BY DEF StepNext, StepDone, DoneMove, DoneEnd, DoneWake, StepFail, StepCanceled,
     ReleaseStepSema, SendError, DropError, loopVars
<1>d. \* nothing is sent on a closed plan.q
      closed /\ q = <<>> => closed' /\ q' = <<>>
  <2>1. closed => mu # s
    BY BuilderAssumption DEF IInv, ClosedInv
  <2> QED BY <2>1 DEF StepNext, StepDone, DoneMove, DoneEnd, DoneWake, StepFail,
      StepCanceled, ReleaseStepSema, SendError, DropError, planVars
<1>f. /\ \A r \in Step : st'[r] \in {"idle", "running", "done"} => serr'[r] = "nil"
      /\ \A r \in Step : st'[r] = "exited" /\ serr'[r] = "fail" =>
            nfail # 0 \/ InError(errch') \/ interrupted
      /\ \A r \in Step : serr'[r] = "canceled" => nfail # 0 \/ interrupted
  <2>1. CASE DoneMove(s) \/ \E sl \in todo : DoneWake(s, sl)
    BY <2>1 DEF DoneMove, DoneWake, ErrInv
  <2>2. CASE StepDone(s) \/ DoneEnd(s)
    <3>1. \/ /\ st' = [st EXCEPT ![s] = "release"]
             /\ serr' = [serr EXCEPT ![s] = "nil"]
          \/ st' = [st EXCEPT ![s] = "done"] /\ serr' = serr /\ st[s] = "running"
      BY <2>2 DEF StepDone, DoneEnd, FinishDone
    <3>2. errch' = errch
      BY <2>2 DEF StepDone, DoneEnd
    <3> QED BY <1>e, <3>1, <3>2 DEF ErrInv
  <2>3. CASE StepFail(s) \/ StepCanceled(s)
    <3>1. /\ st' = [st EXCEPT ![s] = "release"] /\ errch' = errch
          /\ \/ serr' = [serr EXCEPT ![s] = "fail"]
             \/ /\ serr' = [serr EXCEPT ![s] = "canceled"]
                /\ nfail # 0 \/ interrupted
      BY <1>b, <2>3 DEF StepFail, StepCanceled, ErrInv
    <3> QED BY <1>e, <3>1 DEF ErrInv
  <2>4. CASE ReleaseStepSema(s)
    <3>1. st' = [st EXCEPT ![s] = "send"] /\ serr' = serr /\ errch' = errch
      BY <2>4 DEF ReleaseStepSema
    <3> QED BY <1>e, <3>1 DEF ErrInv
  <2>5. CASE SendError(s)
    <3>1. /\ st' = [st EXCEPT ![s] = "exited"] /\ serr' = serr
          /\ errch' = Append(errch, serr[s])
      BY <2>5 DEF SendError
    <3>2. /\ InError(errch) => InError(errch')
          /\ serr[s] = "fail" => InError(errch')
      BY <1>e, <3>1, ErrorChannel
    <3> QED BY <1>e, <3>1, <3>2 DEF ErrInv
  <2>6. CASE DropError(s)
    <3>1. /\ st' = [st EXCEPT ![s] = "exited"] /\ serr' = serr /\ errch' = errch
          /\ nfail # 0 \/ interrupted
      BY <1>b, <2>6 DEF DropError, ErrInv
    <3> QED BY <1>e, <3>1 DEF ErrInv
  <2> QED BY <2>1, <2>2, <2>3, <2>4, <2>5, <2>6 DEF StepNext
<1> QED BY <1>b, <1>c, <1>d, <1>f DEF ErrInv, NilMeansAllMade

\* Every step of Build preserves ErrInv.
LEMMA NextErrInv ==
    ASSUME IInv, ErrInv, [Next]_vars
    PROVE  ErrInv'
<1>1. CASE UNCHANGED vars
  BY <1>1 DEF vars, planVars, loopVars, ErrInv, AllExited, NilMeansAllMade, Made
<1>2. CASE Terminated
  BY <1>1, <1>2 DEF Terminated
<1>3. CASE Interrupt
  <2>1. /\ ~canceled /\ interrupted' /\ canceled'
        /\ UNCHANGED <<st, serr, q, closed, loop, result, errch, nfail>>
    BY <1>3 DEF Interrupt, planVars, loopVars
  <2>2. result # "ok"
    BY <2>1 DEF ErrInv
  <2> QED BY <2>1, <2>2 DEF ErrInv, AllExited, NilMeansAllMade
<1> QED BY <1>1, <1>2, <1>3, LoopErrInv, StepErrInv DEF Next

\* Build returns nil only when every step was made, or the caller was interrupted
\* and every step was started and has ended: without an interruption no failure
\* is lost between a goroutine, errch and the collector (Builder.Build,
\* failures.shouldFail).
THEOREM NilMeansAllMadeThm == Spec => []NilMeansAllMade
<1>1. IInv /\ ErrInv /\ [Next]_vars => ErrInv'
  BY NextErrInv
<1>2. ErrInv => NilMeansAllMade
  BY DEF ErrInv
<1> QED BY <1>1, <1>2, InitErrInv, Invariance, PTL DEF Spec

-----------------------------------------------------------------------------
(***************************************************************************)
(* Builder implements AbstractBuild, with interruption, for every build   *)
(* graph, capacity and limit: the loop, the goroutines and plan.done start *)
(* a step once and after its producers, and Build's result tells the truth *)
(* about the steps.                                                        *)
(***************************************************************************)
InCancel(seq) == \E i \in DOMAIN seq : seq[i] = "canceled"

\* A counted or traveling error comes from a step that ended without its
\* outputs, and a cancellation is only seen after a failure or an interruption.
CauseInv ==
    /\ nfail # 0 \/ InError(errch) => EndedSteps # {}
    /\ sawCancel \/ InCancel(errch) => nfail # 0 \/ interrupted
    /\ loop # "returned" => result = "none"

RInv == IInv /\ ErrInv /\ CauseInv

-----------------------------------------------------------------------------
\* Errors received were in the channel; errors in the channel were sent.
LEMMA ErrorOrigin ==
    ASSUME NEW seq \in Seq(Err)
    PROVE  /\ seq # <<>> => /\ Head(seq) = "fail" \/ InError(Tail(seq)) => InError(seq)
                            /\ Head(seq) = "canceled" \/ InCancel(Tail(seq)) => InCancel(seq)
           /\ \A e \in Err : /\ InError(Append(seq, e)) => e = "fail" \/ InError(seq)
                             /\ InCancel(Append(seq, e)) => e = "canceled" \/ InCancel(seq)
<1>1. ASSUME seq # <<>>
      PROVE  /\ 1 \in DOMAIN seq /\ Head(seq) = seq[1]
             /\ \A i \in DOMAIN Tail(seq) : i + 1 \in DOMAIN seq /\ Tail(seq)[i] = seq[i + 1]
  BY <1>1
<1>2. ASSUME NEW e \in Err
      PROVE  \A i \in DOMAIN Append(seq, e) :
                Append(seq, e)[i] = e \/ (i \in DOMAIN seq /\ Append(seq, e)[i] = seq[i])
  OBVIOUS
<1> QED BY <1>1, <1>2 DEF InError, InCancel

\* The initial state.
LEMMA InitCause == Init => CauseInv
BY DEF Init, CauseInv, InError, InCancel

\* The loop counts only errors that steps have sent.
LEMMA LoopCause ==
    ASSUME RInv, LoopNext
    PROVE  CauseInv'
<1>e. /\ errch \in Seq(Err) /\ nfail \in Nat /\ st \in [Step -> StepStates]
      /\ serr \in [Step -> Err]
  BY DEF RInv, IInv, TypeOK
<1>c. CauseInv /\ ErrInv
  BY DEF RInv
<1>1. CASE AcquireStepSema \/ ReceiveStep \/ ReceiveClosed
  BY <1>c, <1>1 DEF AcquireStepSema, ReceiveStep, ReceiveClosed, CauseInv, EndedSteps
<1>2. CASE AcquireCanceled \/ ReceiveCtxDone \/ DumpAndReturn
  BY <1>c, <1>2 DEF AcquireCanceled, ReceiveCtxDone, DumpAndReturn, CauseInv, EndedSteps
<1>3. CASE ReceiveError \/ CollectError
  <2>1. /\ errch # <<>> /\ errch' = Tail(errch)
        /\ UNCHANGED <<interrupted, st, serr, result>>
        /\ nfail' = IF Head(errch) = "fail" THEN nfail + 1 ELSE nfail
        /\ loop # "returned"
    BY <1>3 DEF ReceiveError, CollectError, CountFailure
  <2>s. sawCancel' => sawCancel \/ Head(errch) = "canceled"
    BY <1>3, Zenon DEF ReceiveError, CollectError
  <2>2. nfail # 0 => nfail' # 0
    BY <1>e, <2>1
  <2>3. nfail' # 0 => nfail # 0 \/ Head(errch) = "fail"
    BY <2>1
  <2>4. EndedSteps' = EndedSteps
    BY <2>1 DEF EndedSteps
  <2> QED BY <1>e, <1>c, <2>1, <2>2, <2>3, <2>4, <2>s, ErrorOrigin DEF CauseInv
<1>4. CASE Dispatch
  <2>1. /\ cur \in Step /\ st[cur] = "idle" /\ loop # "returned"
        /\ st' = [st EXCEPT ![cur] = "running"]
        /\ UNCHANGED <<interrupted, serr, errch, nfail, sawCancel, result>>
    BY <1>4 DEF Dispatch, RInv, IInv, PlaceInv
  <2>2. EndedSteps' = EndedSteps
    BY <1>e, <2>1 DEF EndedSteps
  <2> QED BY <1>c, <2>1, <2>2 DEF CauseInv
<1>5. CASE BuildReturn
  BY <1>c, <1>5 DEF BuildReturn, CauseInv, EndedSteps
<1> QED BY <1>1, <1>2, <1>3, <1>4, <1>5 DEF LoopNext

\* What a goroutine's step does to the sets the abstract specification sees.
LEMMA StepMoves ==
    ASSUME RInv, NEW s \in Step, StepNext(s)
    PROVE  /\ Started' = Started /\ s \in Started
           /\ \/ MadeSteps' = MadeSteps /\ EndedSteps' = EndedSteps
              \/ /\ s \notin MadeSteps \cup EndedSteps
                 /\ MadeSteps' = MadeSteps \cup {s} /\ EndedSteps' = EndedSteps
              \/ /\ s \notin MadeSteps \cup EndedSteps
                 /\ MadeSteps' = MadeSteps /\ EndedSteps' = EndedSteps \cup {s}
           /\ UNCHANGED <<graph, interrupted, loop, result, nfail, sawCancel>>
<1>e. st \in [Step -> StepStates] /\ serr \in [Step -> Err]
  BY DEF RInv, IInv, TypeOK
<1>r. \A r \in Step : st[r] \in {"idle", "running", "done"} => serr[r] = "nil"
  BY DEF RInv, ErrInv
<1>a. st[s] \notin {"idle", "exited"}
  BY DEF StepNext, StepDone, DoneMove, DoneEnd, DoneWake, StepFail, StepCanceled,
     ReleaseStepSema, SendError, DropError
<1>b. s \in Started
  BY <1>a DEF Started
<1>c. UNCHANGED <<graph, interrupted, loop, result, nfail, sawCancel>>
  BY DEF StepNext, StepDone, DoneMove, DoneEnd, DoneWake, StepFail, StepCanceled,
     ReleaseStepSema, SendError, DropError, loopVars
<1> DEFINE Quiet == Started' = Started /\ MadeSteps' = MadeSteps /\ EndedSteps' = EndedSteps
<1>1. CASE DoneMove(s) \/ \E sl \in todo : DoneWake(s, sl)
  <2>1. UNCHANGED <<st, serr>>
    BY <1>1 DEF DoneMove, DoneWake
  <2>2. Quiet
    BY <2>1 DEF Started, MadeSteps, EndedSteps, Made
  <2> QED BY <1>b, <1>c, <2>2
<1>2. CASE DoneEnd(s)
  <2>1. /\ st[s] = "done" /\ st' = [st EXCEPT ![s] = "release"]
        /\ serr' = [serr EXCEPT ![s] = "nil"]
    BY <1>2 DEF DoneEnd, FinishDone
  <2>2. Quiet
    BY <1>e, <1>r, <2>1 DEF Started, MadeSteps, EndedSteps, Made
  <2> QED BY <1>b, <1>c, <2>2
<1>3. CASE ReleaseStepSema(s) \/ SendError(s) \/ DropError(s)
  <2>1. /\ st[s] \in {"release", "send"} /\ serr' = serr
        /\ \/ st' = [st EXCEPT ![s] = "send"]
           \/ st' = [st EXCEPT ![s] = "exited"]
    BY <1>3 DEF ReleaseStepSema, SendError, DropError
  <2>2. Quiet
    BY <1>e, <2>1 DEF Started, MadeSteps, EndedSteps, Made
  <2> QED BY <1>b, <1>c, <2>2
<1>4. CASE StepDone(s)
  <2>1. /\ st[s] = "running"
        /\ \/ /\ st' = [st EXCEPT ![s] = "release"]
              /\ serr' = [serr EXCEPT ![s] = "nil"]
           \/ st' = [st EXCEPT ![s] = "done"] /\ serr' = serr
    BY <1>4 DEF StepDone, FinishDone
  <2>2. s \notin MadeSteps \cup EndedSteps
    BY <2>1 DEF MadeSteps, EndedSteps, Made
  <2>3. Started' = Started /\ MadeSteps' = MadeSteps \cup {s} /\ EndedSteps' = EndedSteps
    BY <1>e, <1>r, <2>1 DEF Started, MadeSteps, EndedSteps, Made
  <2> QED BY <1>b, <1>c, <2>2, <2>3
<1>5. CASE StepFail(s) \/ StepCanceled(s)
  <2>1. /\ st[s] = "running" /\ st' = [st EXCEPT ![s] = "release"]
        /\ \/ serr' = [serr EXCEPT ![s] = "fail"]
           \/ serr' = [serr EXCEPT ![s] = "canceled"]
    BY <1>5 DEF StepFail, StepCanceled
  <2>2. s \notin MadeSteps \cup EndedSteps
    BY <2>1 DEF MadeSteps, EndedSteps, Made
  <2>3. Started' = Started /\ MadeSteps' = MadeSteps /\ EndedSteps' = EndedSteps \cup {s}
    BY <1>e, <2>1 DEF Started, MadeSteps, EndedSteps, Made
  <2> QED BY <1>b, <1>c, <2>2, <2>3
<1> QED BY <1>1, <1>2, <1>3, <1>4, <1>5 DEF StepNext

\* A goroutine sends the error its step ended with.
LEMMA StepCause ==
    ASSUME RInv, NEW s \in Step, StepNext(s)
    PROVE  CauseInv'
<1>e. /\ errch \in Seq(Err) /\ st \in [Step -> StepStates] /\ serr \in [Step -> Err]
  BY DEF RInv, IInv, TypeOK
<1>c. CauseInv /\ ErrInv
  BY DEF RInv
<1>m. /\ EndedSteps # {} => EndedSteps' # {}
      /\ UNCHANGED <<interrupted, loop, result, nfail, sawCancel>>
  BY StepMoves
<1>1. CASE SendError(s)
  <2>1. st[s] = "send" /\ errch' = Append(errch, serr[s])
    BY <1>1 DEF SendError
  <2>2. /\ InError(errch') => serr[s] = "fail" \/ InError(errch)
        /\ InCancel(errch') => serr[s] = "canceled" \/ InCancel(errch)
    BY <1>e, <2>1, ErrorOrigin
  <2>3. serr[s] = "fail" => EndedSteps # {}
    BY <2>1 DEF EndedSteps
  <2>4. serr[s] = "canceled" => nfail # 0 \/ interrupted
    BY <1>c DEF ErrInv
  <2> QED BY <1>c, <1>m, <2>2, <2>3, <2>4 DEF CauseInv
<1>2. CASE ~SendError(s)
  <2>1. errch' = errch
    BY <1>2 DEF StepNext, StepDone, DoneMove, DoneEnd, DoneWake, StepFail,
       StepCanceled, ReleaseStepSema, DropError
  <2> QED BY <1>c, <1>m, <2>1 DEF CauseInv
<1> QED BY <1>1, <1>2

-----------------------------------------------------------------------------
\* The initial states of Build are initial states of the abstract build.
LEMMA InitMaps == Init => Abs!Init
BY DEF Init, Abs!Init, Started, MadeSteps, EndedSteps, Made

\* Every step of the loop maps to a step or a stutter of the abstract build.
LEMMA LoopMaps ==
    ASSUME RInv, LoopNext
    PROVE  [Abs!Next]_(Abs!vars)
<1>e. st \in [Step -> StepStates] /\ serr \in [Step -> Err]
  BY DEF RInv, IInv, TypeOK
<1>c. CauseInv /\ ErrInv /\ IInv
  BY DEF RInv
<1>1. CASE \/ AcquireStepSema \/ ReceiveStep \/ ReceiveClosed \/ ReceiveError
           \/ ReceiveCtxDone \/ CollectError
  <2>1. UNCHANGED <<graph, interrupted, st, serr, result>>
    BY <1>1 DEF AcquireStepSema, ReceiveStep, ReceiveClosed, ReceiveError,
       ReceiveCtxDone, CollectError
  <2> QED BY <2>1 DEF Abs!vars, Started, MadeSteps, EndedSteps, Made
<1>2. CASE AcquireCanceled \/ DumpAndReturn
  <2>1. /\ interrupted /\ loop # "returned" /\ result' = "canceled"
        /\ UNCHANGED <<graph, interrupted, st, serr>>
    BY <1>c, <1>2 DEF AcquireCanceled, DumpAndReturn, ErrInv
  <2>2. UNCHANGED <<Started, MadeSteps, EndedSteps>> /\ result = "none"
    BY <1>c, <2>1 DEF Started, MadeSteps, EndedSteps, Made, CauseInv
  <2>3. Abs!Return("canceled")
    BY <2>1, <2>2 DEF Abs!Return
  <2> QED BY <2>3 DEF Abs!Next
<1>3. CASE Dispatch
  <2>1. /\ cur \in Step /\ st[cur] = "idle" /\ loop = "dispatch"
        /\ st' = [st EXCEPT ![cur] = "running"]
        /\ UNCHANGED <<graph, interrupted, serr, result>>
    BY <1>c, <1>3 DEF Dispatch, IInv, PlaceInv
  <2>2. result = "none" /\ cur \notin Started
    BY <1>c, <2>1 DEF CauseInv, Started
  <2>3. Producers(graph, cur) \subseteq MadeSteps
    BY <1>c, <2>1, NoSlotLeft DEF StartsAfterProducers, MadeSteps, Producers
  <2>4. /\ Started' = Started \cup {cur} /\ MadeSteps' = MadeSteps
        /\ EndedSteps' = EndedSteps
    BY <1>e, <2>1 DEF Started, MadeSteps, EndedSteps, Made
  <2>5. Abs!Start(cur)
    <3>1. Abs!Producers(graph, cur) = Producers(graph, cur)
      BY DEF Producers, Feeds, Slots, SlotTarget, Ins, InEdges, Abs!Producers,
         Abs!Feeds, Abs!Slots, Abs!SlotTarget, Abs!Ins, Abs!InEdges, Range, Abs!Range
    <3> QED BY <2>1, <2>2, <2>3, <2>4, <3>1 DEF Abs!Start
  <2> QED BY <2>1, <2>5 DEF Abs!Next
<1>4. CASE BuildReturn
  <2>1. /\ loop = "drain" /\ AllExited /\ result' = BuildResult /\ loop' = "returned"
        /\ UNCHANGED <<graph, interrupted, st, serr>>
    BY <1>4 DEF BuildReturn
  <2>2. UNCHANGED <<Started, MadeSteps, EndedSteps>> /\ result = "none"
    BY <1>c, <2>1 DEF Started, MadeSteps, EndedSteps, Made, CauseInv
  <2>3. Started = MadeSteps \cup EndedSteps
    BY <1>e, <2>1 DEF AllExited, Started, MadeSteps, EndedSteps, Made
  <2>4. result' = "failed" => EndedSteps # {}
    BY <1>c, <2>1 DEF BuildResult, CauseInv
  <2>5. result' \in {"ok", "failed", "canceled"} /\ (result' = "canceled" => interrupted)
    BY <1>c, <2>1 DEF BuildResult, CauseInv
  <2>6. result' = "ok" =>
           MadeSteps = Step \/ (interrupted /\ MadeSteps \cup EndedSteps = Step)
    <3>1. ErrInv'
      BY <1>c, LoopErrInv
    <3>2. ASSUME result' = "ok", NEW s \in Step
          PROVE  s \in MadeSteps \/ (interrupted /\ s \in Started)
      BY <2>1, <3>1, <3>2 DEF ErrInv, NilMeansAllMade, MadeSteps, Made, Started
    <3> QED BY <2>3, <3>2 DEF MadeSteps, EndedSteps
  <2>7. Abs!Return(result')
    BY <2>1, <2>2, <2>3, <2>4, <2>5, <2>6 DEF Abs!Return
  <2> QED BY <2>5, <2>7 DEF Abs!Next
<1> QED BY <1>1, <1>2, <1>3, <1>4 DEF LoopNext

\* Every step of a goroutine maps to a step or a stutter of the abstract build.
LEMMA StepMaps ==
    ASSUME RInv, NEW s \in Step, StepNext(s)
    PROVE  [Abs!Next]_(Abs!vars)
<1>1. CASE MadeSteps' = MadeSteps /\ EndedSteps' = EndedSteps
  BY <1>1, StepMoves DEF Abs!vars
<1>2. CASE /\ s \notin MadeSteps \cup EndedSteps
           /\ MadeSteps' = MadeSteps \cup {s} /\ EndedSteps' = EndedSteps
  <2>1. Abs!Make(s)
    BY <1>2, StepMoves DEF Abs!Make
  <2> QED BY <2>1 DEF Abs!Next
<1>3. CASE /\ s \notin MadeSteps \cup EndedSteps
           /\ MadeSteps' = MadeSteps /\ EndedSteps' = EndedSteps \cup {s}
  <2>1. Abs!GiveUp(s)
    BY <1>3, StepMoves DEF Abs!GiveUp
  <2> QED BY <2>1 DEF Abs!Next
<1> QED BY <1>1, <1>2, <1>3, StepMoves

\* Build with its loop, goroutines, channels, plan.done and interruption
\* implements the abstract build.
THEOREM Refinement == Spec => ImplementsAbstractBuild
<1>1. Init => RInv
  BY InitIInv, InitErrInv, InitCause DEF RInv
<1>2. RInv /\ [Next]_vars => RInv' /\ [Abs!Next]_(Abs!vars)
  <2> SUFFICES ASSUME RInv, [Next]_vars PROVE RInv' /\ [Abs!Next]_(Abs!vars)
    OBVIOUS
  <2>1. IInv' /\ ErrInv'
    BY NextIInv, NextErrInv DEF RInv
  <2>2. CASE LoopNext
    BY <2>1, <2>2, LoopCause, LoopMaps DEF RInv
  <2>3. ASSUME NEW s \in Step, StepNext(s) PROVE RInv' /\ [Abs!Next]_(Abs!vars)
    BY <2>1, <2>3, StepCause, StepMaps DEF RInv
  <2>4. CASE UNCHANGED vars
    BY <2>1, <2>4 DEF RInv, CauseInv, vars, loopVars, Abs!vars, Started, MadeSteps,
       EndedSteps, Made
  <2>5. CASE Terminated
    BY <2>4, <2>5 DEF Terminated
  <2>6. CASE Interrupt
    <3>1. /\ interrupted' = TRUE /\ UNCHANGED <<graph, st, serr, loop, result, errch, nfail,
                                               sawCancel>>
      BY <2>6 DEF Interrupt, loopVars
    <3>2. UNCHANGED <<Started, MadeSteps, EndedSteps>>
      BY <3>1 DEF Started, MadeSteps, EndedSteps, Made
    <3>3. CauseInv'
      BY <3>1, <3>2 DEF RInv, CauseInv
    <3>4. Abs!Interrupt
      BY <3>1, <3>2 DEF Abs!Interrupt
    <3> QED BY <2>1, <3>3, <3>4 DEF RInv, Abs!Next
  <2> QED BY <2>2, <2>3, <2>4, <2>5, <2>6 DEF Next
<1> QED BY <1>1, <1>2, InitMaps, PTL DEF Spec, ImplementsAbstractBuild, Abs!Spec
=============================================================================
