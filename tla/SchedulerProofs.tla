-------------------------- MODULE SchedulerProofs --------------------------
(***************************************************************************)
(* Proofs about Scheduler, for all build graphs: any number of steps with  *)
(* any number of outputs and inputs, cyclic or not, any list of builds and *)
(* any capacity of plan.q.                                                 *)
(***************************************************************************)
EXTENDS Scheduler, FiniteSetTheorems, SequenceTheorems, WellFoundedInduction, TLAPS

Frame == [target : Target, step : Step, i : Nat]

TypeOK ==
    /\ graph \in Graphs
    /\ visited \subseteq Step
    /\ validations \in Seq(Target)
    /\ scan \in [Target -> {"not-visited", "visiting", "done"}]
    /\ source \subseteq Target
    /\ waits \in [Target -> Seq(Step)]
    /\ nwaits \in [Step -> Nat]
    /\ q \in Seq(Step) /\ ready \in Seq(Step) /\ added \in Seq(Step)
    /\ npendings \in Nat
    /\ build \in 1..Len(graph.builds)
    /\ list \in Seq(Target)
    /\ idx \in Nat \ {0}
    /\ stack \in Seq(Frame)
    /\ phase \in {"targets", "validations", "finished"} \cup Errors

\* No error has ended the walk.
Live == phase \in {"targets", "validations", "finished"}

-----------------------------------------------------------------------------
(***************************************************************************)
(* The stack: each call is for the input its caller is at.                 *)
(***************************************************************************)
OnStack == {stack[j].step : j \in DOMAIN stack}

StackInv ==
    /\ \A j \in DOMAIN stack :
         /\ stack[j].step \in InEdges(graph, stack[j].target)
         /\ stack[j].i \in 1..Len(Ins(graph, stack[j].step)) + 1
         /\ scan[stack[j].target] = "visiting"
         /\ j + 1 \in DOMAIN stack =>
              /\ stack[j].i \in DOMAIN Ins(graph, stack[j].step)
              /\ Ins(graph, stack[j].step)[stack[j].i] = stack[j + 1].target
    /\ \A i, j \in DOMAIN stack : stack[i].step = stack[j].step => i = j
    /\ Live => \A t \in Target : scan[t] = "visiting" =>
                  \E j \in DOMAIN stack : stack[j].target = t
    /\ phase = "finished" => stack = <<>>

(***************************************************************************)
(* Every edge that was visited in this build is in the plan or on the      *)
(* stack, or was visited by an earlier one.                                *)
(***************************************************************************)
VisitedInv ==
    /\ \A i, j \in DOMAIN added : added[i] = added[j] => i = j
    /\ OnStack \cup InPlan \subseteq visited
    /\ OnStack \cap InPlan = {}
    /\ Live => visited \subseteq OnStack \cup InPlan \cup before

ScanInv ==
    /\ \A t \in source : InEdges(graph, t) = {}
    /\ \A t \in Target : scan[t] = "done" =>
         /\ InEdges(graph, t) \subseteq visited
         /\ InEdges(graph, t) = {} => t \in source
    /\ \A t \in Target : waits[t] # <<>> => scan[t] = "done"

ListInv ==
    /\ phase = "targets" => list = graph.builds[build]
    /\ phase \in {"validations", "finished"} =>
         \A t \in Range(graph.builds[build]) : scan[t] = "done"
    /\ \A k \in DOMAIN list : k < idx => scan[list[k]] = "done"
    /\ phase = "finished" => idx > Len(list)

(***************************************************************************)
(* The waits that were counted: all of a step in the plan, and those of    *)
(* the inputs that a call has passed.                                      *)
(***************************************************************************)
Passed(sl) ==
    \/ sl[1] \in InPlan
    \/ \E j \in DOMAIN stack : stack[j].step = sl[1] /\ sl[2] < stack[j].i

SeenOf(s) == {sl \in SlotsOf(graph, s) : Passed(sl)}
SeenAt(t, s) == {sl \in SeenOf(s) : SlotTarget(graph, sl) = t}

WaitInv ==
    Live => /\ \A s \in Step : nwaits[s] = Cardinality(SeenOf(s))
            /\ \A t \in Target : \A s \in Step : Count(waits[t], s) = Cardinality(SeenAt(t, s))

QueueInv ==
    /\ Len(q) <= QCap
    /\ ready # <<>> => Len(q) = QCap
    /\ Len(Pushed) = Cardinality(Free(Len(added)))
    /\ \A n \in Free(Len(added)) : Pushed[Cardinality(Free(n))] = added[n]
    /\ npendings = Cardinality({s \in InPlan : SlotsOf(graph, s) # {}})

(***************************************************************************)
(* A step is added after the steps that generate its inputs, except those  *)
(* with several outputs: one of them may be done while a call visits       *)
(* another.                                                                *)
(***************************************************************************)
OneOutput(s) == \A t, u \in Range(graph.outs[s]) : t = u

\* The inputs that the call of s has passed.
InputsDone(s, n) == \A i \in DOMAIN Ins(graph, s) : i < n => scan[Ins(graph, s)[i]] = "done"

OrderInv ==
    /\ \A j \in DOMAIN stack : InputsDone(stack[j].step, stack[j].i)
    /\ \A k \in DOMAIN added :
         /\ InputsDone(added[k], Len(Ins(graph, added[k])) + 1)
         /\ \A i \in DOMAIN Ins(graph, added[k]) : \A m \in DOMAIN added :
              added[m] \in InEdges(graph, Ins(graph, added[k])[i]) /\ OneOutput(added[m]) => m < k

CycleInv == phase = "cycle" => Cyclic(graph, visited)

Inv == /\ TypeOK /\ StackInv /\ VisitedInv /\ ScanInv /\ ListInv
       /\ WaitInv /\ QueueInv /\ OrderInv /\ CycleInv

-----------------------------------------------------------------------------
\* What the invariant knows of the graph.
LEMMA GraphFacts ==
    ASSUME graph \in Graphs
    PROVE  /\ \A s \in Step : /\ graph.outs[s] \in Seq(Target) /\ Ins(graph, s) \in Seq(Target)
                              /\ graph.vals[s] \in Seq(Target)
           /\ graph.builds \in Seq(Seq(Target)) /\ Len(graph.builds) >= 1
           /\ \A t \in Target : /\ InEdges(graph, t) \subseteq Step
                                /\ \A p, r \in InEdges(graph, t) : p = r
           /\ \A s \in Step : \A t \in Target :
                s \in InEdges(graph, t) <=> t \in Range(graph.outs[s])
           /\ \A s \in Step : Range(graph.outs[s]) \subseteq Target
<1>1. WellFormed(graph) /\ graph.builds # <<>>
  BY SchedulerAssumption
<1>2. \A s \in Step : /\ graph.outs[s] \in Seq(Target) /\ graph.ins[s] \in Seq(Target)
                      /\ graph.oo[s] \in Seq(Target) /\ graph.vals[s] \in Seq(Target)
  BY <1>1 DEF WellFormed, WellTyped
<1>3. \A s \in Step : Ins(graph, s) \in Seq(Target)
  BY <1>2 DEF Ins
<1>4. graph.builds \in Seq(Seq(Target)) /\ Len(graph.builds) >= 1
  BY <1>1 DEF WellFormed, WellTyped
<1>5. \A t \in Target : /\ InEdges(graph, t) \subseteq Step
                        /\ \A p, r \in InEdges(graph, t) : p = r
  BY <1>1 DEF WellFormed, OneProducer, InEdges
<1>6. \A s \in Step : \A t \in Target :
         s \in InEdges(graph, t) <=> t \in Range(graph.outs[s])
  BY DEF InEdges
<1>7. \A s \in Step : Range(graph.outs[s]) \subseteq Target
  BY <1>2 DEF Range
<1> QED
  BY <1>2, <1>3, <1>4, <1>5, <1>6, <1>7

\* An element of a sequence has the type of its elements.
LEMMA SeqElement ==
    ASSUME NEW S, NEW s \in Seq(S)
    PROVE  /\ Len(s) \in Nat /\ DOMAIN s = 1..Len(s)
           /\ \A i \in DOMAIN s : s[i] \in S
           /\ Range(s) \subseteq S
BY DEF Range

\* A sequence with one more element.
LEMMA Appended ==
    ASSUME NEW S, NEW s \in Seq(S), NEW e \in S
    PROVE  /\ Append(s, e) \in Seq(S)
           /\ Len(Append(s, e)) = Len(s) + 1
           /\ DOMAIN Append(s, e) = 1..(Len(s) + 1)
           /\ DOMAIN s = 1..Len(s) /\ Len(s) \in Nat
           /\ \A i \in DOMAIN s : Append(s, e)[i] = s[i]
           /\ Append(s, e)[Len(s) + 1] = e
           /\ Range(Append(s, e)) = Range(s) \cup {e}
<1>1. /\ Append(s, e) \in Seq(S)
      /\ Len(Append(s, e)) = Len(s) + 1
      /\ DOMAIN Append(s, e) = 1..(Len(s) + 1)
      /\ DOMAIN s = 1..Len(s) /\ Len(s) \in Nat
      /\ \A i \in DOMAIN s : Append(s, e)[i] = s[i]
      /\ Append(s, e)[Len(s) + 1] = e
  OBVIOUS
<1>2. DOMAIN Append(s, e) = DOMAIN s \cup {Len(s) + 1}
  BY <1>1
<1> QED
  BY <1>1, <1>2 DEF Range

\* A sequence without its last element.
LEMMA Shortened ==
    ASSUME NEW S, NEW s \in Seq(S), s # <<>>
    PROVE  /\ Front(s) \in Seq(S) /\ Len(Front(s)) = Len(s) - 1
           /\ DOMAIN Front(s) = 1..(Len(s) - 1)
           /\ Len(s) \in Nat \ {0} /\ DOMAIN s = 1..Len(s)
           /\ \A i \in 1..(Len(s) - 1) : Front(s)[i] = s[i]
           /\ Last(s) = s[Len(s)] /\ Last(s) \in S
<1>1. Len(s) \in Nat \ {0} /\ DOMAIN s = 1..Len(s) /\ s[Len(s)] \in S
  OBVIOUS
<1>2. Front(s) = SubSeq(s, 1, Len(s) - 1) /\ Last(s) = s[Len(s)]
  BY DEF Front, Last
<1>3. Len(s) - 1 \in Nat /\ Len(s) - 1 <= Len(s)
  BY <1>1
<1>4. /\ SubSeq(s, 1, Len(s) - 1) \in Seq(S) /\ Len(SubSeq(s, 1, Len(s) - 1)) = Len(s) - 1
      /\ \A i \in 1..(Len(s) - 1) : SubSeq(s, 1, Len(s) - 1)[i] = s[i]
  BY <1>1, <1>3
<1> QED
  BY <1>1, <1>2, <1>4

\* The elements of the sequences of the state.
LEMMA TypeFacts ==
    ASSUME TypeOK
    PROVE  /\ \A j \in DOMAIN stack : /\ stack[j] \in Frame /\ stack[j].target \in Target
                                     /\ stack[j].step \in Step /\ stack[j].i \in Nat
           /\ DOMAIN stack = 1..Len(stack) /\ Len(stack) \in Nat
           /\ \A k \in DOMAIN added : added[k] \in Step
           /\ DOMAIN added = 1..Len(added) /\ Len(added) \in Nat
           /\ \A k \in DOMAIN list : list[k] \in Target
           /\ DOMAIN list = 1..Len(list) /\ Len(list) \in Nat
           /\ graph.builds[build] \in Seq(Target) /\ Range(graph.builds[build]) \subseteq Target
<1>1. \A j \in DOMAIN stack : stack[j] \in Frame
  BY SeqElement DEF TypeOK
<1>2. \A f \in Frame : f.target \in Target /\ f.step \in Step /\ f.i \in Nat
  BY DEF Frame
<1>3. DOMAIN stack = 1..Len(stack) /\ Len(stack) \in Nat
  BY SeqElement DEF TypeOK
<1>4. /\ \A k \in DOMAIN added : added[k] \in Step
      /\ DOMAIN added = 1..Len(added) /\ Len(added) \in Nat
  BY SeqElement DEF TypeOK
<1>5. /\ \A k \in DOMAIN list : list[k] \in Target
      /\ DOMAIN list = 1..Len(list) /\ Len(list) \in Nat
  BY SeqElement DEF TypeOK
<1>6. graph.builds[build] \in Seq(Target)
  BY GraphFacts, SeqElement DEF TypeOK
<1>7. Range(graph.builds[build]) \subseteq Target
  BY <1>6, SeqElement
<1> QED
  BY <1>1, <1>2, <1>3, <1>4, <1>5, <1>6, <1>7

-----------------------------------------------------------------------------
\* What depends on the graph, the plan and the stack only.
LEMMA SameSeen ==
    ASSUME UNCHANGED <<graph, added, stack>>
    PROVE  /\ InPlan' = InPlan /\ OnStack' = OnStack
           /\ \A s : SeenOf(s)' = SeenOf(s)
           /\ \A t, s : SeenAt(t, s)' = SeenAt(t, s)
<1>1. InPlan' = InPlan /\ OnStack' = OnStack
  BY DEF InPlan, OnStack
<1>2. \A sl : Passed(sl)' <=> Passed(sl)
  BY <1>1 DEF Passed
<1>3. \A s : SeenOf(s)' = SeenOf(s)
  BY <1>2 DEF SeenOf
<1>4. \A t, s : SeenAt(t, s)' = SeenAt(t, s)
  BY <1>3 DEF SeenAt
<1> QED
  BY <1>1, <1>3, <1>4

\* The order of the plan is kept when targets become done and the stack stays.
LEMMA OrderStays ==
    ASSUME TypeOK, OrderInv, UNCHANGED <<graph, added, stack>>,
           \A t \in Target : scan[t] = "done" => scan'[t] = "done"
    PROVE  OrderInv'
<1>1. \A s \in Step : \A i \in DOMAIN Ins(graph, s) : Ins(graph, s)[i] \in Target
  BY GraphFacts, SeqElement DEF TypeOK
<1>2. \A j \in DOMAIN stack : InputsDone(stack[j].step, stack[j].i)'
  BY <1>1, TypeFacts DEF OrderInv, InputsDone
<1>3. \A k \in DOMAIN added : InputsDone(added[k], Len(Ins(graph, added[k])) + 1)'
  BY <1>1, TypeFacts DEF OrderInv, InputsDone
<1> QED
  BY <1>2, <1>3 DEF OrderInv, OneOutput

\* The walk ends with an error.
LEMMA FailKeeps ==
    ASSUME Inv, NEW e \in Errors, Fail(e), e = "cycle" => Cyclic(graph, visited)
    PROVE  Inv'
<1> USE DEF Inv
<1>1. /\ UNCHANGED <<graphVars, planVars, build, list, idx, stack>> /\ phase' = e
      /\ e \notin {"targets", "validations", "finished"}
  BY DEF Fail, Errors
<1>2. UNCHANGED <<graph, visited, before, validations, scan, source, waits, nwaits, q, ready, npendings,
                  added, build, list, idx, stack>>
  BY <1>1 DEF graphVars, planVars
<1>3. TypeOK'
  BY <1>1, <1>2 DEF TypeOK
<1>4. StackInv' /\ VisitedInv' /\ ScanInv' /\ ListInv'
  BY <1>1, <1>2 DEF StackInv, VisitedInv, ScanInv, ListInv, Live, OnStack, InPlan
<1>5. WaitInv' /\ QueueInv' /\ OrderInv'
  <2>1. WaitInv'
    BY <1>1 DEF WaitInv, Live
  <2>2. QueueInv'
    BY <1>2 DEF QueueInv, Pushed, Free, InPlan
  <2>3. OrderInv'
    BY <1>2 DEF OrderInv, InputsDone, OneOutput
  <2> QED
    BY <2>1, <2>2, <2>3
<1>6. CycleInv'
  BY <1>1, <1>2 DEF CycleInv
<1> QED
  BY <1>3, <1>4, <1>5, <1>6

\* A target becomes done: a source, or an output of an edge that was visited.
LEMMA ScanDone ==
    ASSUME Inv, NEW t \in Target, scan[t] = "not-visited",
           scan' = [scan EXCEPT ![t] = "done"],
           InEdges(graph, t) \subseteq visited,
           source' = IF InEdges(graph, t) = {} THEN source \cup {t} ELSE source,
           UNCHANGED <<graph, visited, before, validations, waits, nwaits, q, ready, npendings,
                       added, build, list, idx, stack, phase>>
    PROVE  Inv'
<1> USE DEF Inv
<1>1. \A u \in Target : scan'[u] = IF u = t THEN "done" ELSE scan[u]
  BY DEF TypeOK
<1>2. TypeOK'
  BY DEF TypeOK
<1>3. StackInv'
  BY <1>1, TypeFacts DEF StackInv, Live
<1>4. VisitedInv'
  BY DEF VisitedInv, Live, OnStack, InPlan
<1>5. ScanInv'
  BY <1>1 DEF ScanInv
<1>6. ListInv'
  BY <1>1, TypeFacts DEF ListInv
<1>7. WaitInv' /\ QueueInv'
  BY SameSeen DEF WaitInv, QueueInv, Live, Pushed, Free, InPlan
<1>8. OrderInv'
  BY <1>1, OrderStays, TypeFacts DEF TypeOK
<1>9. CycleInv'
  BY DEF CycleInv
<1> QED
  BY <1>2, <1>3, <1>4, <1>5, <1>6, <1>7, <1>8, <1>9

\* Slots of one step: its generated inputs.
LEMMA SlotFacts ==
    ASSUME NEW g, NEW s \in Step
    PROVE  /\ \A sl \in SlotsOf(g, s) : /\ sl = <<s, sl[2]>> /\ sl[1] = s
                                        /\ sl[2] \in DOMAIN Ins(g, s)
                                        /\ InEdges(g, Ins(g, s)[sl[2]]) # {}
           /\ \A i \in DOMAIN Ins(g, s) :
                InEdges(g, Ins(g, s)[i]) # {} => <<s, i>> \in SlotsOf(g, s)
<1> DEFINE D == UNION {DOMAIN Ins(g, r) : r \in Step}
<1>1. DOMAIN Ins(g, s) \subseteq D
  OBVIOUS
<1> HIDE DEF D
<1>2. SlotsOf(g, s) = {sl \in Step \X D : /\ sl[2] \in DOMAIN Ins(g, sl[1])
                                          /\ InEdges(g, Ins(g, sl[1])[sl[2]]) # {}
                                          /\ sl[1] = s}
  BY DEF SlotsOf, Slots, D
<1> QED
  BY <1>1, <1>2

\* scheduleTarget is called for an output of an edge that was not visited.
LEMMA PushKeeps ==
    ASSUME Inv, Scanning, NEW t \in Target, scan[t] = "not-visited",
           NEW s \in InEdges(graph, t) \ visited,
           stack # <<>> => AtInput /\ t = Input,
           StepDef(s), MarkVisiting(t),
           stack' = Append(stack, [target |-> t, step |-> s, i |-> 1]),
           UNCHANGED <<source, waits, nwaits, q, ready, npendings, added, build, list, idx, phase>>
    PROVE  Inv'
<1> USE DEF Inv
<1> DEFINE f == [target |-> t, step |-> s, i |-> 1]
           n == Len(stack)
<1>1. s \in Step /\ graph \in Graphs /\ f \in Frame /\ f.target = t /\ f.step = s /\ f.i = 1
  BY GraphFacts DEF TypeOK, Frame
<1>2. UNCHANGED <<graph, before>> /\ visited' = visited \cup {s} /\ validations' = validations \o graph.vals[s]
  BY DEF StepDef
<1>3. \A u \in Target : scan'[u] = IF u = t THEN "visiting" ELSE scan[u]
  BY DEF MarkVisiting, TypeOK
<1>4. stack' = Append(stack, f)
  OBVIOUS
<1> HIDE DEF f
<1>5. /\ stack' \in Seq(Frame) /\ n \in Nat /\ DOMAIN stack = 1..n /\ DOMAIN stack' = 1..(n + 1)
      /\ \A j \in 1..n : stack'[j] = stack[j]
      /\ stack'[n + 1] = f
  BY <1>1, <1>4, Appended DEF TypeOK
<1> HIDE DEF n
<1>6. TypeOK'
  <2>1. validations' \in Seq(Target)
    BY <1>1, <1>2, GraphFacts DEF TypeOK
  <2>2. scan' \in [Target -> {"not-visited", "visiting", "done"}]
    BY DEF MarkVisiting, TypeOK
  <2> QED
    BY <1>1, <1>2, <1>5, <2>1, <2>2 DEF TypeOK
<1>7. OnStack' = OnStack \cup {s}
  BY <1>1, <1>5 DEF OnStack
<1>8. InPlan' = InPlan /\ s \notin InPlan /\ s \notin OnStack
  BY DEF VisitedInv, InPlan
<1>9. \A j \in 1..n : /\ stack[j].step # s /\ stack[j].target \in Target
                      /\ stack[j].target # t /\ stack[j].step \in Step
  <2> SUFFICES ASSUME NEW j \in 1..n
               PROVE  /\ stack[j].step # s /\ stack[j].target \in Target
                      /\ stack[j].target # t /\ stack[j].step \in Step
    OBVIOUS
  <2>1. j \in DOMAIN stack /\ stack[j].target \in Target /\ stack[j].step \in Step
    BY <1>5, TypeFacts
  <2>2. stack[j].step \in OnStack
    BY <2>1 DEF OnStack
  <2>3. scan[stack[j].target] = "visiting"
    BY <2>1 DEF StackInv
  <2> QED
    BY <1>8, <2>1, <2>2, <2>3
<1>10. StackInv'
  <2>1. ASSUME NEW j \in 1..n
        PROVE  /\ stack[j].step \in InEdges(graph, stack[j].target)
               /\ stack[j].i \in 1..Len(Ins(graph, stack[j].step)) + 1
               /\ scan'[stack[j].target] = "visiting"
    <3>1. j \in DOMAIN stack
      BY <1>5
    <3>2. /\ stack[j].step \in InEdges(graph, stack[j].target)
          /\ stack[j].i \in 1..Len(Ins(graph, stack[j].step)) + 1
          /\ scan[stack[j].target] = "visiting"
      BY <3>1 DEF StackInv
    <3>3. scan'[stack[j].target] = "visiting"
      BY <1>3, <1>9, <3>2
    <3> QED
      BY <3>2, <3>3
  <2>2. ASSUME NEW j \in 1..n
        PROVE  /\ stack[j].i \in DOMAIN Ins(graph, stack[j].step)
               /\ Ins(graph, stack[j].step)[stack[j].i] = stack'[j + 1].target
    <3>1. CASE j = n
      <4>1. stack # <<>> /\ stack[n].i \in Nat
        BY <1>5, <2>2, <3>1, TypeFacts
      <4>4. Top = stack[n]
        BY <4>1, Shortened DEF TypeOK, Top, n
      <4>2. t = Ins(graph, stack[n].step)[stack[n].i] /\ stack[n].i <= Len(Ins(graph, stack[n].step))
        BY <4>1, <4>4 DEF AtInput, Input
      <4>3. Ins(graph, stack[n].step) \in Seq(Target)
        BY <1>1, <1>9, <2>2, <3>1, GraphFacts
      <4>5. stack[n].i \in 1..Len(Ins(graph, stack[n].step)) + 1
        BY <2>1, <2>2, <3>1
      <4>6. stack[n].i >= 1
        BY <4>3, <4>5
      <4> QED
        BY <1>1, <1>5, <3>1, <4>1, <4>2, <4>3, <4>6, SeqElement
    <3>2. CASE j # n
      <4>1. j + 1 \in 1..n
        BY <1>5, <2>2, <3>2
      <4> QED
        BY <1>5, <2>2, <4>1 DEF StackInv
    <3> QED
      BY <3>1, <3>2
  <2>3. /\ f.step \in InEdges(graph, f.target)
        /\ f.i \in 1..Len(Ins(graph, f.step)) + 1
        /\ scan'[f.target] = "visiting"
    <3>1. Len(Ins(graph, s)) \in Nat
      BY <1>1, GraphFacts, SeqElement
    <3> QED
      BY <1>1, <1>3, <3>1
  <2>4. ASSUME NEW j \in 1..(n + 1)
        PROVE  /\ stack'[j].step \in InEdges(graph, stack'[j].target)
               /\ stack'[j].i \in 1..Len(Ins(graph, stack'[j].step)) + 1
               /\ scan'[stack'[j].target] = "visiting"
               /\ j + 1 \in 1..(n + 1) =>
                    /\ stack'[j].i \in DOMAIN Ins(graph, stack'[j].step)
                    /\ Ins(graph, stack'[j].step)[stack'[j].i] = stack'[j + 1].target
    <3>1. CASE j \in 1..n
      BY <1>5, <2>1, <2>2, <3>1
    <3>2. CASE j = n + 1
      BY <1>5, <2>3, <3>2
    <3> QED
      BY <1>5, <2>4, <3>1, <3>2
  <2>5. \A i, j \in 1..(n + 1) : stack'[i].step = stack'[j].step => i = j
    <3>1. \A i, j \in 1..n : stack[i].step = stack[j].step => i = j
      BY <1>5 DEF StackInv
    <3>2. \A j \in 1..(n + 1) : j \in 1..n \/ j = n + 1
      BY <1>5
    <3> QED
      BY <1>1, <1>5, <1>9, <3>1, <3>2
  <2>6. \A u \in Target : scan'[u] = "visiting" => \E j \in 1..(n + 1) : stack'[j].target = u
    <3> SUFFICES ASSUME NEW u \in Target, scan'[u] = "visiting"
                 PROVE  \E j \in 1..(n + 1) : stack'[j].target = u
      OBVIOUS
    <3>1. CASE u = t
      BY <1>1, <1>5, <3>1
    <3>2. CASE u # t
      <4>1. PICK j \in 1..n : stack[j].target = u
        BY <1>3, <1>5, <3>2 DEF StackInv, Live, Scanning
      <4> QED
        BY <1>5, <4>1
    <3> QED
      BY <3>1, <3>2
  <2>7. phase' # "finished"
    BY DEF Scanning
  <2> QED
    BY <1>2, <1>5, <2>4, <2>5, <2>6, <2>7 DEF StackInv
<1>11. VisitedInv'
  BY <1>2, <1>7, <1>8 DEF VisitedInv, Live
<1>12. ScanInv'
  BY <1>2, <1>3 DEF ScanInv
<1>13. ListInv'
  BY <1>2, <1>3, TypeFacts DEF ListInv
<1>14. WaitInv'
  <2>1. ASSUME NEW r \in Step, NEW sl \in SlotsOf(graph, r) PROVE Passed(sl)' <=> Passed(sl)
    <3>1. sl[2] \in Nat \ {0}
      BY <1>1, <2>1, SlotFacts, GraphFacts, SeqElement
    <3>2. ~(sl[2] < f.i)
      BY <1>1, <3>1
    <3>3. \A j \in 1..(n + 1) : j \in 1..n \/ j = n + 1
      BY <1>5
    <3> QED
      BY <1>5, <1>8, <3>2, <3>3 DEF Passed
  <2>2. \A r \in Step : SeenOf(r)' = SeenOf(r)
    BY <1>2, <2>1 DEF SeenOf
  <2>3. \A u : \A r \in Step : SeenAt(u, r)' = SeenAt(u, r)
    BY <1>2, <2>2 DEF SeenAt
  <2> QED
    BY <2>2, <2>3 DEF WaitInv, Live, Scanning
<1>15. QueueInv'
  BY <1>2, <1>8 DEF QueueInv, Pushed, Free
<1>16. OrderInv'
  <2>1. \A r \in Step : \A i \in DOMAIN Ins(graph, r) : Ins(graph, r)[i] \in Target
    BY GraphFacts, SeqElement DEF TypeOK
  <2>2. \A j \in 1..n : \A i \in DOMAIN Ins(graph, stack[j].step) :
           i < stack[j].i => scan'[Ins(graph, stack[j].step)[i]] = "done"
    <3>1. \A j \in 1..n : \A i \in DOMAIN Ins(graph, stack[j].step) :
             i < stack[j].i => scan[Ins(graph, stack[j].step)[i]] = "done"
      BY <1>5 DEF OrderInv, InputsDone
    <3> QED
      BY <1>3, <1>9, <2>1, <3>1
  <2>3. \A i \in DOMAIN Ins(graph, s) : ~(i < 1)
    BY <1>1, GraphFacts, SeqElement
  <2>4. \A j \in 1..(n + 1) : \A i \in DOMAIN Ins(graph, stack'[j].step) :
           i < stack'[j].i => scan'[Ins(graph, stack'[j].step)[i]] = "done"
    <3>1. \A j \in 1..(n + 1) : j \in 1..n \/ j = n + 1
      BY <1>5
    <3> QED
      BY <1>1, <1>5, <2>2, <2>3, <3>1
  <2>5. \A j \in DOMAIN stack' : InputsDone(stack[j].step, stack[j].i)'
    BY <1>2, <1>5, <2>4 DEF InputsDone
  <2>6. \A k \in DOMAIN added : InputsDone(added[k], Len(Ins(graph, added[k])) + 1)'
    BY <1>2, <1>3, <2>1, TypeFacts DEF OrderInv, InputsDone
  <2> QED
    BY <1>2, <2>5, <2>6 DEF OrderInv, OneOutput
<1>17. CycleInv'
  BY DEF CycleInv, Scanning
<1> QED
  BY <1>6, <1>10, <1>11, <1>12, <1>13, <1>14, <1>15, <1>16, <1>17

\* The context is done when the edge is visited: the call ends, and the walk.
LEMMA InterruptKeeps ==
    ASSUME Inv, NEW t \in Target, scan[t] = "not-visited",
           NEW s \in InEdges(graph, t), StepDef(s), MarkVisiting(t),
           phase' = "interrupted",
           UNCHANGED <<source, waits, nwaits, q, ready, npendings, added, build, list, idx, stack>>
    PROVE  Inv'
<1> USE DEF Inv
<1>1. s \in Step /\ graph \in Graphs
  BY GraphFacts DEF TypeOK
<1>2. UNCHANGED <<graph, before>> /\ visited' = visited \cup {s} /\ validations' = validations \o graph.vals[s]
  BY DEF StepDef
<1>3. \A u \in Target : scan'[u] = IF u = t THEN "visiting" ELSE scan[u]
  BY DEF MarkVisiting, TypeOK
<1>4. TypeOK'
  <2>1. validations' \in Seq(Target)
    BY <1>1, <1>2, GraphFacts DEF TypeOK
  <2>2. scan' \in [Target -> {"not-visited", "visiting", "done"}]
    BY DEF MarkVisiting, TypeOK
  <2> QED
    BY <1>1, <1>2, <2>1, <2>2 DEF TypeOK, Errors
<1>5. StackInv' /\ ListInv'
  <2>1. \A u \in Target : scan[u] # "not-visited" => scan'[u] = scan[u]
    BY <1>3
  <2>2. ~Live' /\ phase' # "finished" /\ phase' # "validations" /\ phase' # "targets"
    BY DEF Live
  <2>3. StackInv'
    BY <1>2, <2>1, <2>2, TypeFacts DEF StackInv
  <2>4. ListInv'
    BY <2>1, <2>2, TypeFacts DEF ListInv
  <2> QED
    BY <2>3, <2>4
<1>6. VisitedInv' /\ ScanInv'
  BY <1>2, <1>3 DEF VisitedInv, ScanInv, Live, OnStack, InPlan
<1>7. WaitInv' /\ CycleInv'
  BY DEF WaitInv, Live, CycleInv
<1>8. QueueInv'
  BY <1>2 DEF QueueInv, Pushed, Free, InPlan
<1>9. OrderInv'
  BY <1>2, <1>3, OrderStays
<1> QED
  BY <1>4, <1>5, <1>6, <1>7, <1>8, <1>9

(***************************************************************************)
(* A visited target that is still visiting is the target of a call on the  *)
(* stack: the calls from there on are a cycle.                             *)
(***************************************************************************)
LEMMA StackCycle ==
    ASSUME Inv, Scanning, NEW t \in Target, scan[t] = "visiting",
           stack # <<>> => AtInput /\ t = Input
    PROVE  Cyclic(graph, visited)
<1> USE DEF Inv
<1> DEFINE n == Len(stack)
<1>1. PICK k \in DOMAIN stack : stack[k].target = t
  BY DEF StackInv, Live, Scanning
<1>2. DOMAIN stack = 1..n /\ n \in Nat /\ stack # <<>>
  BY <1>1, TypeFacts
<1>3. Top = stack[n]
  BY <1>2, Shortened DEF TypeOK, Top
<1> HIDE DEF n
<1> DEFINE C == {stack[j].step : j \in k..n}
<1>4. C # {}
  <2>1. k \in k..n
    BY <1>1, <1>2
  <2>2. stack[k].step \in C
    BY <2>1
  <2> QED
    BY <2>2
<1>5. C \subseteq visited
  <2>1. \A j \in k..n : j \in DOMAIN stack
    BY <1>1, <1>2
  <2>2. \A j \in DOMAIN stack : stack[j].step \in visited
    BY DEF VisitedInv, OnStack
  <2> QED
    BY <2>1, <2>2
<1>6. ASSUME NEW s \in C PROVE Producers(graph, s) \cap C # {}
  <2>1. PICK j \in k..n : s = stack[j].step
    BY <1>6
  <2>2. j \in 1..n /\ s \in Step
    BY <1>1, <1>2, <2>1, TypeFacts
  <2>3. \E m \in k..n : /\ stack[j].i \in DOMAIN Ins(graph, s)
                        /\ Ins(graph, s)[stack[j].i] = stack[m].target
    <3>1. CASE j = n
      <4>1. t = Ins(graph, s)[stack[n].i] /\ stack[n].i <= Len(Ins(graph, s))
        BY <1>2, <1>3, <2>1, <3>1 DEF AtInput, Input
      <4>2. Ins(graph, s) \in Seq(Target) /\ Len(Ins(graph, s)) \in Nat
        BY <2>2, GraphFacts, SeqElement DEF TypeOK
      <4>3. stack[n].i \in 1..Len(Ins(graph, s)) + 1
        BY <1>2, <2>1, <2>2, <3>1 DEF StackInv
      <4>4. stack[n].i \in DOMAIN Ins(graph, s)
        BY <4>1, <4>2, <4>3, SeqElement
      <4> QED
        BY <1>1, <1>2, <2>2, <3>1, <4>1, <4>4
    <3>2. CASE j # n
      <4>1. j + 1 \in 1..n /\ j + 1 \in k..n
        BY <1>1, <1>2, <2>1, <3>2
      <4> QED
        BY <1>2, <2>1, <2>2, <4>1 DEF StackInv
    <3> QED
      BY <3>1, <3>2
  <2>4. PICK m \in k..n : /\ stack[j].i \in DOMAIN Ins(graph, s)
                          /\ Ins(graph, s)[stack[j].i] = stack[m].target
    BY <2>3
  <2>5. m \in DOMAIN stack /\ stack[m].step \in C
    BY <1>1, <1>2
  <2>6. /\ stack[m].step \in InEdges(graph, stack[m].target) /\ stack[m].step \in Step
        /\ stack[m].target \in Target
    BY <2>5, TypeFacts DEF StackInv
  <2>7. stack[m].step \in Producers(graph, s)
    <3> DEFINE sl == <<s, stack[j].i>>
    <3>1. sl \in SlotsOf(graph, s)
      BY <2>2, <2>4, <2>6, SlotFacts
    <3>2. sl \in Slots(graph) /\ sl[1] = s
      BY <3>1 DEF SlotsOf
    <3>3. SlotTarget(graph, sl) = stack[m].target
      BY <2>4 DEF SlotTarget
    <3>4. stack[m].target \in Range(graph.outs[stack[m].step])
      BY <2>6 DEF InEdges
    <3> HIDE DEF sl
    <3> QED
      BY <2>6, <3>2, <3>3, <3>4 DEF Producers, Feeds
  <2> QED
    BY <2>5, <2>7
<1> HIDE DEF C
<1> QED
  BY <1>4, <1>5, <1>6 DEF Cyclic

\* scheduleTarget, called for a target of the list or an input.
LEMMA EnterKeeps ==
    ASSUME Inv, Scanning, NEW t \in Target, Enter(t), stack # <<>> => AtInput /\ t = Input
    PROVE  Inv'
<1>1. CASE scan[t] = "visiting" /\ Fail("cycle")
  BY <1>1, StackCycle, FailKeeps DEF Errors
<1>2. CASE scan[t] = "not-visited" /\ Fail("missing source")
  BY <1>2, FailKeeps DEF Errors
<1>3. CASE /\ scan[t] = "not-visited" /\ InEdges(graph, t) = {}
           /\ source' = source \cup {t} /\ ReturnDone(t)
           /\ UNCHANGED <<graphVars, phonyOutput, output, waits, nwaits, q,
                          ready, npendings, added, ctrlVars>>
  BY <1>3, ScanDone DEF ReturnDone, graphVars, ctrlVars
<1>4. CASE /\ scan[t] = "not-visited" /\ InEdges(graph, t) # {}
           /\ InEdges(graph, t) \subseteq visited /\ ReturnDone(t)
           /\ UNCHANGED <<graphVars, source, phonyOutput, output, waits, nwaits, q,
                          ready, npendings, added, ctrlVars>>
  BY <1>4, ScanDone DEF ReturnDone, graphVars, ctrlVars
<1>5. ASSUME NEW s \in InEdges(graph, t) \ visited, scan[t] = "not-visited",
             StepDef(s), MarkVisiting(t),
             \/ /\ stack' = Append(stack, [target |-> t, step |-> s, i |-> 1])
                /\ UNCHANGED phase
             \/ phase' = "interrupted" /\ UNCHANGED stack,
             UNCHANGED <<source, output, waits, nwaits, q, ready, npendings, added,
                         build, list, idx>>
      PROVE  Inv'
  BY <1>5, PushKeeps, InterruptKeeps
<1> QED
  BY <1>1, <1>2, <1>3, <1>4, <1>5 DEF Enter

-----------------------------------------------------------------------------
(***************************************************************************)
(* Counting                                                                *)
(***************************************************************************)
\* The slots of a step are finitely many.
LEMMA SlotsAreFinite ==
    ASSUME graph \in Graphs, NEW s \in Step
    PROVE  IsFiniteSet(SlotsOf(graph, s)) /\ \A S \in SUBSET SlotsOf(graph, s) : IsFiniteSet(S)
<1> DEFINE T == 1..Len(Ins(graph, s))
           f == [sl \in SlotsOf(graph, s) |-> sl[2]]
<1>1. Len(Ins(graph, s)) \in Nat /\ DOMAIN Ins(graph, s) = T
  BY GraphFacts, SeqElement
<1>2. IsFiniteSet(T)
  BY <1>1, FS_Interval
<1>3. f \in Injection(SlotsOf(graph, s), T)
  BY <1>1, SlotFacts DEF Injection, IsInjective
<1> HIDE DEF T, f
<1>4. IsFiniteSet(SlotsOf(graph, s))
  BY <1>2, <1>3, FS_Injection
<1> QED
  BY <1>4, FS_Subset

\* One more element in a sequence.
LEMMA CountAppend ==
    ASSUME NEW S, NEW w \in Seq(S), NEW s \in S, NEW e
    PROVE  Count(Append(w, s), e) = IF e = s THEN Count(w, e) + 1 ELSE Count(w, e)
<1> DEFINE A == {i \in DOMAIN w : w[i] = e}
           B == {i \in DOMAIN Append(w, s) : Append(w, s)[i] = e}
<1>1. /\ DOMAIN w = 1..Len(w) /\ Len(w) \in Nat
      /\ DOMAIN Append(w, s) = 1..(Len(w) + 1)
      /\ \A i \in DOMAIN w : Append(w, s)[i] = w[i]
      /\ Append(w, s)[Len(w) + 1] = s
  BY Appended
<1>2. IsFiniteSet(A) /\ Len(w) + 1 \notin A
  <2>1. IsFiniteSet(1..Len(w))
    BY <1>1, FS_Interval
  <2> QED
    BY <1>1, <2>1, FS_Subset
<1>3. \A i : i \in 1..(Len(w) + 1) <=> i \in 1..Len(w) \/ i = Len(w) + 1
  BY <1>1
<1>4. B = IF e = s THEN A \cup {Len(w) + 1} ELSE A
  BY <1>1, <1>3
<1>5. Count(w, e) = Cardinality(A) /\ Count(Append(w, s), e) = Cardinality(B)
  BY DEF Count
<1> HIDE DEF A, B
<1> QED
  BY <1>2, <1>4, <1>5, FS_AddElement

\* The innermost call, at one of its inputs.
LEMMA TopFacts ==
    ASSUME Inv, stack # <<>>
    PROVE  /\ Len(stack) \in DOMAIN stack /\ Top = stack[Len(stack)]
           /\ DOMAIN stack = 1..Len(stack) /\ Len(stack) \in Nat \ {0}
           /\ Top \in Frame /\ Top.step \in Step /\ Top.target \in Target /\ Top.i \in Nat \ {0}
           /\ Top.step \in InEdges(graph, Top.target) /\ scan[Top.target] = "visiting"
           /\ Top.step \notin InPlan /\ Top.step \in visited
           /\ Ins(graph, Top.step) \in Seq(Target)
           /\ AtInput => /\ Top.i \in DOMAIN Ins(graph, Top.step) /\ Input \in Target
                         /\ Input = Ins(graph, Top.step)[Top.i]
<1> USE DEF Inv
<1> DEFINE n == Len(stack)
<1>1. n \in DOMAIN stack /\ Top = stack[n] /\ DOMAIN stack = 1..n /\ n \in Nat \ {0}
  <2>1. Last(stack) = stack[n] /\ n \in Nat \ {0} /\ DOMAIN stack = 1..n
    BY Shortened DEF TypeOK
  <2> QED
    BY <2>1 DEF Top
<1> HIDE DEF n
<1>2. Top \in Frame /\ Top.step \in Step /\ Top.target \in Target /\ Top.i \in Nat
  BY <1>1, TypeFacts
<1>3. /\ Top.step \in InEdges(graph, Top.target) /\ scan[Top.target] = "visiting"
      /\ Top.i \in 1..Len(Ins(graph, Top.step)) + 1
  BY <1>1 DEF StackInv
<1>4. Top.step \in OnStack
  BY <1>1 DEF OnStack
<1>5. Top.step \notin InPlan /\ Top.step \in visited
  BY <1>4 DEF VisitedInv
<1>6. Ins(graph, Top.step) \in Seq(Target)
  BY <1>2, GraphFacts DEF TypeOK
<1>7. Top.i \in Nat \ {0} /\ Len(Ins(graph, Top.step)) \in Nat
  BY <1>2, <1>3, <1>6
<1>8. AtInput => Top.i \in DOMAIN Ins(graph, Top.step)
  BY <1>6, <1>7, SeqElement DEF AtInput
<1>9. AtInput => Input \in Target /\ Input = Ins(graph, Top.step)[Top.i]
  BY <1>6, <1>8, SeqElement DEF Input
<1> QED
  BY <1>1, <1>2, <1>3, <1>5, <1>6, <1>7, <1>8, <1>9 DEF n

\* The input is generated, the step is not phony_output, or the walk ends here.
LEMMA AddWaitKeeps ==
    ASSUME Inv, AddWait
    PROVE  Inv'
<1> USE DEF Inv
<1>1. AtInput /\ stack # <<>> /\ scan[Input] = "done" /\ Scanning
  BY DEF AddWait, AtInput
<1>2. UNCHANGED <<graph, visited, before, validations, scan, source, q, ready, npendings, added,
                  build, list, idx>>
  BY DEF AddWait, graphVars
<1>3. PICK s \in Step, i \in Nat \ {0}, n \in Nat \ {0}, u \in Target :
         /\ s = Top.step /\ i = Top.i /\ n = Len(stack) /\ u = Input
         /\ DOMAIN stack = 1..n /\ n \in DOMAIN stack /\ Top = stack[n]
         /\ s \notin InPlan /\ i \in DOMAIN Ins(graph, s) /\ u = Ins(graph, s)[i]
         /\ Ins(graph, s) \in Seq(Target)
  BY <1>1, TopFacts
<1>4. PICK must \in BOOLEAN : must <=> MustWait
  OBVIOUS
<1>5. must <=> InEdges(graph, u) # {}
  BY <1>1, <1>3, <1>4 DEF MustWait, ScanInv
<1>6. /\ waits' = IF must THEN [waits EXCEPT ![u] = Append(@, s)] ELSE waits
      /\ nwaits' = IF must THEN [nwaits EXCEPT ![s] = @ + 1] ELSE nwaits
  BY <1>3, <1>4 DEF AddWait
<1>7. waits' \in [Target -> Seq(Step)] /\ nwaits' \in [Step -> Nat]
  <2>1. Append(waits[u], s) \in Seq(Step) /\ nwaits[s] + 1 \in Nat
    <3>1. waits[u] \in Seq(Step) /\ nwaits[s] \in Nat
      BY DEF TypeOK
    <3> QED
      BY <3>1, Appended
  <2> QED
    BY <1>6, <2>1 DEF TypeOK
<1>8. /\ \A t \in Target : waits'[t] = IF must /\ t = u THEN Append(waits[t], s) ELSE waits[t]
      /\ \A r \in Step : nwaits'[r] = IF must /\ r = s THEN nwaits[r] + 1 ELSE nwaits[r]
  BY <1>6 DEF TypeOK
<1>9. ScanInv'
  BY <1>1, <1>2, <1>3, <1>8 DEF ScanInv
<1>10. QueueInv'
  BY <1>2 DEF QueueInv, Pushed, Free, InPlan
<1>11. CASE IllegalPhony
  <2>1. phase' = "phony_output" /\ UNCHANGED stack
    BY <1>11 DEF AddWait
  <2>2. TypeOK'
    BY <1>2, <1>7, <2>1 DEF TypeOK, Errors
  <2>3. StackInv' /\ VisitedInv' /\ ListInv'
    BY <1>2, <2>1 DEF StackInv, VisitedInv, ListInv, Live, OnStack, InPlan
  <2>4. WaitInv' /\ CycleInv'
    BY <2>1 DEF WaitInv, Live, CycleInv
  <2>5. OrderInv'
    BY <1>2, <2>1, OrderStays
  <2> QED
    BY <1>9, <1>10, <2>2, <2>3, <2>4, <2>5
<1>12. CASE ~IllegalPhony
  <2> DEFINE f == [stack[n] EXCEPT !.i = @ + 1]
  <2>1. stack' = [stack EXCEPT ![n] = f] /\ UNCHANGED phase
    BY <1>3, <1>12 DEF AddWait
  <2>2. stack[n] \in Frame /\ stack[n].step = s /\ stack[n].i = i
    BY <1>3, TypeFacts
  <2>3. f \in Frame /\ f.target = stack[n].target /\ f.step = s /\ f.i = i + 1
    BY <2>2 DEF Frame
  <2> HIDE DEF f
  <2>4. /\ stack' \in Seq(Frame) /\ DOMAIN stack' = 1..n
        /\ \A j \in 1..n : stack'[j] = IF j = n THEN f ELSE stack[j]
    BY <1>3, <2>1, <2>3 DEF TypeOK
  <2>5. TypeOK'
    BY <1>2, <1>7, <2>1, <2>4 DEF TypeOK
  <2>6. \A j \in 1..n : stack'[j].step = stack[j].step /\ stack'[j].target = stack[j].target
    BY <2>2, <2>3, <2>4
  <2>7. OnStack' = OnStack /\ InPlan' = InPlan
    BY <1>2, <1>3, <2>4, <2>6 DEF OnStack, InPlan
  <2>8. StackInv'
    <3>1. Len(Ins(graph, s)) \in Nat /\ i + 1 \in 1..Len(Ins(graph, s)) + 1
      BY <1>3, SeqElement
    <3>2. ASSUME NEW j \in 1..n
          PROVE  /\ stack'[j].step \in InEdges(graph, stack'[j].target)
                 /\ stack'[j].i \in 1..Len(Ins(graph, stack'[j].step)) + 1
                 /\ scan[stack'[j].target] = "visiting"
      BY <1>3, <2>3, <2>4, <2>6, <3>1 DEF StackInv
    <3>3. ASSUME NEW j \in 1..n, j + 1 \in 1..n
          PROVE  /\ stack'[j].i \in DOMAIN Ins(graph, stack'[j].step)
                 /\ Ins(graph, stack'[j].step)[stack'[j].i] = stack'[j + 1].target
      <4>1. j # n /\ stack'[j] = stack[j]
        BY <1>3, <2>4, <3>3
      <4> QED
        BY <1>3, <2>6, <3>3, <4>1 DEF StackInv
    <3>4. \A j, k \in 1..n : stack'[j].step = stack'[k].step => j = k
      <4>1. \A j, k \in 1..n : stack[j].step = stack[k].step => j = k
        BY <1>3 DEF StackInv
      <4> QED
        BY <2>6, <4>1
    <3>5. \A t \in Target : scan[t] = "visiting" => \E j \in 1..n : stack'[j].target = t
      <4>1. \A t \in Target : scan[t] = "visiting" => \E j \in 1..n : stack[j].target = t
        BY <1>1, <1>3 DEF StackInv, Live, Scanning
      <4> QED
        BY <2>6, <4>1
    <3>6. phase' # "finished"
      BY <1>1, <2>1 DEF Scanning
    <3> QED
      BY <1>2, <2>4, <3>2, <3>3, <3>4, <3>5, <3>6 DEF StackInv
  <2>9. VisitedInv' /\ ListInv'
    BY <1>2, <2>1, <2>7 DEF VisitedInv, ListInv, Live
  <2>10. CycleInv'
    BY <1>1, <2>1 DEF CycleInv, Scanning
  <2>11. OrderInv'
    <3>1. ASSUME NEW j \in 1..n, NEW k \in DOMAIN Ins(graph, stack'[j].step), k < stack'[j].i
          PROVE  scan[Ins(graph, stack'[j].step)[k]] = "done"
      <4>1. CASE j = n
        <5>1. k < i \/ k = i
          <6>1. k \in Nat /\ k < i + 1
            BY <1>3, <2>3, <2>4, <3>1, <4>1, SeqElement
          <6> QED
            BY <6>1
        <5>2. InputsDone(s, i)
          BY <1>3, <2>2 DEF OrderInv
        <5> QED
          BY <1>1, <1>3, <2>3, <2>4, <3>1, <4>1, <5>1, <5>2 DEF InputsDone
      <4>2. CASE j # n
        BY <1>3, <2>4, <3>1, <4>2 DEF OrderInv, InputsDone
      <4> QED
        BY <4>1, <4>2
    <3>2. \A j \in DOMAIN stack' : InputsDone(stack[j].step, stack[j].i)'
      BY <1>2, <2>4, <3>1 DEF InputsDone
    <3>3. \A k \in DOMAIN added : InputsDone(added[k], Len(Ins(graph, added[k])) + 1)'
      BY <1>2 DEF OrderInv, InputsDone
    <3> QED
      BY <1>2, <3>2, <3>3 DEF OrderInv, OneOutput
  <2>12. WaitInv'
    <3> DEFINE new == <<s, i>>
    <3>1. ASSUME NEW r \in Step, NEW sl \in SlotsOf(graph, r)
          PROVE  Passed(sl)' <=> Passed(sl) \/ (r = s /\ sl[2] = i)
      <4>1. sl[1] = r /\ sl[2] \in DOMAIN Ins(graph, r)
        BY <3>1, SlotFacts
      <4>3. Ins(graph, r) \in Seq(Target)
        BY GraphFacts DEF TypeOK
      <4>4. sl[2] \in Nat
        BY <4>1, <4>3
      <4>2. sl[2] < i + 1 <=> sl[2] < i \/ sl[2] = i
        BY <4>4
      <4> QED
        BY <1>3, <2>2, <2>3, <2>4, <2>6, <2>7, <4>1, <4>2 DEF Passed
    <3>2. \A sl : sl \in SlotsOf(graph, s) /\ sl[2] = i <=> must /\ sl = new
      BY <1>3, <1>5, SlotFacts
    <3>3. ~Passed(new)
      <4>1. \A j \in 1..n : stack[j].step = s => j = n
        BY <1>3, <2>2 DEF StackInv
      <4>2. new[1] = s /\ new[2] = i /\ ~(i < i)
        BY <1>3
      <4> HIDE DEF new
      <4> QED
        BY <1>3, <2>2, <4>1, <4>2 DEF Passed
    <3>4. SlotTarget(graph, new) = u
      BY <1>3 DEF SlotTarget
    <3> HIDE DEF new
    <3>5. \A r \in Step : SeenOf(r)' = IF must /\ r = s THEN SeenOf(r) \cup {new} ELSE SeenOf(r)
      <4> SUFFICES ASSUME NEW r \in Step
                   PROVE  SeenOf(r)' = IF must /\ r = s THEN SeenOf(r) \cup {new} ELSE SeenOf(r)
        OBVIOUS
      <4>1. SeenOf(r)' = {sl \in SlotsOf(graph, r) : Passed(sl)'}
        BY <1>2 DEF SeenOf
      <4>2. SeenOf(r)' = {sl \in SlotsOf(graph, r) : Passed(sl) \/ (r = s /\ sl[2] = i)}
        BY <3>1, <4>1
      <4>3. SeenOf(r) = {sl \in SlotsOf(graph, r) : Passed(sl)}
        BY DEF SeenOf
      <4> QED
        BY <3>2, <4>2, <4>3
    <3>6. \A t \in Target : \A r \in Step :
             SeenAt(t, r)' = IF must /\ r = s /\ t = u THEN SeenAt(t, r) \cup {new}
                             ELSE SeenAt(t, r)
      <4> SUFFICES ASSUME NEW t \in Target, NEW r \in Step
                   PROVE  SeenAt(t, r)' = IF must /\ r = s /\ t = u THEN SeenAt(t, r) \cup {new}
                                          ELSE SeenAt(t, r)
        OBVIOUS
      <4>1. SeenAt(t, r) = {sl \in SeenOf(r) : SlotTarget(graph, sl) = t}
        BY DEF SeenAt
      <4>2. SeenAt(t, r)' = {sl \in SeenOf(r)' : SlotTarget(graph, sl) = t}
        BY <1>2 DEF SeenAt, SlotTarget
      <4> QED
        BY <3>4, <3>5, <4>1, <4>2
    <3>7. \A r \in Step : IsFiniteSet(SeenOf(r)) /\ \A t \in Target : IsFiniteSet(SeenAt(t, r))
      BY SlotsAreFinite DEF SeenOf, SeenAt, TypeOK
    <3>8. new \notin SeenOf(s) /\ new \notin SeenAt(u, s)
      BY <3>3 DEF SeenOf, SeenAt
    <3>9. Live
      BY <1>1 DEF Live, Scanning
    <3>10. \A r \in Step : nwaits'[r] = Cardinality(SeenOf(r)')
      <4> SUFFICES ASSUME NEW r \in Step PROVE nwaits'[r] = Cardinality(SeenOf(r)')
        OBVIOUS
      <4>1. nwaits[r] = Cardinality(SeenOf(r))
        BY <3>9 DEF WaitInv
      <4>2. Cardinality(SeenOf(r) \cup {new}) =
               IF new \in SeenOf(r) THEN Cardinality(SeenOf(r)) ELSE Cardinality(SeenOf(r)) + 1
        BY <3>7, FS_AddElement
      <4> QED
        BY <1>8, <3>5, <3>8, <4>1, <4>2
    <3>11. \A t \in Target : \A r \in Step : Count(waits'[t], r) = Cardinality(SeenAt(t, r)')
      <4> SUFFICES ASSUME NEW t \in Target, NEW r \in Step
                   PROVE  Count(waits'[t], r) = Cardinality(SeenAt(t, r)')
        OBVIOUS
      <4>1. Count(waits[t], r) = Cardinality(SeenAt(t, r))
        BY <3>9 DEF WaitInv
      <4>2. Count(Append(waits[t], s), r) = IF r = s THEN Count(waits[t], r) + 1 ELSE Count(waits[t], r)
        <5>1. waits[t] \in Seq(Step)
          BY DEF TypeOK
        <5> QED
          BY <5>1, CountAppend
      <4>3. Cardinality(SeenAt(t, r) \cup {new}) =
               IF new \in SeenAt(t, r) THEN Cardinality(SeenAt(t, r)) ELSE Cardinality(SeenAt(t, r)) + 1
        BY <3>7, FS_AddElement
      <4> QED
        BY <1>8, <3>6, <3>8, <4>1, <4>2, <4>3
    <3> QED
      BY <3>10, <3>11 DEF WaitInv, Count
  <2> QED
    BY <1>9, <1>10, <2>5, <2>8, <2>9, <2>10, <2>11, <2>12
<1> QED
  BY <1>11, <1>12

\* scheduler.add: the step is pushed when it waits for nothing, counted otherwise.
LEMMA AddKeepsQueue ==
    ASSUME TypeOK, QueueInv, NEW s \in Step, s \notin InPlan, Add(s), UNCHANGED graph,
           nwaits[s] # 0 <=> SlotsOf(graph, s) # {}
    PROVE  /\ QueueInv'
           /\ q' \in Seq(Step) /\ ready' \in Seq(Step) /\ npendings' \in Nat
<1>1. PICK m \in Nat : m = Len(added)
  BY TypeFacts
<1>2. /\ added' \in Seq(Step) /\ Len(added') = m + 1
      /\ DOMAIN added = 1..m /\ DOMAIN added' = 1..(m + 1)
      /\ \A i \in 1..m : added'[i] = added[i]
      /\ added'[m + 1] = s
      /\ InPlan' = InPlan \cup {s}
  <2>1. added' = Append(added, s) /\ added \in Seq(Step)
    BY DEF Add, TypeOK
  <2>2. /\ Append(added, s) \in Seq(Step) /\ Len(Append(added, s)) = m + 1
        /\ DOMAIN added = 1..m /\ DOMAIN Append(added, s) = 1..(m + 1)
        /\ \A i \in 1..m : Append(added, s)[i] = added[i]
        /\ Append(added, s)[m + 1] = s
        /\ Range(Append(added, s)) = Range(added) \cup {s}
    BY <1>1, <2>1, Appended
  <2> QED
    BY <2>1, <2>2 DEF InPlan
<1>3. \A k \in 0..m : Free(k)' = Free(k)
  <2> SUFFICES ASSUME NEW k \in 0..m PROVE Free(k)' = Free(k)
    OBVIOUS
  <2>1. \A i \in 1..k : added'[i] = added[i]
    BY <1>2
  <2> QED
    BY <2>1 DEF Free
<1>4. /\ Free(Len(added)) = Free(m)
      /\ Free(Len(added))' = IF SlotsOf(graph, s) = {} THEN Free(m) \cup {m + 1} ELSE Free(m)
      /\ Free(m + 1)' = Free(Len(added))'
  <2>1. Free(Len(added))' = {i \in 1..(m + 1) : SlotsOf(graph, added'[i]) = {}}
    BY <1>2 DEF Free
  <2>2. Free(m + 1)' = {i \in 1..(m + 1) : SlotsOf(graph, added'[i]) = {}}
    BY DEF Free
  <2>3. Free(m) = {i \in 1..m : SlotsOf(graph, added[i]) = {}}
    BY DEF Free
  <2>4. \A i : i \in 1..(m + 1) <=> i \in 1..m \/ i = m + 1
    OBVIOUS
  <2>5. \A i \in 1..m : SlotsOf(graph, added'[i]) = SlotsOf(graph, added[i])
    BY <1>2
  <2>6. {i \in 1..(m + 1) : SlotsOf(graph, added'[i]) = {}} =
           IF SlotsOf(graph, s) = {} THEN Free(m) \cup {m + 1} ELSE Free(m)
    BY <1>2, <2>3, <2>4, <2>5
  <2> QED
    BY <1>1, <2>1, <2>2, <2>6
<1>5. /\ IsFiniteSet(Free(m)) /\ m + 1 \notin Free(m) /\ Cardinality(Free(m)) \in Nat
      /\ \A k \in Free(m) : k \in 1..m /\ Cardinality(Free(k)) \in 1..Cardinality(Free(m))
  <2>1. IsFiniteSet(1..m) /\ Free(m) \subseteq 1..m /\ m + 1 \notin 1..m
    BY FS_Interval DEF Free
  <2>2. IsFiniteSet(Free(m)) /\ Cardinality(Free(m)) \in Nat
    BY <2>1, FS_Subset, FS_CardinalityType
  <2>3. ASSUME NEW k \in Free(m) PROVE Cardinality(Free(k)) \in 1..Cardinality(Free(m))
    <3>1. k \in Free(k) /\ Free(k) \subseteq Free(m)
      BY <2>3 DEF Free
    <3>2. IsFiniteSet(Free(k)) /\ Cardinality(Free(k)) <= Cardinality(Free(m))
      BY <2>2, <3>1, FS_Subset
    <3>3. Cardinality(Free(k)) \in Nat /\ Cardinality(Free(k)) # 0
      BY <3>1, <3>2, FS_CardinalityType, FS_EmptySet
    <3> QED
      BY <2>2, <3>2, <3>3
  <2> QED
    BY <2>1, <2>2, <2>3
<1>6. /\ Pushed \in Seq(Step) /\ Len(Pushed) = Cardinality(Free(m))
      /\ \A k \in Free(m) : Pushed[Cardinality(Free(k))] = added[k]
      /\ Len(q) \in Nat /\ Len(q) <= QCap /\ QCap \in Nat \ {0}
  <2>1. q \o ready \in Seq(Step) /\ Len(q) \in Nat
    BY DEF TypeOK
  <2> QED
    BY <1>4, <2>1, SchedulerAssumption DEF QueueInv, Pushed
<1>7. /\ \A S : S = {r \in InPlan : SlotsOf(graph, r) # {}} =>
                  IsFiniteSet(S) /\ s \notin S /\ npendings = Cardinality(S)
      /\ {r \in InPlan : SlotsOf(graph, r) # {}}' =
           IF SlotsOf(graph, s) = {} THEN {r \in InPlan : SlotsOf(graph, r) # {}}
           ELSE {r \in InPlan : SlotsOf(graph, r) # {}} \cup {s}
  <2>1. InPlan \subseteq Step
    BY SeqElement DEF InPlan, TypeOK
  <2>2. IsFiniteSet({r \in InPlan : SlotsOf(graph, r) # {}})
    BY <2>1, GraphAssumption, FS_Subset
  <2> QED
    BY <1>2, <2>2 DEF QueueInv
<1>8. CASE SlotsOf(graph, s) = {}
  <2>1. /\ npendings' = npendings
        /\ IF Len(q) < QCap THEN q' = Append(q, s) /\ ready' = ready
                            ELSE ready' = Append(ready, s) /\ q' = q
    BY <1>8 DEF Add
  <2>2. /\ q' \in Seq(Step) /\ ready' \in Seq(Step) /\ Pushed' = Append(Pushed, s)
        /\ Len(q') <= QCap /\ (ready' # <<>> => Len(q') = QCap)
    <3>1. CASE Len(q) < QCap
      <4>1. ready = <<>>
        BY <1>6, <3>1 DEF QueueInv
      <4>2. /\ Append(q, s) \in Seq(Step) /\ Len(Append(q, s)) = Len(q) + 1
            /\ Append(q, s) \o <<>> = Append(q, s) /\ q \o <<>> = q
        BY DEF TypeOK
      <4>3. Pushed = q /\ Pushed' = Append(q, s)
        BY <2>1, <3>1, <4>1, <4>2 DEF Pushed
      <4> QED
        BY <1>6, <2>1, <3>1, <4>1, <4>2, <4>3
    <3>2. CASE ~(Len(q) < QCap)
      <4>3. /\ Append(ready, s) = ready \o <<s>>
            /\ Append(q \o ready, s) = (q \o ready) \o <<s>>
        BY <1>6, AppendIsConcat DEF TypeOK, Pushed
      <4>4. (q \o ready) \o <<s>> = q \o (ready \o <<s>>)
        <5>1. <<s>> \in Seq(Step)
          OBVIOUS
        <5>2. q \in Seq(Step) /\ ready \in Seq(Step)
          BY DEF TypeOK
        <5> QED
          BY <5>1, <5>2, ConcatAssociative, SMTT(60)
      <4>1. /\ Append(ready, s) \in Seq(Step)
            /\ q \o Append(ready, s) = Append(q \o ready, s)
        BY <4>3, <4>4, Appended DEF TypeOK
      <4>2. Len(q) = QCap
        BY <1>6, <3>2
      <4>5. ready' = Append(ready, s) /\ q' = q /\ q \in Seq(Step)
        BY <2>1, <3>2 DEF TypeOK
      <4>6. Pushed' = Append(Pushed, s)
        BY <4>1, <4>5 DEF Pushed
      <4> QED
        BY <1>6, <4>1, <4>2, <4>5, <4>6
    <3> QED
      BY <3>1, <3>2
  <2>3. /\ Len(Pushed') = Len(Pushed) + 1 /\ Pushed'[Len(Pushed) + 1] = s
        /\ \A i \in 1..Len(Pushed) : Pushed'[i] = Pushed[i]
    BY <1>6, <2>2, Appended
  <2>4. Free(Len(added))' = Free(m) \cup {m + 1} /\ Free(m + 1)' = Free(m) \cup {m + 1}
    BY <1>4, <1>8
  <2>5. Cardinality(Free(m) \cup {m + 1}) = Cardinality(Free(m)) + 1
    BY <1>5, FS_AddElement
  <2>6. \A k \in Free(m) \cup {m + 1} : Pushed'[Cardinality(Free(k)')] = added'[k]
    <3>1. ASSUME NEW k \in Free(m) PROVE Pushed'[Cardinality(Free(k)')] = added'[k]
      <4>1. k \in 1..m /\ k \in 0..m /\ Cardinality(Free(k)) \in 1..Len(Pushed)
        BY <1>5, <1>6, <3>1
      <4>2. Free(k)' = Free(k)
        BY <1>3, <4>1
      <4> QED
        BY <1>2, <1>6, <2>3, <3>1, <4>1, <4>2
    <3>2. Pushed'[Cardinality(Free(m + 1)')] = added'[m + 1]
      BY <1>2, <1>6, <2>3, <2>4, <2>5
    <3> QED
      BY <3>1, <3>2
  <2>7. \A k \in Free(Len(added))' : Pushed'[Cardinality(Free(k)')] = added'[k]
    BY <2>4, <2>6
  <2>8. Len(Pushed') = Cardinality(Free(Len(added))')
    BY <1>6, <2>3, <2>4, <2>5
  <2>9. npendings' = Cardinality({r \in InPlan : SlotsOf(graph, r) # {}}') /\ npendings' \in Nat
    BY <1>7, <1>8, <2>1 DEF TypeOK
  <2> QED
    BY <2>2, <2>7, <2>8, <2>9 DEF QueueInv
<1>9. CASE SlotsOf(graph, s) # {}
  <2>1. npendings' = npendings + 1 /\ q' = q /\ ready' = ready
    BY <1>9 DEF Add, CountPending
  <2>2. /\ q' \in Seq(Step) /\ ready' \in Seq(Step) /\ Pushed' = Pushed
        /\ Len(q') <= QCap /\ (ready' # <<>> => Len(q') = QCap)
    BY <2>1 DEF Pushed, TypeOK, QueueInv
  <2>3. Free(Len(added))' = Free(m)
    BY <1>4, <1>9
  <2>4. \A k \in Free(Len(added))' : Pushed'[Cardinality(Free(k)')] = added'[k]
    <3> SUFFICES ASSUME NEW k \in Free(m) PROVE Pushed'[Cardinality(Free(k)')] = added'[k]
      BY <2>3
    <3>1. k \in 1..m /\ k \in 0..m
      BY <1>5
    <3> QED
      BY <1>2, <1>3, <1>6, <2>2, <3>1
  <2>5. Len(Pushed') = Cardinality(Free(Len(added))')
    BY <1>6, <2>2, <2>3
  <2>6. npendings' = Cardinality({r \in InPlan : SlotsOf(graph, r) # {}}') /\ npendings' \in Nat
    <3> DEFINE S == {r \in InPlan : SlotsOf(graph, r) # {}}
    <3>1. /\ IsFiniteSet(S) /\ s \notin S /\ npendings = Cardinality(S) /\ S' = S \cup {s}
      BY <1>7, <1>9
    <3> HIDE DEF S
    <3>2. npendings' = Cardinality(S')
      BY <2>1, <3>1, FS_AddElement
    <3>3. npendings' \in Nat
      BY <2>1 DEF TypeOK
    <3> QED
      BY <3>2, <3>3 DEF S
  <2> QED
    BY <2>2, <2>4, <2>5, <2>6 DEF QueueInv
<1> QED
  BY <1>8, <1>9

\* All inputs are visited: the step joins the plan and its call returns.
LEMMA AddStepKeeps ==
    ASSUME Inv, AddStep
    PROVE  Inv'
<1> USE DEF Inv
<1>1. Scanning /\ stack # <<>>
  BY DEF AddStep
<1>2. UNCHANGED <<graph, visited, before, validations, source, waits, nwaits, build, list, idx, phase>>
  BY DEF AddStep, graphVars
<1>3. PICK s \in Step, n \in Nat \ {0}, t \in Target :
         /\ s = Top.step /\ n = Len(stack) /\ t = Top.target
         /\ DOMAIN stack = 1..n /\ n \in DOMAIN stack /\ Top = stack[n]
         /\ s \notin InPlan /\ s \in visited /\ s \in InEdges(graph, t) /\ scan[t] = "visiting"
         /\ Ins(graph, s) \in Seq(Target)
  BY <1>1, TopFacts
<1>4. stack[n].step = s /\ stack[n].target = t /\ stack[n].i \in Nat /\ stack[n].i > Len(Ins(graph, s))
  BY <1>3, TopFacts DEF AddStep
<1>5. /\ stack' \in Seq(Frame) /\ DOMAIN stack' = 1..(n - 1)
      /\ \A j \in 1..(n - 1) : stack'[j] = stack[j] /\ j \in 1..n /\ j # n
      /\ \A j \in 1..n : j = n \/ j \in 1..(n - 1)
  <2>1. stack' = Front(stack) /\ stack \in Seq(Frame)
    BY DEF AddStep, TypeOK
  <2>2. /\ Front(stack) \in Seq(Frame) /\ DOMAIN Front(stack) = 1..(n - 1)
        /\ \A j \in 1..(n - 1) : Front(stack)[j] = stack[j]
    BY <1>1, <1>3, <2>1, Shortened
  <2> QED
    BY <2>1, <2>2
<1>6. /\ added' = Append(added, s) /\ Add(s)
      /\ scan' = [u \in Target |-> IF u \in MarkedDone(Top) THEN "done" ELSE scan[u]]
  BY <1>3 DEF AddStep, Add
<1>7. PICK D \in SUBSET Target :
         /\ t \in D
         /\ \A u \in D : (u = t \/ scan[u] = "not-visited") /\ s \in InEdges(graph, u)
         /\ \A u \in Target : scan'[u] = IF u \in D THEN "done" ELSE scan[u]
  <2>1. \A u \in MarkedDone(Top) : u \in Range(graph.outs[s]) /\ (u = t \/ scan[u] = "not-visited")
    BY <1>3, GraphFacts DEF MarkedDone, TypeOK
  <2>2. MarkedDone(Top) \subseteq Target /\ \A u \in MarkedDone(Top) : s \in InEdges(graph, u)
    BY <2>1, GraphFacts DEF TypeOK
  <2>3. t \in MarkedDone(Top)
    BY <1>3 DEF MarkedDone
  <2>4. \A u \in Target : scan'[u] = IF u \in MarkedDone(Top) THEN "done" ELSE scan[u]
    BY <1>6
  <2> QED
    BY <2>1, <2>2, <2>3, <2>4
<1>8. \A u \in Target : /\ scan[u] = "done" => scan'[u] = "done"
                        /\ scan'[u] = "visiting" <=> scan[u] = "visiting" /\ u # t
  BY <1>3, <1>7
<1>9. \A j \in 1..(n - 1) : /\ stack[j].step # s /\ stack[j].target # t
                            /\ stack[j].target \in Target /\ stack[j].step \in Step
  <2> SUFFICES ASSUME NEW j \in 1..(n - 1)
               PROVE  /\ stack[j].step # s /\ stack[j].target # t
                      /\ stack[j].target \in Target /\ stack[j].step \in Step
    OBVIOUS
  <2>1. j \in DOMAIN stack /\ j # n
    BY <1>3, <1>5
  <2>2. stack[j].step \in InEdges(graph, stack[j].target) /\ stack[j].target \in Target /\ stack[j].step \in Step
    BY <2>1, TypeFacts DEF StackInv
  <2>3. stack[j].step # s
    BY <1>3, <1>4, <2>1 DEF StackInv
  <2> QED
    BY <1>3, <2>2, <2>3, GraphFacts DEF TypeOK
<1>10. /\ InPlan' = InPlan \cup {s} /\ OnStack' = OnStack \ {s} /\ s \in OnStack
       /\ added' \in Seq(Step)
  <2>1. InPlan' = InPlan \cup {s} /\ added' \in Seq(Step)
    BY <1>6, Appended DEF InPlan, TypeOK
  <2>2. OnStack = {stack[j].step : j \in 1..n} /\ OnStack' = {stack'[j].step : j \in 1..(n - 1)}
    BY <1>3, <1>5 DEF OnStack
  <2>3. \A r \in OnStack' : r \in OnStack /\ r # s
    BY <1>5, <1>9, <2>2
  <2>4. \A r \in OnStack : r # s => r \in OnStack'
    BY <1>4, <1>5, <2>2
  <2>5. s \in OnStack
    BY <1>3, <1>4, <2>2
  <2> QED
    BY <2>1, <2>3, <2>4, <2>5
<1>11. nwaits[s] # 0 <=> SlotsOf(graph, s) # {}
  <2>1. ASSUME NEW sl \in SlotsOf(graph, s) PROVE Passed(sl)
    <3>1. sl[1] = s /\ sl[2] \in DOMAIN Ins(graph, s)
      BY <2>1, SlotFacts
    <3>2. sl[2] \in Nat /\ sl[2] <= Len(Ins(graph, s)) /\ Len(Ins(graph, s)) \in Nat
      BY <1>3, <3>1, SeqElement
    <3>3. sl[2] < stack[n].i
      BY <1>4, <3>2
    <3> QED
      BY <1>3, <1>4, <3>1, <3>3 DEF Passed
  <2>2. SeenOf(s) = SlotsOf(graph, s)
    BY <2>1 DEF SeenOf
  <2>3. nwaits[s] = Cardinality(SlotsOf(graph, s))
    BY <1>1, <2>2 DEF WaitInv, Live, Scanning
  <2>4. IsFiniteSet(SlotsOf(graph, s))
    BY SlotsAreFinite DEF TypeOK
  <2> QED
    BY <2>3, <2>4, FS_EmptySet
<1>12. QueueInv' /\ q' \in Seq(Step) /\ ready' \in Seq(Step) /\ npendings' \in Nat
  BY <1>2, <1>3, <1>6, <1>11, AddKeepsQueue
<1>13. TypeOK'
  <2>1. scan' \in [Target -> {"not-visited", "visiting", "done"}]
    BY <1>6 DEF TypeOK
  <2> QED
    BY <1>2, <1>5, <1>10, <1>12, <2>1 DEF TypeOK
<1>14. StackInv'
  <2>1. \A j \in 1..(n - 1) :
           /\ stack'[j].step \in InEdges(graph, stack'[j].target)
           /\ stack'[j].i \in 1..Len(Ins(graph, stack'[j].step)) + 1
           /\ scan'[stack'[j].target] = "visiting"
    <3>1. \A j \in 1..(n - 1) :
             /\ stack[j].step \in InEdges(graph, stack[j].target)
             /\ stack[j].i \in 1..Len(Ins(graph, stack[j].step)) + 1
             /\ scan[stack[j].target] = "visiting"
      BY <1>3, <1>5 DEF StackInv
    <3> QED
      BY <1>5, <1>8, <1>9, <3>1
  <2>2. \A j \in 1..(n - 1) : j + 1 \in 1..(n - 1) =>
           /\ stack'[j].i \in DOMAIN Ins(graph, stack'[j].step)
           /\ Ins(graph, stack'[j].step)[stack'[j].i] = stack'[j + 1].target
    <3>1. \A j \in 1..n : j + 1 \in 1..n =>
             /\ stack[j].i \in DOMAIN Ins(graph, stack[j].step)
             /\ Ins(graph, stack[j].step)[stack[j].i] = stack[j + 1].target
      BY <1>3 DEF StackInv
    <3> QED
      BY <1>5, <3>1
  <2>3. \A i, j \in 1..(n - 1) : stack'[i].step = stack'[j].step => i = j
    <3>1. \A i, j \in 1..n : stack[i].step = stack[j].step => i = j
      BY <1>3 DEF StackInv
    <3> QED
      BY <1>5, <3>1
  <2>4. \A u \in Target : scan'[u] = "visiting" => \E j \in 1..(n - 1) : stack'[j].target = u
    <3>1. \A u \in Target : scan[u] = "visiting" => \E j \in 1..n : stack[j].target = u
      BY <1>1, <1>3 DEF StackInv, Live, Scanning
    <3> QED
      BY <1>4, <1>5, <1>8, <3>1
  <2>5. phase' # "finished"
    BY <1>1, <1>2 DEF Scanning
  <2> QED
    BY <1>2, <1>5, <2>1, <2>2, <2>3, <2>4, <2>5 DEF StackInv
<1>15. PICK m \in Nat :
          /\ m = Len(added) /\ DOMAIN added = 1..m /\ DOMAIN added' = 1..(m + 1)
          /\ \A k \in 1..m : added'[k] = added[k] /\ added[k] \in InPlan /\ added[k] \in Step
          /\ added'[m + 1] = s
          /\ \A k \in 1..(m + 1) : k \in 1..m \/ k = m + 1
  <2>1. added \in Seq(Step) /\ Len(added) \in Nat
    BY TypeFacts DEF TypeOK
  <2>2. /\ DOMAIN added = 1..Len(added) /\ DOMAIN added' = 1..(Len(added) + 1)
        /\ \A k \in 1..Len(added) : added'[k] = added[k]
        /\ added'[Len(added) + 1] = s
    BY <1>6, <2>1, Appended
  <2>3. \A k \in DOMAIN added : added[k] \in InPlan /\ added[k] \in Step
    BY TypeFacts DEF InPlan, Range
  <2>4. \A k \in 1..(Len(added) + 1) : k \in 1..Len(added) \/ k = Len(added) + 1
    BY <2>1
  <2>5. \A k \in 1..Len(added) : added'[k] = added[k] /\ added[k] \in InPlan /\ added[k] \in Step
    BY <2>2, <2>3
  <2> QED
    BY <2>1, <2>2, <2>4, <2>5
<1>16. VisitedInv'
  <2>1. \A i, j \in 1..(m + 1) : added'[i] = added'[j] => i = j
    <3>1. \A i, j \in 1..m : added[i] = added[j] => i = j
      BY <1>15 DEF VisitedInv
    <3> QED
      BY <1>3, <1>15, <3>1
  <2> QED
    BY <1>2, <1>3, <1>10, <1>15, <2>1 DEF VisitedInv, Live
<1>17. ScanInv'
  <2>1. \A u \in Target : scan'[u] = "done" =>
           InEdges(graph, u) \subseteq visited /\ (InEdges(graph, u) = {} => u \in source)
    <3>1. ASSUME NEW u \in D
          PROVE  InEdges(graph, u) \subseteq visited /\ InEdges(graph, u) # {}
      <4>1. u \in Target /\ s \in InEdges(graph, u) /\ s \in visited
        BY <1>3, <1>7
      <4>2. \A p, r \in InEdges(graph, u) : p = r
        BY <4>1, GraphFacts DEF TypeOK
      <4> QED
        BY <4>1, <4>2
    <3> QED
      BY <1>7, <3>1 DEF ScanInv
  <2> QED
    BY <1>2, <1>8, <2>1 DEF ScanInv
<1>18. ListInv'
  BY <1>2, <1>8, TypeFacts DEF ListInv
<1>19. WaitInv'
  <2>1. ASSUME NEW r \in Step, NEW sl \in SlotsOf(graph, r) PROVE Passed(sl)' <=> Passed(sl)
    <3>1. sl[1] = r /\ sl[2] \in DOMAIN Ins(graph, r)
      BY <2>1, SlotFacts
    <3>2. CASE r = s
      <4>1. sl[2] \in Nat /\ sl[2] <= Len(Ins(graph, s)) /\ Len(Ins(graph, s)) \in Nat
        BY <1>3, <3>1, <3>2, SeqElement
      <4>2. sl[2] < stack[n].i
        BY <1>4, <4>1
      <4>3. Passed(sl)
        BY <1>3, <1>4, <3>1, <3>2, <4>2 DEF Passed
      <4>4. Passed(sl)'
        BY <1>10, <3>1, <3>2 DEF Passed
      <4> QED
        BY <4>3, <4>4
    <3>3. CASE r # s
      <4>1. r \in InPlan' <=> r \in InPlan
        BY <1>10, <3>3
      <4>2. (\E j \in 1..(n - 1) : stack'[j].step = r /\ sl[2] < stack'[j].i)
               <=> (\E j \in 1..n : stack[j].step = r /\ sl[2] < stack[j].i)
        BY <1>4, <1>5, <3>3
      <4> QED
        BY <1>3, <1>5, <3>1, <4>1, <4>2 DEF Passed
    <3> QED
      BY <3>2, <3>3
  <2>2. \A r \in Step : SeenOf(r)' = SeenOf(r)
    BY <1>2, <2>1 DEF SeenOf
  <2>3. \A u : \A r \in Step : SeenAt(u, r)' = SeenAt(u, r)
    BY <1>2, <2>2 DEF SeenAt
  <2> QED
    BY <1>2, <2>2, <2>3 DEF WaitInv, Live
<1>20. OrderInv'
  <2>1. \A r \in Step : \A i \in DOMAIN Ins(graph, r) : Ins(graph, r)[i] \in Target
    BY GraphFacts, SeqElement DEF TypeOK
  <2>2. \A j \in 1..(n - 1) : \A i \in DOMAIN Ins(graph, stack'[j].step) :
           i < stack'[j].i => scan'[Ins(graph, stack'[j].step)[i]] = "done"
    <3>1. \A j \in 1..n : \A i \in DOMAIN Ins(graph, stack[j].step) :
             i < stack[j].i => scan[Ins(graph, stack[j].step)[i]] = "done"
      BY <1>3 DEF OrderInv, InputsDone
    <3> QED
      BY <1>5, <1>8, <1>9, <2>1, <3>1
  <2>3. \A i \in DOMAIN Ins(graph, s) : scan[Ins(graph, s)[i]] = "done"
    <3>1. InputsDone(s, stack[n].i)
      BY <1>3, <1>4 DEF OrderInv
    <3>2. \A i \in DOMAIN Ins(graph, s) : i < stack[n].i
      <4>1. Len(Ins(graph, s)) \in Nat /\ DOMAIN Ins(graph, s) = 1..Len(Ins(graph, s))
        BY <1>3, SeqElement
      <4> QED
        BY <1>4, <4>1
    <3> QED
      BY <3>1, <3>2 DEF InputsDone
  <2>4. \A k \in 1..(m + 1) : \A i \in DOMAIN Ins(graph, added'[k]) :
           scan[Ins(graph, added'[k])[i]] = "done" /\ Ins(graph, added'[k])[i] \in Target
    <3>1. ASSUME NEW k \in 1..m, NEW i \in DOMAIN Ins(graph, added[k])
          PROVE  scan[Ins(graph, added[k])[i]] = "done"
      <4>1. InputsDone(added[k], Len(Ins(graph, added[k])) + 1)
        BY <1>15 DEF OrderInv
      <4>2. Ins(graph, added[k]) \in Seq(Target)
        BY <1>15, GraphFacts DEF TypeOK
      <4>3. i < Len(Ins(graph, added[k])) + 1
        BY <3>1, <4>2, SeqElement
      <4> QED
        BY <4>1, <4>3 DEF InputsDone
    <3> SUFFICES ASSUME NEW k \in 1..(m + 1), NEW i \in DOMAIN Ins(graph, added'[k])
                 PROVE  /\ scan[Ins(graph, added'[k])[i]] = "done"
                        /\ Ins(graph, added'[k])[i] \in Target
      OBVIOUS
    <3>2. CASE k \in 1..m
      <4>1. added'[k] = added[k] /\ added[k] \in Step
        BY <1>15, <3>2
      <4> QED
        BY <2>1, <3>1, <3>2, <4>1
    <3>3. CASE k = m + 1
      <4>1. added'[k] = s
        BY <1>15, <3>3
      <4> QED
        BY <2>1, <2>3, <4>1
    <3> QED
      BY <1>15, <3>2, <3>3
  <2>5. \A k \in 1..(m + 1) : \A i \in DOMAIN Ins(graph, added'[k]) :
           scan'[Ins(graph, added'[k])[i]] = "done"
    BY <1>8, <2>4
  <2>6. \A k \in 1..(m + 1) : \A i \in DOMAIN Ins(graph, added'[k]) :
           s \in InEdges(graph, Ins(graph, added'[k])[i]) => ~OneOutput(s)
    <3> SUFFICES ASSUME NEW k \in 1..(m + 1), NEW i \in DOMAIN Ins(graph, added'[k]),
                        s \in InEdges(graph, Ins(graph, added'[k])[i]), OneOutput(s)
                 PROVE  FALSE
      OBVIOUS
    <3>1. PICK u \in Target : u = Ins(graph, added'[k])[i] /\ scan[u] = "done"
      BY <2>4
    <3>2. u \in Range(graph.outs[s]) /\ t \in Range(graph.outs[s])
      BY <1>3, <3>1, GraphFacts DEF TypeOK
    <3>3. u = t
      BY <3>2 DEF OneOutput
    <3> QED
      BY <1>3, <3>1, <3>3
  <2>7. \A k \in 1..(m + 1) : \A i \in DOMAIN Ins(graph, added'[k]) : \A l \in 1..(m + 1) :
           added'[l] \in InEdges(graph, Ins(graph, added'[k])[i]) /\ OneOutput(added'[l]) => l < k
    <3> SUFFICES ASSUME NEW k \in 1..(m + 1), NEW i \in DOMAIN Ins(graph, added'[k]),
                        NEW l \in 1..(m + 1),
                        added'[l] \in InEdges(graph, Ins(graph, added'[k])[i]),
                        OneOutput(added'[l])
                 PROVE  l < k
      OBVIOUS
    <3>1. l \in 1..m
      BY <1>15, <2>6
    <3>2. CASE k = m + 1
      BY <3>1, <3>2
    <3>3. CASE k \in 1..m
      BY <1>15, <3>1, <3>3 DEF OrderInv
    <3> QED
      BY <1>15, <3>2, <3>3
  <2>8. \A j \in DOMAIN stack' : InputsDone(stack[j].step, stack[j].i)'
    BY <1>2, <1>5, <2>2 DEF InputsDone
  <2>9. \A k \in DOMAIN added' : InputsDone(added[k], Len(Ins(graph, added[k])) + 1)'
    BY <1>2, <1>15, <2>5 DEF InputsDone
  <2> QED
    BY <1>2, <1>15, <2>7, <2>8, <2>9 DEF OrderInv, OneOutput
<1>21. CycleInv'
  BY <1>1, <1>2 DEF CycleInv, Scanning
<1> QED
  BY <1>12, <1>13, <1>14, <1>16, <1>17, <1>18, <1>19, <1>20, <1>21

-----------------------------------------------------------------------------
(***************************************************************************)
(* schedule                                                                *)
(***************************************************************************)
\* schedule moves along the list.
LEMMA ControlKeeps ==
    ASSUME Inv, Scanning, stack = <<>>, UNCHANGED <<graphVars, planVars, build, stack>>,
           idx' \in Nat \ {0}, list' \in Seq(Target),
           phase' \in {"targets", "validations", "finished"}, ListInv'
    PROVE  Inv'
<1> USE DEF Inv
<1>1. UNCHANGED <<graph, visited, before, validations, scan, source, waits, nwaits, q, ready, npendings,
                  added, build, stack>>
  BY DEF graphVars, planVars
<1>2. Live /\ Live'
  BY DEF Live, Scanning
<1>3. TypeOK'
  BY <1>1 DEF TypeOK
<1>4. StackInv' /\ VisitedInv' /\ ScanInv'
  BY <1>1, <1>2 DEF StackInv, VisitedInv, ScanInv, OnStack, InPlan
<1>5. WaitInv'
  BY <1>1, <1>2, SameSeen DEF WaitInv
<1>6. QueueInv'
  BY <1>1 DEF QueueInv, Pushed, Free, InPlan
<1>7. OrderInv'
  BY <1>1, OrderStays
<1>8. CycleInv'
  BY DEF CycleInv
<1> QED
  BY <1>3, <1>4, <1>5, <1>6, <1>7, <1>8

\* The state a build starts in.
Fresh ==
    /\ graph \in Graphs /\ visited \subseteq Step /\ validations \in Seq(Target)
    /\ NewPlan
    /\ build \in 1..Len(graph.builds) /\ visited \subseteq before
    /\ list = graph.builds[build] /\ idx = 1 /\ stack = <<>> /\ phase = "targets"

\* An empty plan has the invariant, whatever earlier builds visited.
LEMMA FreshInv == Fresh => Inv
<1> SUFFICES ASSUME Fresh PROVE Inv
  OBVIOUS
<1>1. TypeOK
  <2>1. list \in Seq(Target)
    <3>1. graph.builds \in Seq(Seq(Target)) /\ build \in 1..Len(graph.builds)
      BY GraphFacts DEF Fresh
    <3> QED
      BY <3>1 DEF Fresh
  <2>2. /\ scan \in [Target -> {"not-visited", "visiting", "done"}]
        /\ waits \in [Target -> Seq(Step)] /\ nwaits \in [Step -> Nat]
    BY DEF Fresh, NewPlan
  <2> QED
    BY <2>1, <2>2 DEF TypeOK, Fresh, NewPlan
<1>2. DOMAIN stack = {} /\ DOMAIN added = {} /\ InPlan = {} /\ OnStack = {} /\ Len(added) = 0
  BY DEF Fresh, NewPlan, InPlan, OnStack, Range
<1>3. StackInv /\ VisitedInv /\ ScanInv
  BY <1>2 DEF StackInv, VisitedInv, ScanInv, Fresh, NewPlan
<1>4. ListInv
  BY TypeFacts, <1>1 DEF ListInv, Fresh
<1>5. WaitInv
  <2>1. \A sl : ~Passed(sl)
    BY <1>2 DEF Passed
  <2>2. \A s : SeenOf(s) = {}
    BY <2>1 DEF SeenOf
  <2>3. \A t, s : SeenAt(t, s) = {}
    BY <2>2 DEF SeenAt
  <2>4. \A t \in Target : \A s : Count(waits[t], s) = Cardinality({})
    <3> SUFFICES ASSUME NEW t \in Target, NEW s PROVE Count(waits[t], s) = Cardinality({})
      OBVIOUS
    <3>1. waits[t] = <<>>
      BY DEF Fresh, NewPlan
    <3>2. {i \in DOMAIN waits[t] : waits[t][i] = s} = {}
      BY <3>1
    <3> QED
      BY <3>2 DEF Count
  <2>5. \A s \in Step : nwaits[s] = 0
    BY DEF Fresh, NewPlan
  <2> QED
    BY <2>2, <2>3, <2>4, <2>5, FS_EmptySet DEF WaitInv
<1>6. QueueInv
  <2>1. q = <<>> /\ ready = <<>> /\ npendings = 0
    BY DEF Fresh, NewPlan
  <2>2. Free(Len(added)) = {}
    BY <1>2 DEF Free
  <2>3. Pushed = <<>> /\ Len(Pushed) = 0 /\ Len(q) = 0
    BY <2>1 DEF Pushed
  <2>4. {s \in InPlan : SlotsOf(graph, s) # {}} = {}
    BY <1>2
  <2> QED
    BY <2>1, <2>2, <2>3, <2>4, FS_EmptySet, SchedulerAssumption DEF QueueInv
<1>7. OrderInv /\ CycleInv
  BY <1>2 DEF OrderInv, CycleInv, Fresh
<1> QED
  BY <1>1, <1>3, <1>4, <1>5, <1>6, <1>7 DEF Inv

\* Every step of the walk keeps the invariant.
LEMMA NextKeeps == Inv /\ [Next]_vars => Inv'
<1> SUFFICES ASSUME Inv, [Next]_vars PROVE Inv'
  OBVIOUS
<1>1. CASE NoTargets
  BY <1>1, FailKeeps DEF NoTargets, Errors
<1>2. CASE NextTarget
  <2>1. list[idx] \in Target
    BY <1>2, TypeFacts DEF NextTarget, Inv, TypeOK
  <2> QED
    BY <1>2, <2>1, EnterKeeps DEF NextTarget
<1>3. CASE Descend
  <2>1. AtInput /\ stack # <<>> /\ Scanning
    BY <1>3 DEF Descend, AtInput
  <2>2. Input \in Target
    BY <2>1, TopFacts
  <2> QED
    BY <1>3, <2>1, <2>2, EnterKeeps DEF Descend
<1>4. CASE SkipTarget
  <2>1. /\ Scanning /\ stack = <<>> /\ idx' = idx + 1 /\ scan[list[idx]] = "done"
        /\ UNCHANGED <<graphVars, planVars, build, list, stack, phase>>
    BY <1>4 DEF SkipTarget
  <2>2. /\ idx' \in Nat \ {0} /\ list' \in Seq(Target) /\ idx \in Nat
        /\ phase' \in {"targets", "validations", "finished"}
    BY <2>1 DEF Inv, TypeOK, Scanning
  <2>3. /\ UNCHANGED <<graph, scan, build, list, phase>> /\ phase # "finished"
    BY <2>1 DEF graphVars, planVars, Scanning
  <2>4. \A k \in DOMAIN list : k < idx' => scan[list[k]] = "done"
    <3>1. \A k \in DOMAIN list : k \in Nat
      BY TypeFacts DEF Inv
    <3>2. \A k \in DOMAIN list : k < idx' => k < idx \/ k = idx
      BY <2>1, <2>2, <3>1
    <3> QED
      BY <2>1, <3>2 DEF Inv, ListInv
  <2>5. ListInv'
    BY <2>3, <2>4 DEF Inv, ListInv
  <2> QED
    BY <2>1, <2>2, <2>5, ControlKeeps
<1>5. CASE StartValidations
  <2>1. /\ Scanning /\ stack = <<>> /\ idx' = 1 /\ list' = validations /\ phase' = "validations"
        /\ phase = "targets" /\ idx > Len(list)
        /\ UNCHANGED <<graphVars, planVars, build, stack>>
    BY <1>5 DEF StartValidations, Scanning
  <2>2. UNCHANGED <<graph, scan, build>> /\ list' \in Seq(Target) /\ idx \in Nat
    BY <2>1 DEF graphVars, planVars, Inv, TypeOK
  <2>3. \A t \in Range(graph.builds[build]) : scan[t] = "done"
    <3>1. list = graph.builds[build] /\ DOMAIN list = 1..Len(list) /\ Len(list) \in Nat
      BY <2>1, TypeFacts DEF Inv, ListInv
    <3>2. \A k \in DOMAIN list : scan[list[k]] = "done"
      BY <2>1, <2>2, <3>1 DEF Inv, ListInv
    <3> QED
      BY <3>1, <3>2 DEF Range
  <2>4. \A k \in DOMAIN list' : ~(k < idx')
    BY <2>1, <2>2
  <2>5. ListInv'
    BY <2>1, <2>2, <2>3, <2>4 DEF ListInv
  <2> QED
    BY <2>1, <2>2, <2>5, ControlKeeps
<1>6. CASE Finish
  <2>1. /\ Scanning /\ stack = <<>> /\ phase' = "finished" /\ phase = "validations"
        /\ idx > Len(list) /\ UNCHANGED <<graphVars, planVars, build, list, idx, stack>>
    BY <1>6 DEF Finish, Scanning
  <2>2. UNCHANGED <<graph, scan, build, list, idx>> /\ list' \in Seq(Target) /\ idx' \in Nat \ {0}
    BY <2>1 DEF graphVars, planVars, Inv, TypeOK
  <2>3. ListInv'
    BY <2>1, <2>2 DEF Inv, ListInv
  <2> QED
    BY <2>1, <2>2, <2>3, ControlKeeps
<1>7. CASE AddWait
  BY <1>7, AddWaitKeeps
<1>8. CASE AddStep
  BY <1>8, AddStepKeeps
<1>9. CASE NextBuild
  <2>1. /\ UNCHANGED <<graph, visited, validations, stack>> /\ before' = visited
        /\ phase = "finished" /\ build < Len(graph.builds) /\ build' = build + 1
        /\ list' = graph.builds[build + 1] /\ idx' = 1 /\ phase' = "targets"
    BY <1>9 DEF NextBuild, graphVars
  <2>2. NewPlan'
    BY <1>9 DEF NextBuild, NewPlan
  <2>3. build' \in 1..Len(graph.builds) /\ build' # 1
    <3>1. Len(graph.builds) \in Nat /\ build \in 1..Len(graph.builds)
      BY GraphFacts DEF Inv, TypeOK
    <3> QED
      BY <2>1, <3>1
  <2>4. stack = <<>>
    BY <2>1 DEF Inv, StackInv
  <2>5. Fresh'
    BY <2>1, <2>2, <2>3, <2>4 DEF Fresh, Inv, TypeOK
  <2> QED
    BY <2>5, FreshInv, PTL
<1>10. CASE UNCHANGED vars
  <2>1. UNCHANGED <<graph, visited, before, validations, scan, source, waits, nwaits, q, ready, npendings,
                    added, build, list, idx, stack, phase>>
    BY <1>10 DEF vars, graphVars, planVars, ctrlVars
  <2>2. TypeOK' /\ StackInv' /\ VisitedInv' /\ ScanInv' /\ ListInv'
    BY <2>1 DEF Inv, TypeOK, StackInv, VisitedInv, ScanInv, ListInv, Live, OnStack, InPlan
  <2>3. WaitInv'
    BY <2>1, SameSeen DEF Inv, WaitInv, Live
  <2>4. QueueInv' /\ CycleInv'
    BY <2>1 DEF Inv, QueueInv, Pushed, Free, InPlan, CycleInv
  <2>5. OrderInv'
    BY <2>1, OrderStays DEF Inv
  <2> QED
    BY <2>2, <2>3, <2>4, <2>5 DEF Inv
<1>11. CASE Terminated
  BY <1>10, <1>11 DEF Terminated
<1> QED
  BY <1>1, <1>2, <1>3, <1>4, <1>5, <1>6, <1>7, <1>8, <1>9, <1>10, <1>11 DEF Next

\* The inductive invariant of the walk, and with it its types.
THEOREM InvCorrect == Spec => []Inv
<1>1. Init => Fresh
  <2>1. ASSUME graph \in Graphs PROVE Len(graph.builds) >= 1 /\ Len(graph.builds) \in Nat
    BY <2>1, GraphFacts
  <2> QED
    BY <2>1 DEF Init, Fresh
<1>2. Init => Inv
  BY <1>1, FreshInv
<1> QED
  BY <1>2, NextKeeps, PTL DEF Spec

-----------------------------------------------------------------------------
(***************************************************************************)
(* The theorems                                                            *)
(***************************************************************************)
\* The plan that schedule hands to Build has each step once, all its waits in the
\* counters and the wait lists, and the steps without waits in q and ready, in the
\* order of the calls of scheduler.add: in every build, on every graph.
THEOREM PlanIsExactCorrect == Spec => []PlanIsExact
<1>1. Inv => PlanIsExact
  <2> SUFFICES ASSUME Inv, phase = "finished"
               PROVE  /\ \A i, j \in DOMAIN added : added[i] = added[j] => i = j
                      /\ \A s \in InPlan : nwaits[s] = Cardinality(SlotsOf(graph, s))
                      /\ \A t \in Target : \A s \in Step :
                            Count(waits[t], s) =
                               Cardinality({sl \in Slots(graph) :
                                  sl[1] = s /\ s \in InPlan /\ SlotTarget(graph, sl) = t})
                      /\ QueueInv
    BY DEF PlanIsExact, QueueInv
  <2>1. stack = <<>> /\ Live /\ InPlan \subseteq Step
    BY SeqElement DEF Inv, StackInv, Live, InPlan, TypeOK
  <2>2. \A sl : Passed(sl) <=> sl[1] \in InPlan
    BY <2>1 DEF Passed
  <2>3. \A s \in InPlan : SeenOf(s) = SlotsOf(graph, s)
    BY <2>2 DEF SeenOf, SlotsOf
  <2>4. \A t \in Target : \A s \in Step :
           SeenAt(t, s) = {sl \in Slots(graph) :
                              sl[1] = s /\ s \in InPlan /\ SlotTarget(graph, sl) = t}
    BY <2>2 DEF SeenAt, SeenOf, SlotsOf
  <2> QED
    BY <2>1, <2>3, <2>4 DEF Inv, VisitedInv, WaitInv
<1> QED
  BY <1>1, InvCorrect, PTL

\* Every target that a step waits for, that was asked for or that is a validation
\* has its producer in the plan, unless an earlier build on the same Graph visited
\* that edge: Graph.visited is kept (StepDef, scheduleTarget).
THEOREM ProducersCorrect == Spec => []EveryWaitHasProducer
<1>1. Inv => EveryWaitHasProducer
  <2> SUFFICES ASSUME Inv, phase = "finished"
               PROVE  /\ \A t \in Target :
                            waits[t] # <<>> => InEdges(graph, t) \subseteq InPlan \cup before
                      /\ \A t \in Range(graph.builds[build]) \cup Range(list) :
                            InEdges(graph, t) \subseteq InPlan \cup before
    BY DEF EveryWaitHasProducer
  <2>1. OnStack = {} /\ visited \subseteq InPlan \cup before
    <3>1. stack = <<>> /\ Live
      BY DEF Inv, StackInv, Live
    <3>2. OnStack = {}
      BY <3>1 DEF OnStack
    <3> QED
      BY <3>1, <3>2 DEF Inv, VisitedInv
  <2>2. \A t \in Target : scan[t] = "done" => InEdges(graph, t) \subseteq InPlan \cup before
    BY <2>1 DEF Inv, ScanInv
  <2>3. \A t \in Range(list) : t \in Target /\ scan[t] = "done"
    <3>1. \A k \in DOMAIN list : list[k] \in Target /\ k < idx
      BY TypeFacts DEF Inv, ListInv, TypeOK
    <3> QED
      BY <3>1 DEF Range, Inv, ListInv
  <2>4. \A t \in Range(graph.builds[build]) : t \in Target /\ scan[t] = "done"
    BY TypeFacts DEF Inv, ListInv
  <2> QED
    BY <2>2, <2>3, <2>4 DEF Inv, ScanInv
<1> QED
  BY <1>1, InvCorrect, PTL

\* Steps of the plan with one output each, as in almost every rule.
Singles == {s \in InPlan : OneOutput(s)}

\* A set of natural numbers has a least element.
LEMMA LeastNatural ==
    ASSUME NEW T, T \subseteq Nat, T # {}
    PROVE  \E k \in T : \A m \in T : k <= m
<1> DEFINE R == {ss \in Nat \X Nat : ss[1] < ss[2]}
<1>1. IsWellFoundedOn(R, Nat)
  BY NatLessThanWellFounded DEF OpToRel
<1>2. \A m, k \in Nat : <<m, k>> \in R <=> m < k
  OBVIOUS
<1> HIDE DEF R
<1>3. PICK k \in T : \A m \in T : ~(<<m, k>> \in R)
  BY <1>1, WFMin
<1>4. \A m \in T : ~(m < k)
  BY <1>2, <1>3
<1>5. \A m \in T : m \in Nat /\ k \in Nat
  OBVIOUS
<1>6. \A m \in T : k <= m
  BY <1>4, <1>5
<1> QED
  BY <1>6

\* The steps of the plan that have one output are in an order in which each comes
\* behind the producers of its inputs, so they have no cycle.
LEMMA SinglesAcyclic == Inv => ~Cyclic(graph, Singles)
<1> SUFFICES ASSUME Inv, NEW C \in SUBSET Singles, C # {},
                    \A s \in C : Producers(graph, s) \cap C # {}
             PROVE  FALSE
  BY DEF Cyclic
<1> DEFINE P == {k \in DOMAIN added : added[k] \in C}
<1>1. P \subseteq Nat
  BY TypeFacts DEF Inv
<1>2. \A s \in C : \E k \in P : added[k] = s
  BY DEF Singles, InPlan, Range
<1>3. P # {}
  BY <1>2
<1>4. \A k \in P : k \in DOMAIN added /\ added[k] \in C
  OBVIOUS
<1> HIDE DEF P
<1>5. PICK k \in P : \A m \in P : k <= m
  BY <1>1, <1>3, LeastNatural
<1>6. PICK p \in C : p \in Producers(graph, added[k])
  BY <1>4
<1>7. PICK m \in P : added[m] = p
  BY <1>2
<1>8. OneOutput(p) /\ p \in Step
  BY <1>6 DEF Singles, Producers
<1>9. PICK sl \in Slots(graph) : sl[1] = added[k] /\ SlotTarget(graph, sl) \in Range(graph.outs[p])
  BY <1>6 DEF Producers, Feeds
<1>10. added[k] \in Step
  BY <1>4, TypeFacts DEF Inv
<1>11. sl \in SlotsOf(graph, added[k])
  BY <1>9 DEF SlotsOf
<1>12. sl[2] \in DOMAIN Ins(graph, added[k])
  BY <1>10, <1>11, SlotFacts
<1>13. p \in InEdges(graph, Ins(graph, added[k])[sl[2]])
  BY <1>8, <1>9 DEF InEdges, SlotTarget
<1>14. m < k
  BY <1>4, <1>7, <1>8, <1>12, <1>13 DEF Inv, OrderInv
<1> QED
  BY <1>1, <1>5, <1>14

\* DependencyCycleError is raised only for a cycle, on every graph; a plan that is
\* handed to Build has no cycle of steps with one output each, and none at all when
\* no step has several.
THEOREM CycleErrorCorrect ==
    Spec => [](/\ phase = "cycle" => Cyclic(graph, visited)
               /\ ~Cyclic(graph, Singles)
               /\ (\A s \in Step : OneOutput(s)) => CycleErrorIsExact)
<1>1. Inv => /\ phase = "cycle" => Cyclic(graph, visited)
             /\ ~Cyclic(graph, Singles)
             /\ (\A s \in Step : OneOutput(s)) => CycleErrorIsExact
  <2> SUFFICES ASSUME Inv
               PROVE  /\ phase = "cycle" => Cyclic(graph, visited)
                      /\ ~Cyclic(graph, Singles)
                      /\ (\A s \in Step : OneOutput(s)) => CycleErrorIsExact
    OBVIOUS
  <2>1. phase = "cycle" => Cyclic(graph, visited)
    BY DEF Inv, CycleInv
  <2>2. ~Cyclic(graph, Singles)
    BY SinglesAcyclic
  <2>3. (\A s \in Step : OneOutput(s)) => Singles = InPlan
    <3>1. InPlan \subseteq Step
      BY SeqElement DEF Inv, InPlan, TypeOK
    <3> QED
      BY <3>1 DEF Singles
  <2> QED
    BY <2>1, <2>2, <2>3 DEF CycleErrorIsExact
<1> QED
  BY <1>1, InvCorrect, PTL
=============================================================================
