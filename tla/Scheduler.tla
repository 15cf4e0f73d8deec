----------------------------- MODULE Scheduler -----------------------------
(***************************************************************************)
(* schedule and scheduleTarget of build/plan.go: the depth-first walk over *)
(* the build graph that fills the plan, for each of the builds that        *)
(* doBuild runs on one Graph (the manifest first, then the targets).       *)
(*                                                                         *)
(* The recursion is an explicit stack of frames [target, step, i]: the     *)
(* call for target is at the i-th input of step.  A frame is on the stack  *)
(* exactly while its target is in scan state "visiting".                   *)
(*                                                                         *)
(* An error unwinds the whole recursion and Build returns it, dropping the *)
(* plan; doBuild then returns too, so the walk stops.                      *)
(***************************************************************************)
EXTENDS BuildGraph, SequencesExt

CONSTANTS
    Graphs,         \* the graphs to schedule
    QCap            \* capacity of plan.q

ASSUME SchedulerAssumption ==
    /\ \A g \in Graphs : WellFormed(g) /\ g.builds # <<>>
    /\ QCap \in Nat \ {0}

VARIABLES
    graph,          \* the manifest; never changes
    \* ninjabuild.Graph, which lives through all builds
    visited,        \* edges StepDef was called for (Graph.visited)
    validations,    \* Graph.validations
    before,         \* history: the edges that earlier builds visited
    \* the plan of the current build
    scan, source, phonyOutput, output, waits, nwaits, q, ready, npendings,
    added,          \* the steps given to scheduler.add, in order
    \* control
    build,          \* index of the current build in graph.builds
    list,           \* what schedule ranges over: targets, then validations
    idx,            \* the next element of list
    stack,          \* active calls of scheduleTarget
    phase           \* "targets", "validations", "finished" or an error

planVars == <<scan, source, phonyOutput, output, waits, nwaits, q, ready,
              npendings, added>>
graphVars == <<graph, visited, validations, before>>
ctrlVars == <<build, list, idx, stack, phase>>
vars == <<graphVars, planVars, ctrlVars>>

Errors == {"cycle", "missing source", "phony_output", "interrupted", "no targets"}

-----------------------------------------------------------------------------
\* newScheduler: every Build starts from an empty plan.
NewPlan ==
    /\ scan = [t \in Target |-> "not-visited"]
    /\ source = {} /\ phonyOutput = {} /\ output = {}
    /\ waits = [t \in Target |-> <<>>]
    /\ nwaits = [s \in Step |-> 0]
    /\ q = <<>> /\ ready = <<>> /\ npendings = 0 /\ added = <<>>

Init ==
    /\ graph \in Graphs
    /\ visited = {} /\ validations = <<>> /\ before = {}
    /\ NewPlan
    /\ build = 1 /\ list = graph.builds[1] /\ idx = 1
    /\ stack = <<>> /\ phase = "targets"

Fail(e) ==
    /\ phase' = e
    /\ UNCHANGED <<graphVars, planVars, build, list, idx, stack>>

\* Graph.StepDef for a target that has an in-edge s: visited is set, and the
\* validations are appended, before any input is looked at.
StepDef(s) ==
    /\ visited' = visited \cup {s}
    /\ validations' = validations \o graph.vals[s]
    /\ UNCHANGED <<graph, before>>

\* The call returns without a step: the deferred function leaves the target done.
ReturnDone(t) == scan' = [scan EXCEPT ![t] = "done"]

\* Mutant: the target counts as done before its inputs are scanned.
MarkDoneEarly(t) == scan' = [scan EXCEPT ![t] = "done"]

MarkVisiting(t) == scan' = [scan EXCEPT ![t] = "visiting"]

(***************************************************************************)
(* scheduleTarget(t), up to its loop over the inputs.                      *)
(***************************************************************************)
Enter(t) ==
    \/ /\ scan[t] = "visiting"
       /\ Fail("cycle")
    \/ /\ scan[t] = "not-visited"
       /\ InEdges(graph, t) = {}            \* ErrTargetIsSource: mark
       /\ IF t \in graph.missing
          THEN Fail("missing source")
          ELSE /\ source' = source \cup {t}
               /\ ReturnDone(t)
               /\ UNCHANGED <<graphVars, phonyOutput, output, waits, nwaits, q,
                              ready, npendings, added, ctrlVars>>
    \/ /\ scan[t] = "not-visited"
       /\ InEdges(graph, t) # {}
       /\ InEdges(graph, t) \subseteq visited   \* ErrDuplicateStep
       /\ ReturnDone(t)
       /\ UNCHANGED <<graphVars, source, phonyOutput, output, waits, nwaits, q,
                      ready, npendings, added, ctrlVars>>
    \/ \E s \in InEdges(graph, t) \ visited :
       /\ scan[t] = "not-visited"
       /\ StepDef(s)
       /\ MarkVisiting(t)
       /\ phonyOutput' = IF s \in graph.phonyOut THEN phonyOutput \cup {t}
                                                 ELSE phonyOutput
       /\ \/ /\ stack' = Append(stack, [target |-> t, step |-> s, i |-> 1])
             /\ UNCHANGED phase
          \/ /\ phase' = "interrupted"      \* ctx is done
             /\ UNCHANGED stack
       /\ UNCHANGED <<source, output, waits, nwaits, q, ready, npendings, added,
                      build, list, idx>>

(***************************************************************************)
(* schedule: the next target of the list that is not done yet.             *)
(***************************************************************************)
Scanning == phase \in {"targets", "validations"}

NoTargets ==
    /\ phase = "targets" /\ idx = 1 /\ stack = <<>>
    /\ list = <<>>
    /\ Fail("no targets")

NextTarget ==
    /\ Scanning /\ stack = <<>>
    /\ idx <= Len(list)
    /\ scan[list[idx]] # "done"
    /\ Enter(list[idx])

\* Mutant: schedule stops at the first target that is done already.
SkipRest ==
    /\ Scanning /\ stack = <<>>
    /\ idx <= Len(list)
    /\ scan[list[idx]] = "done"
    /\ idx' = Len(list) + 1
    /\ UNCHANGED <<graphVars, planVars, build, list, stack, phase>>

\* Mutant: a target that is done already is looked at forever.
SkipNothing ==
    /\ Scanning /\ stack = <<>>
    /\ idx <= Len(list)
    /\ scan[list[idx]] = "done"
    /\ UNCHANGED vars

SkipTarget ==
    /\ Scanning /\ stack = <<>>
    /\ idx <= Len(list)
    /\ scan[list[idx]] = "done"
    /\ idx' = idx + 1
    /\ UNCHANGED <<graphVars, planVars, build, list, stack, phase>>

\* The range over graph.Validations() is evaluated once, here.
StartValidations ==
    /\ phase = "targets" /\ stack = <<>>
    /\ list # <<>> /\ idx > Len(list)
    /\ phase' = "validations"
    /\ list' = validations
    /\ idx' = 1
    /\ UNCHANGED <<graphVars, planVars, build, stack>>

Finish ==
    /\ phase = "validations" /\ stack = <<>>
    /\ idx > Len(list)
    /\ phase' = "finished"
    /\ UNCHANGED <<graphVars, planVars, build, list, idx, stack>>

(***************************************************************************)
(* The loop over the inputs of the innermost call.                         *)
(***************************************************************************)
Top == Last(stack)
Input == Ins(graph, Top.step)[Top.i]
AtInput == Scanning /\ stack # <<>> /\ Top.i <= Len(Ins(graph, Top.step))

\* The input is not scanned yet: recurse.  The recursive call leaves it done.
Descend ==
    /\ AtInput
    /\ scan[Input] # "done"
    /\ Enter(Input)

\* A trigger input that is a phony_output is an error unless the step is
\* phony_output itself.
IllegalPhony ==
    /\ Top.i <= Len(graph.ins[Top.step])
    /\ Input \in phonyOutput
    /\ Top.step \notin graph.phonyOut

\* Mutant: only trigger inputs are waited for.
MustWaitForTriggers == Input \notin source /\ Top.i <= Len(graph.ins[Top.step])

\* The step must wait for an input that is not a source.
MustWait == Input \notin source

AddWait ==
    /\ AtInput
    /\ scan[Input] = "done"
    /\ IF MustWait
       THEN /\ waits' = [waits EXCEPT ![Input] = Append(@, Top.step)]
            /\ nwaits' = [nwaits EXCEPT ![Top.step] = @ + 1]
       ELSE UNCHANGED <<waits, nwaits>>
    /\ IF IllegalPhony
       THEN phase' = "phony_output" /\ UNCHANGED stack
       ELSE /\ stack' = [stack EXCEPT ![Len(stack)].i = @ + 1]
            /\ UNCHANGED phase
    /\ UNCHANGED <<graphVars, scan, source, phonyOutput, output, q, ready,
                   npendings, added, build, list, idx>>

CountPending == npendings' = npendings + 1

\* scheduler.add, when all inputs of s are visited.
Add(s) ==
    /\ added' = Append(added, s)
    /\ output' = IF s \in graph.phony THEN output
                                      ELSE output \cup Range(graph.outs[s])
    /\ IF nwaits[s] # 0
       THEN CountPending /\ UNCHANGED <<q, ready>>
       ELSE /\ UNCHANGED npendings
            /\ IF Len(q) < QCap
               THEN q' = Append(q, s) /\ UNCHANGED ready
               ELSE ready' = Append(ready, s) /\ UNCHANGED q

\* What the deferred functions of a call mark done: its target, and the other
\* outputs that no call is visiting.
MarkedDone(f) ==
    {f.target} \cup {t \in Range(graph.outs[f.step]) : scan[t] = "not-visited"}

AddStep ==
    /\ Scanning /\ stack # <<>>
    /\ Top.i > Len(Ins(graph, Top.step))
    /\ Add(Top.step)
    /\ scan' = [t \in Target |-> IF t \in MarkedDone(Top) THEN "done" ELSE scan[t]]
    /\ stack' = Front(stack)
    /\ UNCHANGED <<graphVars, source, phonyOutput, waits, nwaits, build, list,
                   idx, phase>>

(***************************************************************************)
(* doBuild: the manifest was up to date, so the requested targets are      *)
(* built next, with a new plan on the same Graph.                          *)
(***************************************************************************)
NextBuild ==
    /\ phase = "finished"
    /\ build < Len(graph.builds)
    /\ build' = build + 1
    /\ before' = visited
    /\ scan' = [t \in Target |-> "not-visited"]
    /\ source' = {} /\ phonyOutput' = {} /\ output' = {}
    /\ waits' = [t \in Target |-> <<>>]
    /\ nwaits' = [s \in Step |-> 0]
    /\ q' = <<>> /\ ready' = <<>> /\ npendings' = 0 /\ added' = <<>>
    /\ list' = graph.builds[build + 1] /\ idx' = 1
    /\ phase' = "targets"
    /\ UNCHANGED <<graph, visited, validations, stack>>

Terminated ==
    /\ phase \in Errors \/ (phase = "finished" /\ build = Len(graph.builds))
    /\ UNCHANGED vars

Next ==
    \/ NoTargets \/ NextTarget \/ SkipTarget \/ StartValidations \/ Finish
    \/ Descend \/ AddWait \/ AddStep
    \/ NextBuild \/ Terminated

Spec == Init /\ [][Next]_vars
FairSpec == Spec /\ WF_vars(Next)

-----------------------------------------------------------------------------
(***************************************************************************)
(* Properties                                                              *)
(***************************************************************************)
InPlan == Range(added)
Count(seq, e) == Cardinality({i \in DOMAIN seq : seq[i] = e})

\* What scheduler.add found ready, in the order of the calls.
Pushed == q \o ready

\* The first n calls of scheduler.add whose step waits for nothing.
Free(n) == {i \in 1..n : SlotsOf(graph, added[i]) = {}}

\* The plan schedule hands to Build is the one Builder starts from: no step is
\* added twice, by the calls for several of its outputs; each step waits once for
\* every generated input, in the target's wait list and in its counter; the n-th
\* step without waits is the n-th in q and, when q is full, in ready; the others
\* are counted in npendings.
PlanIsExact ==
    phase = "finished" =>
        /\ \A i, j \in DOMAIN added : added[i] = added[j] => i = j
        /\ \A s \in InPlan : nwaits[s] = Cardinality(SlotsOf(graph, s))
        /\ \A t \in Target : \A s \in Step :
              Count(waits[t], s) =
                 Cardinality({sl \in Slots(graph) :
                    sl[1] = s /\ s \in InPlan /\ SlotTarget(graph, sl) = t})
        /\ Len(Pushed) = Cardinality(Free(Len(added)))
        /\ \A n \in Free(Len(added)) : Pushed[Cardinality(Free(n))] = added[n]
        /\ ready # <<>> => Len(q) = QCap
        /\ npendings = Cardinality({s \in InPlan : SlotsOf(graph, s) # {}})

\* "some step will generate it, so need to wait for it" (plan.go): a target that a
\* step of the finished plan waits for is an output of a step of the same plan, and
\* so are the targets asked for and the validations found on the way to them, or
\* Build would wait forever, or not build what was asked.  The exception is what
\* the code does to edges that an earlier build on the same Graph has visited:
\* StepDef says ErrDuplicateStep, and scheduleTarget takes them for processed.
EveryWaitHasProducer ==
    phase = "finished" =>
        /\ \A t \in Target : waits[t] # <<>> => InEdges(graph, t) \subseteq InPlan \cup before
        /\ \A t \in Range(graph.builds[build]) \cup Range(list) :
              InEdges(graph, t) \subseteq InPlan \cup before

\* DependencyCycleError is right: a plan that is handed to Build has no cycle, so
\* no step waits for itself, and the error is raised only if the walked edges have a
\* cycle or an edge needs one of its own outputs.
CycleErrorIsExact ==
    /\ phase = "finished" => ~Cyclic(graph, InPlan)
    /\ phase = "cycle" => Cyclic(graph, visited)

\* The walk ends, with a plan or with an error, on cyclic graphs too.
Termination ==
    <>(phase \in Errors \/ (phase = "finished" /\ build = Len(graph.builds)))
=============================================================================
