------------------------------ MODULE Builder ------------------------------
(***************************************************************************)
(* Builder.Build's main loop, the goroutine it starts for each step, and   *)
(* the plan they share (plan.pushReady, plan.done).                        *)
(*                                                                         *)
(* The loop receives from the channel plan.q without the plan's mutex, so  *)
(* it runs between the sends of a plan.done call: done is one action per   *)
(* send attempt.  Everything else done touches is guarded by the mutex,    *)
(* whose holder is the variable mu.  The order of the steps in a target's  *)
(* wait list is left open.                                                 *)
(***************************************************************************)
EXTENDS BuildGraph

CONSTANTS
    Graphs,         \* the build graphs to run
    QCap,           \* capacity of plan.q (10000 in newScheduler)
    ErrCap,         \* capacity of errch (1000 in Build)
    StepLimit,      \* limits.Step, the weight of stepSema
    NoStep          \* no step: the mutex is free, or the loop holds no step

ASSUME BuilderAssumption ==
    /\ \A g \in Graphs : WellFormed(g)
    /\ QCap \in Nat \ {0}
    /\ ErrCap \in Nat \ {0}
    /\ StepLimit \in Nat \ {0}
    /\ NoStep \notin Step

VARIABLES
    graph,      \* the graph being built; never changes
    \* plan
    q,          \* plan.q
    ready,      \* plan.ready, steps spilled over from q
    waits,      \* targetInfo.waits: for each target, the slots that wait for it
    nwaits,     \* Step.nwaits
    npendings,  \* plan.npendings
    closed,     \* plan.closed; q is closed in the same critical section
    mu,         \* the step whose plan.done holds plan.mu, or NoStep
    \* locals of the plan.done call that holds the mutex
    move,       \* the part of plan.ready still to be offered to q
    todo,       \* slots of the step's outputs still to be visited
    spill,      \* done's local slice ready
    \* Builder.Build
    loop,       \* where the main loop stands
    cur,        \* the step the loop has received
    sema,       \* permits of stepSema in use
    interrupted,    \* is the caller's context done?
    canceled,   \* is Build's own ctx done?
    errch,      \* the error channel
    nfail,      \* failures.n
    sawCancel,  \* the collector's local variable canceled
    result,     \* what Build returned
    \* step goroutines
    st,         \* where the goroutine of each step stands
    serr        \* its err variable

planVars == <<q, ready, waits, nwaits, npendings, closed>>
doneVars == <<mu, move, todo, spill>>
loopVars == <<loop, cur, sawCancel, result>>
vars == <<graph, planVars, doneVars, loopVars, sema, interrupted, canceled, errch,
          nfail, st, serr>>

Err == {"nil", "fail", "canceled"}
Results == {"none", "ok", "failed", "canceled"}
LoopStates == {"acquire", "select", "dispatch", "dump", "drain", "returned"}
StepStates == {"idle", "running", "done", "release", "send", "exited"}

TypeOK ==
    /\ graph \in Graphs
    /\ q \in Seq(Step)
    /\ ready \in Seq(Step)
    /\ waits \in [Target -> SUBSET Slots(graph)]
    /\ nwaits \in [Step -> Nat]
    /\ npendings \in Nat
    /\ closed \in BOOLEAN
    /\ mu \in Step \cup {NoStep}
    /\ move \in Seq(Step)
    /\ todo \subseteq Slots(graph)
    /\ spill \in Seq(Step)
    /\ loop \in LoopStates
    /\ cur \in Step \cup {NoStep}
    /\ sema \in 0..StepLimit
    /\ interrupted \in BOOLEAN /\ canceled \in BOOLEAN
    /\ errch \in Seq(Err)
    /\ nfail \in Nat
    /\ sawCancel \in BOOLEAN
    /\ result \in Results
    /\ st \in [Step -> StepStates]
    /\ serr \in [Step -> Err]

-----------------------------------------------------------------------------
(***************************************************************************)
(* The plan as schedule leaves it (module Scheduler shows that it does):   *)
(* every generated input is a wait, the steps without waits are in q, and  *)
(* in ready once q is full, in the order they were added.                  *)
(***************************************************************************)
InitialReady(g) == {s \in Step : SlotsOf(g, s) = {}}

IsEnumeration(seq, S) ==
    /\ \A i \in DOMAIN seq : seq[i] \in S
    /\ \A s \in S : \E i \in DOMAIN seq : seq[i] = s
    /\ \A i, j \in DOMAIN seq : seq[i] = seq[j] => i = j

PlanInit ==
    /\ \E order \in [1..Cardinality(InitialReady(graph)) -> InitialReady(graph)] :
          LET n == IF Len(order) < QCap THEN Len(order) ELSE QCap
          IN /\ IsEnumeration(order, InitialReady(graph))
             /\ q = SubSeq(order, 1, n)
             /\ ready = SubSeq(order, n + 1, Len(order))
    /\ waits = [t \in Target |-> {sl \in Slots(graph) : SlotTarget(graph, sl) = t}]
    /\ nwaits = [s \in Step |-> Cardinality(SlotsOf(graph, s))]
    /\ npendings = Cardinality(Step \ InitialReady(graph))
    /\ closed = FALSE

Init ==
    /\ graph \in Graphs
    /\ PlanInit
    /\ mu = NoStep /\ move = <<>> /\ todo = {} /\ spill = <<>>
    /\ loop = "acquire" /\ cur = NoStep
    /\ sema = 0 /\ interrupted = FALSE /\ canceled = FALSE
    /\ errch = <<>> /\ nfail = 0 /\ sawCancel = FALSE /\ result = "none"
    /\ st = [s \in Step |-> "idle"]
    /\ serr = [s \in Step |-> "nil"]

-----------------------------------------------------------------------------
(***************************************************************************)
(* failures: shouldFail counts every error that is not a cancellation and  *)
(* asks to stop when the allowed number (1) is reached.                    *)
(***************************************************************************)
FailuresAllowed == 1

\* Mutant: failures are not counted.
CountNoFailure(e) == nfail

CountFailure(e) == IF e = "fail" THEN nfail + 1 ELSE nfail
ShouldFail(e) == e = "fail" /\ CountFailure(e) >= FailuresAllowed

(***************************************************************************)
(* The main loop                                                           *)
(***************************************************************************)
AcquireStepSema ==
    /\ loop = "acquire"
    /\ sema < StepLimit
    /\ sema' = sema + 1
    /\ loop' = "select"
    /\ UNCHANGED <<graph, interrupted, planVars, doneVars, cur, sawCancel,
                   result, canceled, errch, nfail, st, serr>>

\* stepSema.Acquire fails when ctx is done: Build returns at once.
AcquireCanceled ==
    /\ loop = "acquire"
    /\ canceled
    /\ loop' = "returned"
    /\ result' = "canceled"
    /\ UNCHANGED <<graph, interrupted, planVars, doneVars, cur, sawCancel, sema,
                   canceled, errch, nfail, st, serr>>

ReceiveStep ==
    /\ loop = "select"
    /\ q # <<>>
    /\ cur' = Head(q)
    /\ q' = Tail(q)
    /\ loop' = "dispatch"
    /\ UNCHANGED <<graph, interrupted, ready, waits, nwaits, npendings, closed,
                   doneVars, sawCancel, result, sema, canceled, errch, nfail,
                   st, serr>>

\* Mutant: the permit is released twice when the channel is closed.
ReceiveClosedTwice ==
    /\ loop = "select"
    /\ q = <<>> /\ closed
    /\ sema' = sema - 2
    /\ loop' = "drain"
    /\ UNCHANGED <<graph, interrupted, planVars, doneVars, cur, sawCancel,
                   result, canceled, errch, nfail, st, serr>>

ReceiveClosed ==
    /\ loop = "select"
    /\ q = <<>> /\ closed
    /\ sema' = sema - 1
    /\ loop' = "drain"
    /\ UNCHANGED <<graph, interrupted, planVars, doneVars, cur, sawCancel,
                   result, canceled, errch, nfail, st, serr>>

ReceiveError ==
    /\ loop = "select"
    /\ errch # <<>>
    /\ errch' = Tail(errch)
    /\ sema' = sema - 1
    /\ nfail' = CountFailure(Head(errch))
    /\ IF ShouldFail(Head(errch))
       THEN canceled' = TRUE /\ loop' = "drain"
       ELSE loop' = "acquire" /\ UNCHANGED canceled
    /\ UNCHANGED <<graph, interrupted, planVars, doneVars, cur, sawCancel,
                   result, st, serr>>

ReceiveCtxDone ==
    /\ loop = "select"
    /\ canceled
    /\ sema' = sema - 1
    /\ loop' = "dump"
    /\ UNCHANGED <<graph, interrupted, planVars, doneVars, cur, sawCancel,
                   result, canceled, errch, nfail, st, serr>>

\* plan.dump takes the mutex; then Build returns context.Cause(ctx).
DumpAndReturn ==
    /\ loop = "dump"
    /\ mu = NoStep
    /\ loop' = "returned"
    /\ result' = "canceled"
    /\ UNCHANGED <<graph, interrupted, planVars, doneVars, cur, sawCancel, sema,
                   canceled, errch, nfail, st, serr>>

\* Mutant: pushReady sends the step but keeps it in ready.
PushReadyKeeps ==
    IF ready # <<>> /\ Len(q) < QCap
    THEN q' = Append(q, Head(ready)) /\ UNCHANGED ready
    ELSE UNCHANGED <<q, ready>>

\* Mutant: the loop does not call pushReady.
PushNothing == UNCHANGED <<q, ready>>

\* plan.pushReady offers one spilled step to q.
PushReady ==
    IF ready # <<>> /\ Len(q) < QCap
    THEN q' = Append(q, Head(ready)) /\ ready' = Tail(ready)
    ELSE UNCHANGED <<q, ready>>

\* pushReady, then the goroutine of the received step starts.
Dispatch ==
    /\ loop = "dispatch"
    /\ mu = NoStep
    /\ PushReady
    /\ st' = [st EXCEPT ![cur] = "running"]
    /\ cur' = NoStep
    /\ loop' = "acquire"
    /\ UNCHANGED <<graph, interrupted, waits, nwaits, npendings, closed,
                   doneVars, sawCancel, result, sema, canceled, errch, nfail,
                   serr>>

-----------------------------------------------------------------------------
(***************************************************************************)
(* plan.done, called by the goroutine of s when its outputs are ready.     *)
(***************************************************************************)
Outputs(s) == Range(graph.outs[s])

FinishDone(s) ==
    /\ st' = [st EXCEPT ![s] = "release"]
    /\ serr' = [serr EXCEPT ![s] = "nil"]

\* runStep succeeds: up to date, dry run, handled, or the command succeeded.
\* done returns at once on a closed plan.
StepDone(s) ==
    /\ st[s] = "running"
    /\ mu = NoStep
    /\ IF closed
       THEN FinishDone(s) /\ UNCHANGED <<ready, doneVars>>
       ELSE /\ st' = [st EXCEPT ![s] = "done"]
            /\ mu' = s
            /\ move' = ready
            /\ ready' = <<>>
            /\ todo' = UNION {waits[t] : t \in Outputs(s)}
            /\ UNCHANGED <<spill, serr>>
    /\ UNCHANGED <<graph, interrupted, q, waits, nwaits, npendings, closed,
                   loopVars, sema, canceled, errch, nfail>>

\* One element of plan.ready is offered to q, or kept.
DoneMove(s) ==
    /\ st[s] = "done" /\ mu = s
    /\ move # <<>>
    /\ move' = Tail(move)
    /\ IF Len(q) < QCap
       THEN q' = Append(q, Head(move)) /\ UNCHANGED ready
       ELSE ready' = Append(ready, Head(move)) /\ UNCHANGED q
    /\ UNCHANGED <<graph, interrupted, waits, nwaits, npendings, closed, mu,
                   todo, spill, loopVars, sema, canceled, errch, nfail, st,
                   serr>>

\* Mutant: a step is ready when one input is still missing.
NoWaitsLeftEarly(n) == n <= 1

\* Step.ReadyToRun: nothing is left to wait for.
NoWaitsLeft(n) == n = 0

\* One waiter of an output is visited: Step.ReadyToRun counts it down, and a
\* step that has nothing left to wait for goes to q, or to the local slice.
DoneWake(s, sl) ==
    /\ st[s] = "done" /\ mu = s
    /\ move = <<>>
    /\ sl \in todo
    /\ todo' = todo \ {sl}
    /\ nwaits' = [nwaits EXCEPT ![sl[1]] = @ - 1]
    /\ IF NoWaitsLeft(nwaits'[sl[1]])
       THEN /\ npendings' = npendings - 1
            /\ waits' = [waits EXCEPT ![SlotTarget(graph, sl)] = @ \ {sl}]
            /\ IF Len(q) < QCap
               THEN q' = Append(q, sl[1]) /\ UNCHANGED spill
               ELSE spill' = Append(spill, sl[1]) /\ UNCHANGED q
       ELSE UNCHANGED <<npendings, waits, q, spill>>
    /\ UNCHANGED <<graph, interrupted, ready, closed, mu, move, loopVars, sema,
                   canceled, errch, nfail, st, serr>>

\* Mutant: the spilled steps are forgotten when the plan is closed.
NothingPending(rdy) == npendings = 0

\* Mutant: the plan is closed only when every wait list is empty; but done
\* removes a step from the list it was last in only.
NothingWaited(rdy) == rdy = <<>> /\ \A t \in Target : waits[t] = {}

\* Nothing is ready and nothing is pending: no step will be sent any more.
NothingLeft(rdy) == rdy = <<>> /\ npendings = 0

DoneEnd(s) ==
    /\ st[s] = "done" /\ mu = s
    /\ move = <<>> /\ todo = {}
    /\ ready' = ready \o spill
    /\ spill' = <<>>
    /\ closed' = NothingLeft(ready \o spill)
    /\ mu' = NoStep
    /\ FinishDone(s)
    /\ UNCHANGED <<graph, interrupted, q, waits, nwaits, npendings, move, todo,
                   loopVars, sema, canceled, errch, nfail>>

\* runStep fails (or panics, which the goroutine recovers): done is not called.
StepFail(s) ==
    /\ st[s] = "running"
    /\ st' = [st EXCEPT ![s] = "release"]
    /\ serr' = [serr EXCEPT ![s] = "fail"]
    /\ UNCHANGED <<graph, interrupted, planVars, doneVars, loopVars, sema,
                   canceled, errch, nfail>>

\* runStep sees that ctx is done and returns the cancellation.
StepCanceled(s) ==
    /\ st[s] = "running"
    /\ canceled
    /\ st' = [st EXCEPT ![s] = "release"]
    /\ serr' = [serr EXCEPT ![s] = "canceled"]
    /\ UNCHANGED <<graph, interrupted, planVars, doneVars, loopVars, sema,
                   canceled, errch, nfail>>

(***************************************************************************)
(* The goroutine's deferred calls, last registered first: release the      *)
(* permit, then either send the error or notice that ctx is done.          *)
(***************************************************************************)
ReleaseStepSema(s) ==
    /\ st[s] = "release"
    /\ sema' = sema - 1
    /\ st' = [st EXCEPT ![s] = "send"]
    /\ UNCHANGED <<graph, interrupted, planVars, doneVars, loopVars, canceled,
                   errch, nfail, serr>>

SendError(s) ==
    /\ st[s] = "send"
    /\ Len(errch) < ErrCap
    /\ errch' = Append(errch, serr[s])
    /\ st' = [st EXCEPT ![s] = "exited"]
    /\ UNCHANGED <<graph, interrupted, planVars, doneVars, loopVars, sema,
                   canceled, nfail, serr>>

\* Mutant: the goroutine only sends, whether or not somebody will receive.
NeverDropError(s) == FALSE /\ UNCHANGED vars

DropError(s) ==
    /\ st[s] = "send"
    /\ canceled
    /\ st' = [st EXCEPT ![s] = "exited"]
    /\ UNCHANGED <<graph, interrupted, planVars, doneVars, loopVars, sema,
                   canceled, errch, nfail, serr>>

-----------------------------------------------------------------------------
(***************************************************************************)
(* After the loop: the collector empties errch while Build waits for the   *)
(* goroutines, and then computes Build's result.                           *)
(***************************************************************************)
CollectError ==
    /\ loop = "drain"
    /\ errch # <<>>
    /\ errch' = Tail(errch)
    /\ nfail' = CountFailure(Head(errch))
    /\ sawCancel' = (sawCancel \/ Head(errch) = "canceled")
    /\ UNCHANGED <<graph, interrupted, planVars, doneVars, loop, cur, result,
                   sema, canceled, st, serr>>

AllExited == \A s \in Step : st[s] \in {"idle", "exited"}

BuildResult ==
    IF nfail # 0 THEN "failed" ELSE IF sawCancel THEN "canceled" ELSE "ok"

\* Mutant: wg.Wait is missing.
ReturnWithoutWait ==
    /\ loop = "drain"
    /\ errch = <<>>
    /\ result' = BuildResult
    /\ loop' = "returned"
    /\ canceled' = TRUE
    /\ UNCHANGED <<graph, interrupted, planVars, doneVars, cur, sawCancel, sema,
                   errch, nfail, st, serr>>

BuildReturn ==
    /\ loop = "drain"
    /\ AllExited
    /\ errch = <<>>
    /\ result' = BuildResult
    /\ loop' = "returned"
    /\ canceled' = TRUE
    /\ UNCHANGED <<graph, interrupted, planVars, doneVars, cur, sawCancel, sema,
                   errch, nfail, st, serr>>

\* The signal handler of main cancels the caller's context.
Interrupt ==
    /\ ~canceled
    /\ interrupted' = TRUE
    /\ canceled' = TRUE
    /\ UNCHANGED <<graph, planVars, doneVars, loopVars, sema, errch, nfail, st,
                   serr>>

\* Build has returned and every goroutine has ended.
Terminated ==
    /\ loop = "returned"
    /\ AllExited
    /\ UNCHANGED vars

-----------------------------------------------------------------------------
LoopNext ==
    \/ AcquireStepSema \/ AcquireCanceled
    \/ ReceiveStep \/ ReceiveClosed \/ ReceiveError \/ ReceiveCtxDone
    \/ DumpAndReturn \/ Dispatch
    \/ CollectError \/ BuildReturn

StepNext(s) ==
    \/ StepDone(s) \/ DoneMove(s) \/ DoneEnd(s)
    \/ \E sl \in todo : DoneWake(s, sl)
    \/ StepFail(s) \/ StepCanceled(s)
    \/ ReleaseStepSema(s) \/ SendError(s) \/ DropError(s)

Next == LoopNext \/ (\E s \in Step : StepNext(s)) \/ Interrupt \/ Terminated

Spec == Init /\ [][Next]_vars

(***************************************************************************)
(* Fairness: the Go scheduler runs the loop and every goroutine that can   *)
(* proceed, and every runStep returns (a command ends or is killed).       *)
(***************************************************************************)
FairSpec == Spec /\ WF_vars(LoopNext) /\ \A s \in Step : WF_vars(StepNext(s))

-----------------------------------------------------------------------------
(***************************************************************************)
(* Properties                                                              *)
(***************************************************************************)
\* plan.done has been called for s: its outputs count as made.
Made(s) ==
    \/ st[s] = "done"
    \/ st[s] \in {"release", "send", "exited"} /\ serr[s] = "nil"

\* A step is running, or about to be started by the loop, only when plan.done
\* has been called for every step that generates one of its inputs: the counts
\* of plan.done (nwaits) never let a step go early, whatever the interleaving
\* of done calls, spills and receives.
StartsAfterProducers ==
    \A s \in Step : (st[s] # "idle" \/ s = cur) =>
        \A p \in Producers(graph, s) : Made(p)

\* The steps on their way to the loop, in whatever slice or channel they are.
InTransit == q \o ready \o move \o spill

\* A step is dispatched at most once: it is in one place of q, ready and done's
\* slices at a time, and in none of them once the loop has received it.
DispatchedOnce ==
    /\ \A i, j \in DOMAIN InTransit : InTransit[i] = InTransit[j] => i = j
    /\ \A i \in DOMAIN InTransit : st[InTransit[i]] = "idle" /\ InTransit[i] # cur

\* plan.q is closed only when every step has been received or is still in q,
\* so no later pushReady or done can send on the closed channel, and no step
\* is left behind.
ClosedIsFinal ==
    closed => /\ ready = <<>> /\ move = <<>> /\ spill = <<>> /\ mu = NoStep
              /\ \A s \in Step : st[s] # "idle" \/ s = cur
                                   \/ \E i \in DOMAIN q : q[i] = s

\* Spilled steps are never stranded: while the loop waits for work and q is
\* empty, nothing is held back in ready.
SpillNotStranded ==
    loop \in {"acquire", "select"} /\ q = <<>> => ready = <<>> /\ spill = <<>>

\* stepSema bounds the steps that run at the same time.
ConcurrencyBounded ==
    Cardinality({s \in Step : st[s] \in {"running", "done", "release"}}) <= StepLimit

\* Build returns nil only when every step of the plan was made, unless the caller
\* was interrupted: then a goroutine may drop its error (DropError), and the
\* collector never sees it; but even then every step was started and has ended.
NilMeansAllMade ==
    result = "ok" => \A s \in Step :
        Made(s) \/ (interrupted /\ st[s] = "exited")

\* Build returns and every goroutine ends, in success, failure or interruption.
Termination == <>(loop = "returned" /\ AllExited)

\* The refinement mapping to AbstractBuild.
Started == {s \in Step : st[s] # "idle"}
MadeSteps == {s \in Step : Made(s)}
EndedSteps ==
    {s \in Step : st[s] \in {"release", "send", "exited"} /\ serr[s] # "nil"}

Abs == INSTANCE AbstractBuild
          WITH started <- Started, made <- MadeSteps, ended <- EndedSteps,
               outcome <- result

\* Build implements AbstractBuild: every step of the loop, the goroutines, plan.done
\* and the interruption is a step, or a stutter, of that specification.
ImplementsAbstractBuild == Abs!Spec
=============================================================================
