--------------------------- MODULE AbstractBuild ---------------------------
(***************************************************************************)
(* What Builder.Build promises, without queues, channels, counters or      *)
(* locks: a step is started once, after its producers have made their      *)
(* outputs; a started step makes its outputs or ends without them; and     *)
(* Build's result tells the truth about the steps.                         *)
(***************************************************************************)
EXTENDS BuildGraph

CONSTANT Graphs

VARIABLES
    graph,      \* the graph being built
    started,    \* steps whose goroutine was started
    made,       \* steps whose outputs are made
    ended,      \* steps that failed or were canceled
    interrupted,    \* is the caller's context done?
    outcome     \* what Build returned

vars == <<graph, started, made, ended, interrupted, outcome>>

Init ==
    /\ graph \in Graphs
    /\ started = {} /\ made = {} /\ ended = {}
    /\ interrupted = FALSE /\ outcome = "none"

Start(s) ==
    /\ outcome = "none"
    /\ s \notin started
    /\ Producers(graph, s) \subseteq made
    /\ started' = started \cup {s}
    /\ UNCHANGED <<graph, interrupted, made, ended, outcome>>

Make(s) ==
    /\ s \in started \ (made \cup ended)
    /\ made' = made \cup {s}
    /\ UNCHANGED <<graph, interrupted, started, ended, outcome>>

GiveUp(s) ==
    /\ s \in started \ (made \cup ended)
    /\ ended' = ended \cup {s}
    /\ UNCHANGED <<graph, interrupted, started, made, outcome>>

Interrupt ==
    /\ interrupted' = TRUE
    /\ UNCHANGED <<graph, started, made, ended, outcome>>

\* Success: everything is made.  Failure: some step failed and none is still
\* running.  An interrupted build may say success when steps ended without their
\* outputs, though none was left out, and only such a build may leave steps running.
Return(o) ==
    /\ outcome = "none"
    /\ \/ o = "ok" /\ made = Step
       \/ o = "ok" /\ interrupted /\ made \cup ended = Step
       \/ o = "failed" /\ ended # {} /\ started = made \cup ended
       \/ o = "canceled" /\ interrupted
    /\ outcome' = o
    /\ UNCHANGED <<graph, interrupted, started, made, ended>>

Next ==
    \/ \E s \in Step : Start(s) \/ Make(s) \/ GiveUp(s)
    \/ \E o \in {"ok", "failed", "canceled"} : Return(o)
    \/ Interrupt

Spec == Init /\ [][Next]_vars
=============================================================================
