---------------------------- MODULE MCScheduler ----------------------------
(***************************************************************************)
(* Small manifests for Scheduler.  Targets 1 to 4 can be generated, 5 is a *)
(* source, 6 a source that does not exist.                                 *)
(***************************************************************************)
EXTENDS Scheduler

MCTarget == 1..6
MCStep == 1..3

Manifest(outs, ins, oo, vals, phonyOut, builds) ==
    [outs |-> outs, ins |-> ins, oo |-> oo, vals |-> vals,
     phonyOut |-> phonyOut, phony |-> {3}, missing |-> {6}, builds |-> builds]

NoSeqs == <<<<>>, <<>>, <<>>>>
SingleOuts == <<<<1>>, <<2>>, <<3>>>>
MultiOuts == <<<<1, 2>>, <<3>>, <<4>>>>

\* Every graph of three single-output steps with these inputs, cyclic or not.
SingleOutput ==
    {Manifest(SingleOuts, <<i1, i2, i3>>, <<<<>>, o2, <<>>>>, NoSeqs, {}, <<<<3, 2>>>>) :
        i1 \in {<<>>, <<2>>, <<3>>, <<5, 1>>},
        i2 \in {<<>>, <<1>>, <<3, 5>>, <<1, 1>>},
        i3 \in {<<>>, <<1, 2>>, <<2, 1>>, <<5, 6>>},
        o2 \in {<<>>, <<3>>, <<6>>}}

\* Multi-output steps without cycles, validations and phony_output steps.
MultiOutput ==
    {Manifest(MultiOuts, <<<<5>>, i2, i3>>, NoSeqs, <<<<>>, v2, v3>>, p, <<b>>) :
        i2 \in {<<>>, <<1>>, <<2, 1>>},
        i3 \in {<<1>>, <<2, 3>>, <<5>>},
        v2 \in {<<>>, <<1>>}, v3 \in {<<>>, <<3>>},
        p \in {{}, {2}, {2, 3}},
        b \in {<<4>>, <<2, 4>>, <<>>}}

\* A manifest build and a main build that share a source, or step 1 too: another step
\* needs its output or it is asked for again, after the step that validates it.
TwoBuilds ==
    {Manifest(SingleOuts, <<<<5>>, i2, i3>>, NoSeqs, <<v1, <<>>, <<>>>>, {}, <<<<1>>, main>>) :
        i2 \in {<<5>>, <<1>>}, i3 \in {<<>>, <<2, 5>>, <<2, 1>>},
        v1 \in {<<>>, <<2>>}, main \in {<<3>>, <<3, 1>>}}

MCGraphs == SingleOutput \cup MultiOutput \cup TwoBuilds

=============================================================================
