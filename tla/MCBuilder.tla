----------------------------- MODULE MCBuilder -----------------------------
(***************************************************************************)
(* Small build graphs for Builder: four steps, one of them with two        *)
(* outputs, another reading an output twice.                               *)
(***************************************************************************)
EXTENDS Builder

MCTarget == 1..5
MCStep == 1..4

\* Step 1 generates targets 1 and 2, step 2 target 3, step 3 target 4, step 4
\* target 5.
Graph(ins2, ins3, oo3, ins4) ==
    [outs |-> <<<<1, 2>>, <<3>>, <<4>>, <<5>>>>,
     ins |-> <<<<>>, ins2, ins3, ins4>>,
     oo |-> <<<<>>, <<>>, oo3, <<>>>>,
     vals |-> <<<<>>, <<>>, <<>>, <<>>>>,
     phonyOut |-> {}, phony |-> {}, missing |-> {}, builds |-> <<<<5>>>>]

\* The third step needs the first, and the second or not; the last step needs
\* the third.
Shapes ==
    {Graph(i2, i3, <<2>>, <<4>>) :
        i2 \in {<<>>, <<1, 2>>}, i3 \in {<<1, 1>>, <<1, 3>>}}

\* A fork of three, so that one plan.done wakes more steps than q takes, and a
\* diamond whose last step waits for a spilled one.
Wide == {Graph(<<1>>, <<2>>, <<>>, <<1>>), Graph(<<1>>, <<2>>, <<>>, <<3, 4>>)}

MCGraphs == Shapes \cup Wide
=============================================================================
