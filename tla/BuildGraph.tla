----------------------------- MODULE BuildGraph -----------------------------
(***************************************************************************)
(* The build graph the scheduler reads (build.Graph, implemented by        *)
(* ninjabuild.Graph over the ninja manifest).  Targets are node ids, a     *)
(* step is an edge of the manifest.  A graph is a record:                  *)
(*                                                                         *)
(*   outs, ins, oo, vals : [Step -> Seq(Target)]                           *)
(*        outputs, trigger inputs, order-only inputs, validations          *)
(*   phonyOut : SUBSET Step     steps with the phony_output binding        *)
(*   phony    : SUBSET Step     edges of the phony rule                    *)
(*   missing  : SUBSET Target   sources that are not on the disk           *)
(*   builds   : Seq(Seq(Target))  what Builder.Build is called with, one   *)
(*              after the other on the same Graph (doBuild first rebuilds  *)
(*              the manifest, then builds the requested targets)           *)
(***************************************************************************)
EXTENDS Naturals, Sequences, FiniteSets, Functions

CONSTANTS
    Target,     \* node ids; 0 is never one of them (nodemap.freeze counts from 1)
    Step        \* edges of the manifest

ASSUME GraphAssumption ==
    /\ 0 \notin Target
    /\ IsFiniteSet(Step)

WellTyped(g) ==
    /\ g.outs \in [Step -> Seq(Target)]
    /\ g.ins \in [Step -> Seq(Target)]
    /\ g.oo \in [Step -> Seq(Target)]
    /\ g.vals \in [Step -> Seq(Target)]
    /\ g.phonyOut \subseteq Step
    /\ g.phony \subseteq Step
    /\ g.missing \subseteq Target
    /\ g.builds \in Seq(Seq(Target))

\* All inputs of an edge in the order scheduleTarget visits them.
Ins(g, s) == g.ins[s] \o g.oo[s]

\* Node.InEdge: the edge that generates t, if any.
InEdges(g, t) == {s \in Step : t \in Range(g.outs[s])}

\* Node.setInEdge lets one edge only claim an output, and claim it once.
OneProducer(g) ==
    /\ \A t \in Target : \A p, r \in InEdges(g, t) : p = r
    /\ \A s \in Step : \A i, j \in DOMAIN g.outs[s] :
          g.outs[s][i] = g.outs[s][j] => i = j

WellFormed(g) == WellTyped(g) /\ OneProducer(g)

(***************************************************************************)
(* A slot <<s, i>> is one wait of step s: its i-th input is generated.     *)
(* The same target listed twice gives two slots, as targetInfo.waits then  *)
(* holds the step twice.                                                   *)
(***************************************************************************)
Slots(g) ==
    {sl \in Step \X (UNION {DOMAIN Ins(g, s) : s \in Step}) :
        /\ sl[2] \in DOMAIN Ins(g, sl[1])
        /\ InEdges(g, Ins(g, sl[1])[sl[2]]) # {}}

SlotTarget(g, sl) == Ins(g, sl[1])[sl[2]]

\* The waits of one step, and the waits that the outputs of one step end.
SlotsOf(g, s) == {sl \in Slots(g) : sl[1] = s}
Feeds(g, p) == {sl \in Slots(g) : SlotTarget(g, sl) \in Range(g.outs[p])}

\* The steps that generate an input of s.
Producers(g, s) == {p \in Step : \E sl \in Feeds(g, p) : sl[1] = s}

(***************************************************************************)
(* A cycle among steps: a non-empty set in which each step has an input    *)
(* generated in the set.                                                   *)
(***************************************************************************)
Cyclic(g, S) ==
    \E C \in SUBSET S : C # {} /\ \A s \in C : Producers(g, s) \cap C # {}
=============================================================================
