----------------------------- MODULE MCParser -----------------------------
(***************************************************************************)
(* Small manifests, each about one thing that could go wrong.              *)
(***************************************************************************)
EXTENDS ManifestGraph

Var(name, val) == [t |-> "var", name |-> name, val |-> val]
Ind(name, val) == [t |-> "indent", indented |-> TRUE, name |-> name, val |-> val]
Pool(name) == [t |-> "pool", name |-> name]
Rule(name) == [t |-> "rule", name |-> name]
Build(outs, rule, ins) ==
    [t |-> "build", outs |-> outs, iouts |-> <<>>, rule |-> rule, ins |-> ins, iins |-> <<>>, oins |-> <<>>, vals |-> <<>>]
Default(p) == [t |-> "default", paths |-> p]
Sub(p) == [t |-> "subninja", path |-> p]
Blank == [t |-> "blank"]
Junk(indented) == [t |-> "junk", indented |-> indented]

A == <<Lit("a")>>
B == <<Lit("b")>>
C == <<Lit("c")>>
D == <<Lit("d")>>
X == <<Ref("x")>>
R == <<"build.ninja">>
S == <<"s.ninja">>
T == <<"t.ninja">>
SubS == Sub(<<Lit("s.ninja")>>)
SubT == Sub(<<Lit("t.ninja")>>)

\* A variable set twice; a rule behind the edge that uses it; one input in two
\* chunks, written in two ways; all kinds of paths.
Shadow ==
    (R :> <<Var("x", A), Build(<<B>>, "r", <<<<Lit("./"), Lit("d")>>>>), Ind("y", C), Rule("r"), Ind("command", <<Ref("x"), Ref("y"), Ref("in")>>),
            Var("x", D), Var("pool", <<Lit("console")>>),
            [Build(<<A>>, "r", <<X>>) EXCEPT !.iouts = <<C>>, !.iins = <<<<Ref("in")>>>>, !.oins = <<B>>, !.vals = <<D>>]>>)

\* Two subninjas that use nodes, a rule, a pool and a variable of the file
\* around them, and have a name of their own.
Subs ==
    (R :> <<Var("x", A), Pool("p"), Ind("depth", <<Lit("2")>>), Rule("r"), Ind("pool", <<Lit("p")>>), SubS, SubT, Default(<<B, A>>)>>)
    @@ (S :> <<Build(<<B>>, "r", <<X>>), Build(<<C>>, "phony", <<D>>)>>)
    @@ (T :> <<Var("x", C), Build(<<D>>, "r", <<X>>), Rule("q"), Build(<<A>>, "q", <<>>)>>)

\* Rules in several chunks, which may clash.
Rules(n) == (R :> <<Rule("q"), Ind("command", A), Rule(n), Ind("command", B), Blank, Rule("r"), Build(<<A>>, "r", <<>>)>>)

\* One output of two edges: in a file and in two files.
TwoEdges == (R :> <<Rule("r"), Build(<<A>>, "r", <<>>), Build(<<B, A>>, "r", <<>>)>>)
TwoFiles == (R :> <<SubS, SubT>>) @@ (S :> <<Build(<<A>>, "phony", <<B>>)>>) @@ (T :> <<Build(<<A>>, "phony", <<>>)>>)

\* Faults of one file.
Fault(st) == (R :> <<Var("x", X), st, Build(<<A>>, "phony", <<>>)>>)
Faults ==
    {Fault(st) : st \in {Build(<<B>>, "r", <<>>), Build(<<>>, "phony", <<>>), Build(<<X>>, "phony", <<>>),
                         Pool("p"), Ind("y", A), Junk(TRUE), Junk(FALSE), SubS, Blank,
                         Default(<<X>>), Default(<<>>), [t |-> "include", path |-> <<Lit("s.ninja")>>], Sub(X)}}
    \cup {(R :> <<Build(<<A>>, "phony", <<>>), Ind("pool", <<Lit("p")>>)>>),
          (R :> <<Junk(FALSE), Var("x", A)>>),
          (R :> <<SubS>>) @@ (S :> <<Default(<<X>>)>>) ,
          (R :> <<Var("x", X), SubS>>) @@ (S :> <<Default(<<X>>)>>),
          (R :> <<Var("x", X), SubS>>) @@ (S :> <<Sub(X)>>),
          (R :> <<Var("x", <<Lit("2")>>), SubS>>) @@ (S :> <<Pool("p"), Ind("depth", X), Build(<<A>>, "phony", <<>>), Ind("pool", <<Lit("p")>>)>>),
          (R :> <<>>)}

MCManifests == {Shadow, Subs, Rules("p"), Rules("q"), TwoEdges, TwoFiles} \cup Faults

MCFile == {R, S, T, <<>>}
MCLocal == MCFile \X (1..MaxChunks)
MCPath == {<<>>, <<"a">>, <<"b">>, <<"c">>, <<"d">>}
MCHash(p) == IF p = <<"c">> THEN 1 ELSE 0
=============================================================================
