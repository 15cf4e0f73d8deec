--------------------------- MODULE ManifestGraph ---------------------------
(***************************************************************************)
(* The graph a manifest stands for: each file as one chunk, its statements *)
(* in their order, the files of subninjas after the file around them; and  *)
(* the properties of the parser, which compare it with what Load returns.  *)
(***************************************************************************)
EXTENDS Parser

(***************************************************************************)
(* A file: its statements, whether a line of it is bad, its scope and the  *)
(* pools it sees with their depths. Opened(outer, name) is the set of one, *)
(* the file of a subninja of outer; a file that is missing is bad.         *)
(***************************************************************************)
Whole(name) ==
    IF name \in DOMAIN manifest THEN ParseChunk(manifest[name], 1, Len(manifest[name]))
    ELSE [sts |-> <<>>, bad |-> TRUE]
InFile(f, t) == Of({t}, f.sts)

OwnNames(v, r) ==
    [vars |-> [i \in DOMAIN v |-> [name |-> v[i].name, val |-> [pos |-> v[i].pos, v |-> v[i].val]]],
     rules |-> [i \in DOMAIN r |-> [name |-> r[i].name, vars |-> r[i].vars]]]

PoolDepth(f, st) == {Evaluate(FileEnv(f.scope), val) : val \in BuildGet(st.vars, -1, "depth")}
OwnPools(f) ==
    UNION {{<<<<Lit(st.name)>>, depth>> : depth \in PoolDepth(f, st)} : st \in Range(InFile(f, "pool"))}

Outside ==
    [scope |-> <<Outermost>>, pools |-> {<<<<>>, <<"0">>>>, <<<<Lit("console")>>, <<"1">>>>}]
Opened(outer, name) ==
    {[f EXCEPT !.pools = @ \cup OwnPools(f)] :
        f \in {[name |-> name, sts |-> w.sts, bad |-> w.bad, pools |-> outer.pools,
                scope |-> <<OwnNames(Of({"var"}, w.sts), Of({"rule"}, w.sts))>> \o outer.scope] : w \in {Whole(name)}}}

\* The files of a manifest, by the depth of their subninjas.
Subninjas(f) == {ScopePath(f.scope, st.path) : st \in Range(InFile(f, "subninja"))}
RefFiles ==
    LET Level[n \in 0..Cardinality(File)] ==
            IF n = 0 THEN Opened(Outside, Root)
            ELSE UNION {UNION {Opened(f, name) : name \in Subninjas(f)} : f \in Level[n - 1]}
    IN UNION {Level[n] : n \in DOMAIN Level}

\* The edge of a build statement, with paths in place of nodes.
RefEdges(f, st) ==
    LET Out(e, v) == [e EXCEPT !.outputs = Append(@, EdgePath(e, f.scope, "out", v))]
        In(e, v) == [e EXCEPT !.inputs = Append(@, EdgePath(e, f.scope, "in", v))]
        Val(e, v) == [e EXCEPT !.validations = Append(@, EdgePath(e, f.scope, "val", v))]
    IN {[pool |-> pool[2]] @@ FoldLeft(Val, FoldLeft(In, FoldLeft(Out, e, OutPaths(st)), InPaths(st)), st.vals) :
            e \in NewEdge(st, f.scope),
            pool \in {p \in f.pools : \E e \in NewEdge(st, f.scope) : p[1] = PoolName(e, f.scope)}}

\* The edges of a set of files.
RefGraph(files) ==
    {[id |-> <<x[1].name, x[2].pos>>, edge |-> x[3], command |-> Binding(x[3], x[1].scope, "command")] :
        x \in UNION {UNION {{<<f, st, e>> : e \in RefEdges(f, st)} : st \in Range(InFile(f, "build"))} : f \in files}}

\* A fault of a file, which its parser alone can see.
BadFile(f, graph) ==
    \/ f.bad
    \/ \E rs \in {InFile(f, "rule")} : \E i, j \in DOMAIN rs : i # j /\ rs[i].name = rs[j].name
    \/ \E st \in Range(InFile(f, "pool")) : ~\E d \in PoolDepth(f, st) : Len(d) = 1 /\ d[1] \in Depths
    \/ \E st \in Range(InFile(f, "build")) : \A x \in graph : x.id # <<f.name, st.pos>>
    \/ \E st \in Range(InFile(f, "default")) : \E v \in Range(st.paths) : Fails(ScopePath(f.scope, v))

\* A fault of an edge, or of two that make the same.
BadEdge(x, graph) ==
    \/ \E p \in Range(x.edge.outputs \o x.edge.inputs \o x.edge.validations) : Fails(p)
    \/ \E y \in graph : \E i \in DOMAIN x.edge.outputs, j \in DOMAIN y.edge.outputs :
          x.edge.outputs[i] = y.edge.outputs[j] /\ (x # y \/ i # j)

Faulty(files, graph) == (\E f \in files : BadFile(f, graph)) \/ (\E x \in graph : BadEdge(x, graph))

RefDefaults(files, graph) ==
    LET given == UNION {{ScopePath(f.scope, v) : v \in UNION {Range(st.paths) : st \in Range(InFile(f, "default"))}} :
                          f \in files}
        made == UNION {Range(x.edge.outputs) : x \in graph}
        used == UNION {Range(x.edge.inputs) : x \in graph}
    IN IF given # {} THEN given ELSE made \ used

Graph ==
    {[id |-> <<id[1][1], id[2]>>, edge |-> View(edge[id]), command |-> Binding(View(edge[id]), ScopeOf(id[1][1]), "command")] :
        id \in Range(edges)}

-----------------------------------------------------------------------------

(***************************************************************************)
(* What Load returns is the graph of the manifest, wherever the files were *)
(* cut and in whatever order the goroutines came: every edge once, with    *)
(* the rule, pool, paths and command its names stand for, the producer and *)
(* the users of each node, and the default targets. It fails for a fault   *)
(* of the manifest (a rule or an output given twice, an unknown rule, pool *)
(* or file, a cycle of variables), always, and for nothing else: not, for  *)
(* instance, because another chunk has not set a rule or a pool yet.       *)
(***************************************************************************)
LoadIsExact ==
    result \in {"ok", "error"} =>
        \E files \in {RefFiles} : \E graph \in {RefGraph(files)} :
            /\ result = "error" <=> Faulty(files, graph)
            /\ result = "ok" =>
                /\ Graph = graph
                /\ Len(edges) = Cardinality(graph)
                /\ IsInjective(Freeze)
                /\ \A id \in Range(edges) :
                     /\ \A n \in Range(edge[id].outputs) : inEdge[n] = id
                     /\ \A n \in Range(edge[id].outputs \o edge[id].inputs \o edge[id].validations) : n \in Range(Freeze)
                /\ {path[n] : n \in DefaultNodes} = RefDefaults(files, graph)
=============================================================================
