------------------------------- MODULE Parser -------------------------------
(***************************************************************************)
(* The ninja manifest parser (package ninjautil). A file is cut into       *)
(* chunks; goroutines, one for each chunk, first set the variables, pools  *)
(* and rules of the file (setup) and, when all have ended, create its      *)
(* edges and nodes (buildGraph). The files of subninja statements are then *)
(* loaded the same way, at the same time. Load ends when all files have.   *)
(*                                                                         *)
(* A manifest gives each file its lines: [t |-> "blank"], empty or a       *)
(* comment; [t |-> "junk"], a line that should have a "=" and has none,    *)
(* indented or not; [t |-> "indent"], an indented name = val; and the      *)
(* statements "var", "pool", "rule", "build", "default", "subninja" and    *)
(* "include". Every line ends with a newline. A statement is its line with *)
(* its position and its indented variables.                                *)
(***************************************************************************)
EXTENDS NinjaScope, NodeMap, FiniteSets, TLC

CONSTANTS
    Manifests,      \* [file -> lines]; a name of a file is an evaluated path
    File,           \* names of files
    Root,           \* the file given to Load
    Depths,         \* the literals strconv.Atoi takes for a depth
    MaxChunks       \* chunks of a file

ASSUME ParserAssumption ==
    /\ Root \in File
    /\ \A man \in Manifests : DOMAIN man \subseteq File
    /\ Local = File \X (1..MaxChunks)

VARIABLES
    manifest,       \* what is on the disk; does not change
    file,           \* the fileParser of each file that is loaded
    at,             \* where the goroutine of each chunk is
    vars, rules,    \* bindings and rules of each file's scope, as they arrive
    pools,          \* State.pools
    edge,           \* edges by chunk and position
    inEdge,         \* Node.inEdge
    edges, defaults, \* State.edges, State.defaults
    result          \* of Load; "panic" if the process has ended with one

scopeVars == <<vars, rules, pools>>
graphVars == <<edge, inEdge>>
stateVars == <<edges, defaults>>
parserVars == <<manifest, file, at, scopeVars, graphVars, stateVars, result, nodeVars>>

-----------------------------------------------------------------------------
(***************************************************************************)
(* Chunks and statements.                                                  *)
(***************************************************************************)

Indented(line) == line.t \in {"indent", "junk"} /\ line.indented
IsStatement(line) == line.t # "blank"
HasEquals(line) == line.t \in {"var", "indent"}

\* nextChunk: a chunk may start at a line that is no blank line and no binding.
Boundaries(lines) == {l \in 2..Len(lines) : IsStatement(lines[l]) /\ ~Indented(lines[l])}

\* splitIntoChunks: the first lines of the chunks, wherever the sizes put them.
Splits(lines) ==
    IF lines = <<>> THEN {<<>>}
    ELSE {SetToSortSeq({1} \cup cuts, <) :
            cuts \in UNION {kSubset(k, Boundaries(lines)) : k \in 0..(MaxChunks - 1)}}

\* alloc: statements and bindings are numbered through the file.
Position(lines, first, l) == Cardinality({j \in 1..(l - 1) : IsStatement(lines[j])})

\* parseChunk: a binding belongs to the build, pool or rule before it. The search
\* for the "=" of a variable does not end at the end of its line.
ParseLine(lines, first, l, acc) ==
    LET line == lines[l]
        pos == Position(lines, first, l)
        last == Len(acc.sts)
        takesVars == last > 0 /\ acc.sts[last].t \in {"build", "pool", "rule"}
        binding == [name |-> line.name, val |-> [pos |-> pos, v |-> line.val]]
        bad == [acc EXCEPT !.bad = TRUE]
    IN CASE ~IsStatement(line) -> acc
         [] Indented(line) ->
              IF takesVars /\ HasEquals(line)
              THEN [acc EXCEPT !.sts[last].vars = Append(@, binding)] ELSE bad
         [] line.t = "junk" /\ ~\E j \in l..Len(lines) : HasEquals(lines[j]) -> bad
         [] OTHER -> [acc EXCEPT !.sts = Append(@, line @@ [pos |-> pos, vars |-> <<>>])]

ParseChunk(lines, first, last) ==
    LET Step(acc, l) == IF acc.bad THEN acc ELSE ParseLine(lines, first, l, acc)
    IN FoldLeft(Step, [sts |-> <<>>, bad |-> FALSE], [i \in 1..(last - first + 1) |-> first + i - 1])

ParseChunks(lines, firsts) ==
    [k \in DOMAIN firsts |->
        ParseChunk(lines, firsts[k], IF k = Len(firsts) THEN Len(lines) ELSE firsts[k + 1] - 1)]

SetupTypes == {"var", "pool", "rule", "junk"}
GraphTypes == {"build", "default", "subninja"}
HasInclude(chunks) == \E k \in DOMAIN chunks : \E st \in Range(chunks[k]) : st.t = "include"
Of(types, sts) == LET In(st) == st.t \in types IN SelectSeq(sts, In)

-----------------------------------------------------------------------------
(***************************************************************************)
(* The files.                                                              *)
(***************************************************************************)

ChunksOf(f) == {<<f, k>> : k \in DOMAIN file[f].chunks}
\* NewManifestParser: the scope around all files.
Outermost == [vars |-> <<>>, rules |-> <<[name |-> "phony", vars |-> <<>>]>>]
ScopeOf(f) ==
    [i \in DOMAIN file[f].chain |->
        [vars |-> vars[file[f].chain[i]], rules |-> rules[file[f].chain[i]]]] \o <<Outermost>>

Resting == [todo |-> <<>>, pc |-> "next", paths |-> <<>>, nodes |-> <<>>, head |-> <<>>]
Started(chain) ==
    [phase |-> "started", chain |-> chain, chunks |-> <<>>, failed |-> FALSE, subninjas |-> <<>>, defaults |-> <<>>]

ParserInit ==
    /\ manifest \in Manifests
    /\ file = (Root :> Started(<<Root>>))
    /\ at = [c \in Local |-> Resting]
    /\ vars = [f \in File |-> <<>>]
    /\ rules = [f \in File |-> <<>>]
    /\ pools = (<<>> :> <<"0">>) @@ (<<Lit("console")>> :> <<"1">>)
    /\ edge = <<>>
    /\ inEdge = <<>>
    /\ edges = <<>>
    /\ defaults = <<>>
    /\ result = "loading"
    /\ NodeMapInit

\* The goroutines of a file's chunks start on the statements of the given types.
StartAll(f, chunks, types) ==
    at' = [c \in Local |-> IF c[1] = f /\ c[2] \in DOMAIN chunks
                           THEN [Resting EXCEPT !.todo = Of(types, chunks[c[2]])] ELSE at[c]]

\* parseFile and parseContent up to setup: the file is read, cut and parsed.
ReadFile(f) ==
    /\ file[f].phase = "started"
    /\ IF f \notin DOMAIN manifest
       THEN /\ file' = [file EXCEPT ![f].phase = "failed"]
            /\ UNCHANGED at
       ELSE \E firsts \in Splits(manifest[f]) :
              LET parsed == ParseChunks(manifest[f], firsts)
                  chunks == [k \in DOMAIN parsed |-> parsed[k].sts]
              IN IF \E k \in DOMAIN parsed : parsed[k].bad
                 THEN /\ file' = [file EXCEPT ![f].phase = "failed"]
                      /\ UNCHANGED at
                 ELSE /\ file' = [file EXCEPT ![f].phase = IF HasInclude(chunks) THEN "include" ELSE "setup",
                                              ![f].chunks = chunks]
                      /\ StartAll(f, chunks, SetupTypes)
    /\ UNCHANGED <<manifest, scopeVars, graphVars, stateVars, result, nodeVars>>

\* Statements are done in order; an error ends the goroutine of its chunk only.
Goes(c, phase, pc) ==
    /\ c[1] \in DOMAIN file
    /\ file[c[1]].phase = phase
    /\ at[c].todo # <<>>
    /\ at[c].pc = pc
St(c) == Head(at[c].todo)
NextSt(c) == at' = [at EXCEPT ![c] = [Resting EXCEPT !.todo = Tail(at[c].todo)]]
Fail(c) ==
    /\ at' = [at EXCEPT ![c] = Resting]
    /\ file' = [file EXCEPT ![c[1]].failed = TRUE]

\* eg.Wait
Ended(f) == \A c \in ChunksOf(f) : at[c].todo = <<>>

-----------------------------------------------------------------------------
(***************************************************************************)
(* setup: variables, pools and rules.                                      *)
(***************************************************************************)

\* parseVarBinding
SetVar(c) ==
    /\ Goes(c, "setup", "next")
    /\ St(c).t = "var"
    /\ vars' = [vars EXCEPT ![c[1]] = Append(@, [name |-> St(c).name, val |-> [pos |-> St(c).pos, v |-> St(c).val]])]
    /\ NextSt(c)
    /\ UNCHANGED <<manifest, file, rules, pools, graphVars, stateVars, result, nodeVars>>

\* parsePool, with the position of the statement after it.
LastOfChunk(c) == St(c).pos = Last(file[c[1]].chunks[c[2]]).pos
Depth(c) == {Evaluate(FileEnv(ScopeOf(c[1])), val) : val \in BuildGet(St(c).vars, -1, "depth")}
AddPool(c) ==
    /\ Goes(c, "setup", "next")
    /\ St(c).t = "pool"
    /\ ~LastOfChunk(c)
    /\ IF \E depth \in Depth(c) : Len(depth) = 1 /\ depth[1] \in Depths
       THEN /\ pools' = [p \in DOMAIN pools \cup {<<Lit(St(c).name)>>} |->
                            IF p = <<Lit(St(c).name)>> THEN CHOOSE d \in Depth(c) : TRUE ELSE pools[p]]
            /\ NextSt(c)
            /\ UNCHANGED file
       ELSE /\ Fail(c)
            /\ UNCHANGED pools
    /\ UNCHANGED <<manifest, vars, rules, graphVars, stateVars, result, nodeVars>>

\* setRule: the load of the list and the search, and the swap that follows it.
LoadRules(c) ==
    /\ Goes(c, "setup", "next")
    /\ St(c).t = "rule"
    /\ IF \E r \in Range(rules[c[1]]) : r.name = St(c).name
       THEN Fail(c)
       ELSE /\ at' = [at EXCEPT ![c].pc = "swap", ![c].head = rules[c[1]]]
            /\ UNCHANGED file
    /\ UNCHANGED <<manifest, scopeVars, graphVars, stateVars, result, nodeVars>>

Names(list) == [i \in DOMAIN list |-> list[i].name]
SwapRule(c) ==
    /\ Goes(c, "setup", "swap")
    /\ IF Names(rules[c[1]]) = Names(at[c].head)
       THEN /\ rules' = [rules EXCEPT ![c[1]] = <<[name |-> St(c).name, vars |-> <<>>]>> \o @]
            /\ at' = [at EXCEPT ![c].pc = "bind"]
       ELSE /\ at' = [at EXCEPT ![c].pc = "next"]
            /\ UNCHANGED rules
    /\ UNCHANGED <<manifest, file, vars, pools, graphVars, stateVars, result, nodeVars>>

\* parseRuleBindings: the rule is in the map already.
BindRule(c) ==
    /\ Goes(c, "setup", "bind")
    /\ rules' = [rules EXCEPT ![c[1]] =
                    [i \in DOMAIN @ |-> IF @[i].name = St(c).name THEN [@[i] EXCEPT !.vars = St(c).vars] ELSE @[i]]]
    /\ NextSt(c)
    /\ UNCHANGED <<manifest, file, vars, pools, graphVars, stateVars, result, nodeVars>>

\* What ends the process: a pool that is the last statement of its chunk
\* (statements[i] behind the end) and a variable without "=" on its line (a slice
\* that ends before it starts).
Panic(c) ==
    /\ Goes(c, "setup", "next")
    /\ \/ St(c).t = "pool" /\ LastOfChunk(c)
       \/ St(c).t = "junk"
    /\ result' = "panic"
    /\ UNCHANGED <<manifest, file, at, scopeVars, graphVars, stateVars, nodeVars>>

\* setup of a file with an include asks for chunks[i+1] of the last chunk too,
\* whatever the goroutines it has started do.
IncludePanic(f) ==
    /\ file[f].phase = "include"
    /\ result' = "panic"
    /\ UNCHANGED <<manifest, file, at, scopeVars, graphVars, stateVars, nodeVars>>

\* The end of setup, and the start of buildGraph.
SetupEnds(f) ==
    /\ file[f].phase = "setup"
    /\ Ended(f)
    /\ file' = [file EXCEPT ![f].phase = IF file[f].failed THEN "failed" ELSE "graph"]
    /\ IF file[f].failed THEN UNCHANGED at ELSE StartAll(f, file[f].chunks, GraphTypes)
    /\ UNCHANGED <<manifest, scopeVars, graphVars, stateVars, result, nodeVars>>

-----------------------------------------------------------------------------
(***************************************************************************)
(* buildGraph: edges, nodes, defaults and subninjas.                       *)
(***************************************************************************)

OutPaths(st) == st.outs \o st.iouts
InPaths(st) == st.ins \o st.iins \o st.oins

EdgeId(c) == <<c, St(c).pos>>
Roles(role, seq) == [i \in DOMAIN seq |-> [role |-> role, v |-> seq[i]]]

\* parseBuild up to the paths, with what rule and pool the names stand for.
NewEdge(st, scope) ==
    LET last == IF st.vars = <<>> THEN st.pos ELSE Last(st.vars).val.pos
    IN {[rule |-> r, pos |-> last + 1, env |-> st.vars,
         outputs |-> <<>>, inputs |-> <<>>, validations |-> <<>>,
         implicitOuts |-> Len(st.iouts), implicitDeps |-> Len(st.iins), orderOnlyDeps |-> Len(st.oins)] :
            r \in {r \in LookupRule(scope, st.rule) : OutPaths(st) # <<>>}}

\* The name as it is written, the default pool if there is none or an empty one.
PoolName(e, scope) == LET raw == RawBinding(e, scope, "pool") IN IF raw = {} THEN <<>> ELSE (CHOOSE val \in raw : TRUE).v

ParseBuild(c) ==
    /\ Goes(c, "graph", "next")
    /\ St(c).t = "build"
    /\ LET scope == ScopeOf(c[1])
           ok == {e \in NewEdge(St(c), scope) : PoolName(e, scope) \in DOMAIN pools}
       IN \/ /\ ok = {}
             /\ Fail(c)
             /\ UNCHANGED edge
          \/ \E e \in ok :
               /\ edge' = edge @@ (EdgeId(c) :> ([pool |-> pools[PoolName(e, scope)]] @@ e))
               /\ at' = [at EXCEPT ![c].pc = "path",
                                   ![c].paths = Roles("out", OutPaths(St(c))) \o Roles("in", InPaths(St(c)))
                                                  \o Roles("val", St(c).vals)]
               /\ UNCHANGED file
    /\ UNCHANGED <<manifest, scopeVars, inEdge, stateVars, result, nodeVars>>

\* parseDefault
ParseDefault(c) ==
    /\ Goes(c, "graph", "next")
    /\ St(c).t = "default"
    /\ IF St(c).paths = <<>> THEN NextSt(c)
       ELSE at' = [at EXCEPT ![c].pc = "path", ![c].paths = Roles("default", St(c).paths)]
    /\ UNCHANGED <<manifest, file, scopeVars, graphVars, stateVars, result, nodeVars>>

\* targetNode: the next path is evaluated, with the paths read so far as $in and
\* $out, and its node asked for.
PathsOf(nodes) == [i \in DOMAIN nodes |-> path[nodes[i]]]
View(e) == [e EXCEPT !.outputs = PathsOf(@), !.inputs = PathsOf(@), !.validations = PathsOf(@)]
Target(c) ==
    LET p == Head(at[c].paths)
    IN IF p.role = "default" THEN ScopePath(ScopeOf(c[1]), p.v)
       ELSE EdgePath(View(edge[EdgeId(c)]), ScopeOf(c[1]), p.role, p.v)
TargetNode(c) ==
    /\ Goes(c, "graph", "path")
    /\ IF Fails(Target(c))
       THEN Fail(c) /\ UNCHANGED nodeVars
       ELSE /\ Node(c, Target(c))
            /\ at' = [at EXCEPT ![c].pc = "node"]
            /\ UNCHANGED file
    /\ UNCHANGED <<manifest, scopeVars, graphVars, stateVars, result>>

\* The node is there. The last path ends the statement.
PathDone(c) ==
    at' = [at EXCEPT ![c] = IF Len(@.paths) = 1 THEN [Resting EXCEPT !.todo = Tail(at[c].todo)]
                            ELSE [@ EXCEPT !.pc = "path", !.paths = Tail(@)]]
NodeIsThere(c, role) ==
    /\ Goes(c, "graph", "node")
    /\ call[c] = Idle
    /\ Head(at[c].paths).role = role

\* setInEdge: one edge for a node, the first to come.
SetInEdge(c) ==
    /\ NodeIsThere(c, "out")
    /\ IF got[c] \in DOMAIN inEdge
       THEN Fail(c) /\ UNCHANGED graphVars
       ELSE /\ inEdge' = inEdge @@ (got[c] :> EdgeId(c))
            /\ edge' = [edge EXCEPT ![EdgeId(c)].outputs = Append(@, got[c])]
            /\ PathDone(c)
            /\ UNCHANGED file
    /\ UNCHANGED <<manifest, scopeVars, stateVars, result, nodeVars>>

AddInput(c) ==
    /\ \/ /\ NodeIsThere(c, "in")
          /\ edge' = [edge EXCEPT ![EdgeId(c)].inputs = Append(@, got[c])]
       \/ /\ NodeIsThere(c, "val")
          /\ edge' = [edge EXCEPT ![EdgeId(c)].validations = Append(@, got[c])]
    /\ PathDone(c)
    /\ UNCHANGED <<manifest, file, scopeVars, inEdge, stateVars, result, nodeVars>>

\* addDefaults, with all nodes of the statement.
AddDefault(c) ==
    LET nodes == Append(at[c].nodes, got[c])
    IN /\ NodeIsThere(c, "default")
       /\ IF Len(at[c].paths) = 1
          THEN /\ file' = [file EXCEPT ![c[1]].defaults = @ \o nodes]
               /\ NextSt(c)
          ELSE /\ at' = [at EXCEPT ![c].pc = "path", ![c].paths = Tail(@), ![c].nodes = nodes]
               /\ UNCHANGED file
       /\ UNCHANGED <<manifest, scopeVars, graphVars, stateVars, result, nodeVars>>

\* parseSubninja
AddSubninja(c) ==
    /\ Goes(c, "graph", "next")
    /\ St(c).t = "subninja"
    /\ LET sub == ScopePath(ScopeOf(c[1]), St(c).path)
       IN IF Fails(sub) THEN Fail(c)
          ELSE /\ file' = [file EXCEPT ![c[1]].subninjas = Append(@, sub)]
               /\ NextSt(c)
    /\ UNCHANGED <<manifest, scopeVars, graphVars, stateVars, result, nodeVars>>

\* The end of buildGraph, finalize with mergeFileState, and the goroutines
\* loadFile starts for the subninjas.
EdgesOf(f) ==
    FlattenSeq([k \in DOMAIN file[f].chunks |->
        LET builds == Of({"build"}, file[f].chunks[k])
        IN [i \in DOMAIN builds |-> <<<<f, k>>, builds[i].pos>>]])
GraphEnds(f) ==
    /\ file[f].phase = "graph"
    /\ Ended(f)
    /\ IF file[f].failed
       THEN /\ file' = [file EXCEPT ![f].phase = "failed"]
            /\ UNCHANGED stateVars
       ELSE /\ edges' = edges \o EdgesOf(f)
            /\ defaults' = defaults \o file[f].defaults
            /\ file' = [file EXCEPT ![f].phase = "merged"]
                         @@ [s \in Range(file[f].subninjas) |-> Started(<<s>> \o file[f].chain)]
    /\ UNCHANGED <<manifest, at, scopeVars, graphVars, result, nodeVars>>

-----------------------------------------------------------------------------

\* Load: eg.Wait for all files.
Load ==
    /\ \A f \in DOMAIN file : file[f].phase \in {"merged", "failed"}
    /\ result' = IF \E f \in DOMAIN file : file[f].phase = "failed" THEN "error" ELSE "ok"
    /\ UNCHANGED <<manifest, file, at, scopeVars, graphVars, stateVars, nodeVars>>

\* Node.outs, linked by Load in the order of State.edges.
Outs(n) ==
    FlattenSeq([i \in DOMAIN edges |->
        LET Is(in) == in = n
        IN [j \in DOMAIN SelectSeq(edge[edges[i]].inputs, Is) |-> edges[i]]])

\* State.RootNodes and State.DefaultNodes
RootNodes == {n \in UNION {Range(edge[edges[i]].outputs) : i \in DOMAIN edges} : Outs(n) = <<>>}
DefaultNodes == IF defaults # <<>> THEN Range(defaults) ELSE RootNodes

ChunkStep(c) ==
    \/ SetVar(c) \/ AddPool(c) \/ LoadRules(c) \/ SwapRule(c) \/ BindRule(c) \/ Panic(c)
    \/ ParseBuild(c) \/ ParseDefault(c) \/ TargetNode(c)
    \/ SetInEdge(c) \/ AddInput(c) \/ AddDefault(c) \/ AddSubninja(c)
    \/ NodeStep(c) /\ UNCHANGED <<manifest, file, at, scopeVars, graphVars, stateVars, result>>

Work ==
    /\ result = "loading"
    /\ \/ \E f \in DOMAIN file : ReadFile(f) \/ IncludePanic(f) \/ SetupEnds(f) \/ GraphEnds(f)
       \/ \E c \in Local : ChunkStep(c)
       \/ Load

Terminated == result # "loading" /\ UNCHANGED parserVars

ParserNext == Work \/ Terminated
ParserSpec == ParserInit /\ [][ParserNext]_parserVars
=============================================================================
