----------------------------- MODULE NinjaScope -----------------------------
(***************************************************************************)
(* Statements of a ninja manifest, the scopes their names are looked up in *)
(* and the evaluation of strings with variables (eval.go, scope.go,        *)
(* binding.go, rule.go, and the edge's environment in graph.go).           *)
(*                                                                         *)
(* A string is a sequence of pieces, literal ones and references to        *)
(* variables; an evalString is a string with the position of its statement *)
(* in the file; an evaluated string, a path for example, is a sequence of  *)
(* literals. A scope is the sequence of a file's own names and those of    *)
(* the files around it, innermost first. A lookup returns the set of what  *)
(* it found, with at most one member.                                      *)
(***************************************************************************)
EXTENDS Integers, Sequences, SequencesExt, FiniteSetsExt

CONSTANT MaxLookups     \* 255 in evaluateAppend

ASSUME ScopeAssumption == MaxLookups \in Nat

Lit(s) == [lit |-> s]
Ref(name) == [ref |-> name]
EvalString == [pos : Int, v : Seq([lit : STRING] \cup [ref : STRING])]
Text(v) == [pos |-> 0, v |-> v]

\* What an evaluation returns in place of a value when it fails.
Cycle == "cycle in rule variable"
Fails(value) == Cycle \in Range(value)

\* Mutant: the last binding in the list, whatever its position.
GetInList(list, pos, key) ==
    LET fits == {i \in DOMAIN list : list[i].name = key /\ (pos < 0 \/ list[i].val.pos < pos)}
    IN IF fits = {} THEN {} ELSE {list[Max(fits)].val}

\* shardBindings.get and rule.lookupVar: the binding of key with the largest
\* position below pos, wherever it is in the list; any position if pos < 0.
Get(list, pos, key) ==
    LET fits == {b \in Range(list) : b.name = key /\ (pos < 0 \/ b.val.pos < pos)}
    IN {b.val : b \in {c \in fits : \A d \in fits : d.val.pos <= c.val.pos}}

\* buildScope.lookupVar, which forgets the position of what it returns.
BuildGet(list, pos, key) == {Text(val.v) : val \in Get(list, pos, key)}

\* The first lookup that finds something.
FirstFound(lookups) ==
    LET found == {i \in DOMAIN lookups : lookups[i] # {}}
    IN IF found = {} THEN {} ELSE lookups[Min(found)]

\* fileScope.lookupVar: pos counts in the own file only.
LookupVar(scope, pos, key) ==
    FirstFound([k \in DOMAIN scope |-> Get(scope[k].vars, IF k = 1 THEN pos ELSE -1, key)])

LookupRule(scope, name) ==
    FirstFound([k \in DOMAIN scope |-> {r \in Range(scope[k].rules) : r.name = name}])

(***************************************************************************)
(* An edge: its rule, its own variables (env), its position, its scope,    *)
(* and the paths of its outputs and inputs read so far.                    *)
(***************************************************************************)
Explicit(paths, n) == SubSeq(paths, 1, Len(paths) - n)
PathList(paths, sep) ==
    LET joined == FlattenSeq([i \in DOMAIN paths |-> IF i = 1 THEN paths[i] ELSE <<sep>> \o paths[i]])
    IN Text([i \in DOMAIN joined |-> Lit(joined[i])])

\* edgeEnv.lookupVar
EdgeLookup(e, scope, pos, key) ==
    CASE key = "in" -> {PathList(Explicit(e.inputs, e.implicitDeps + e.orderOnlyDeps), " ")}
      [] key = "in_newline" -> {PathList(Explicit(e.inputs, e.implicitDeps + e.orderOnlyDeps), "\n")}
      [] key = "out" -> {PathList(Explicit(e.outputs, e.implicitOuts), " ")}
      [] OTHER -> FirstFound(<<BuildGet(e.env, pos, key),
                               {[val EXCEPT !.pos = e.pos] : val \in Get(e.rule.vars, -1, key)},
                               LookupVar(scope, -1, key)>>)

(***************************************************************************)
(* Evaluation. The environment (evalEnv) is a file's scope or an edge in   *)
(* its scope; edge is a set with at most one member.                       *)
(***************************************************************************)
FileEnv(scope) == [scope |-> scope, edge |-> {}]
EdgeEnv(e, scope) == [scope |-> scope, edge |-> {e}]
EnvLookup(env, pos, key) ==
    IF env.edge = {} THEN LookupVar(env.scope, pos, key)
    ELSE UNION {EdgeLookup(e, env.scope, pos, key) : e \in env.edge}

\* evaluate and evaluateAppend. A variable that is not found is empty.
Evaluate(env, val) ==
    LET Append1[n \in 0..(MaxLookups + 1), ev \in EvalString] ==
            FlattenSeq([i \in DOMAIN ev.v |->
                CASE "lit" \in DOMAIN ev.v[i] -> <<ev.v[i].lit>>
                  [] "ref" \in DOMAIN ev.v[i] /\ n > MaxLookups -> <<Cycle>>
                  [] OTHER ->
                       LET found == EnvLookup(env, ev.pos, ev.v[i].ref)
                       IN IF found = {} THEN <<>> ELSE Append1[n + 1, CHOOSE x \in found : TRUE]])
    IN Append1[0, val]

\* chunk.targetPath: the value without a leading "./".
TargetPath(env, v) ==
    LET t == Evaluate(env, Text(v))
    IN IF t # <<>> /\ Head(t) = "./" THEN Tail(t) ELSE t

\* Paths of default, subninja and include statements are evaluated in the
\* scope of the file, from position 0.
ScopePath(scope, v) == TargetPath(FileEnv(scope), v)

\* A path of parseBuild, an output ("out"), an input ("in") or a validation ("val"):
\* the implicit and order-only ones are counted behind the last path of their list.
Counted(e, role) ==
    [e EXCEPT !.implicitOuts = IF role = "out" THEN 0 ELSE @,
              !.implicitDeps = IF role = "val" THEN @ ELSE 0,
              !.orderOnlyDeps = IF role = "val" THEN @ ELSE 0]
EdgePath(e, scope, role, v) == TargetPath(EdgeEnv(Counted(e, role), scope), v)

\* Edge.rawBinding, and the binding edgeEnv.Lookup starts from: here a variable
\* of the file is one from before the edge.
RawBinding(e, scope, key) ==
    FirstFound(<<BuildGet(e.env, e.pos, key),
                 {[val EXCEPT !.pos = e.pos] : val \in Get(e.rule.vars, -1, key)},
                 LookupVar(scope, e.pos, key)>>)

\* Edge.Binding; a failed evaluation is an empty value.
Binding(e, scope, key) ==
    LET raw == RawBinding(e, scope, key)
        value == Evaluate(EdgeEnv(e, scope), CHOOSE val \in raw : TRUE)
    IN IF raw = {} \/ Fails(value) THEN <<>> ELSE value
=============================================================================
