----------------------------- MODULE MCUpToDate -----------------------------
(***************************************************************************)
(* Four steps: a local one with restat that writes two files, a remote     *)
(* compile step with restat_content that reads a generated header only if  *)
(* its source includes it (deps=gcc), a phony, and a local step behind the *)
(* phony whose command may change without being run again (generator).     *)
(***************************************************************************)
EXTENDS UpToDate

MCFile == {"idl", "src", "hdr", "tab", "obj", "all", "exe"}
MCContent == {1, 2, 3}
MCCommand == {1, 2}

StepOf(outs, ins, kind, restat) ==
    [outs |-> outs, ins |-> ins, restat |-> restat, phony |-> kind = "phony",
     remote |-> kind = "compile", gcc |-> kind = "compile",
     generator |-> kind = "generator"]

MCSteps == <<
    StepOf(<<"hdr", "tab">>, {"idl"}, "local", "mtime"),
    StepOf(<<"obj">>, {"src"}, "compile", "content"),
    StepOf(<<"all">>, {"obj", "tab"}, "phony", "no"),
    StepOf(<<"exe">>, {"all"}, "generator", "no")>>

\* The source includes the header if its content is 2.
MCIncludes(f, x) == IF f = "src" /\ x = 2 THEN {"hdr"} ELSE {}

\* Different inputs may give the same outputs: hdr is the same for contents 1 and 2
\* of idl, tab for 2 and 3.
MCProduce(n, v, r, f) ==
    CASE f = "hdr" -> 10 * v + (IF r["idl"] = 3 THEN 1 ELSE 0)
      [] f = "tab" -> 20 + (IF r["idl"] = 1 THEN 1 ELSE 0)
      [] f = "obj" -> 100 * v + 50 * (r["src"] \div 3)
                              + (IF r["src"] = 2 THEN r["hdr"] % 10 ELSE 0)
      [] OTHER -> 100000 * v + 1000 * r["tab"] + r["obj"]
=============================================================================
