--------------------------- MODULE MCActionDigest ---------------------------
(***************************************************************************)
(* Commands of up to MaxInputs inputs in out/d and out/e, which have the   *)
(* same files.                                                             *)
(***************************************************************************)
EXTENDS ActionDigest, TLC

CONSTANT MaxInputs

File(x) == [data |-> [content |-> x], exec |-> FALSE, target |-> <<>>]
Link(path) == [data |-> NoData, exec |-> FALSE, target |-> path]

MCFS ==
    (<<"a">> :> File("a")) @@ (<<"b">> :> [File("a") EXCEPT !.exec = TRUE])
      @@ (<<"d">> :> NoEntry) @@ (<<"d", "f">> :> File("f"))
      @@ (<<"l">> :> Link(<<"d">>)) @@ (<<"l", "f">> :> File("f"))
      @@ (<<"o">> :> Link(<<"..", "s">>)) @@ (<<"..", "s">> :> Link(<<"t">>))
      @@ (<<"..", "t">> :> File("t")) @@ (<<"k">> :> Link(<<".">>))
      @@ (<<"T", "x">> :> File("x"))
      @@ (<<"out", "d">> :> NoEntry) @@ (<<"out", "e">> :> NoEntry)
      @@ (<<"out", "d", "g">> :> File("g")) @@ (<<"out", "e", "g">> :> File("g"))

\* Names, not all of them clean; "n" is missing.
Names ==
    {<<"a">>, <<"d", "..", "a">>, <<"b">>, <<"d">>, <<"d", "f">>, <<"l">>, <<"l", "f">>, <<"o">>, <<"k">>,
     <<"..", "t">>, <<"T", "x">>, <<"out", "d">>, <<"out", "d", "g">>, <<"out", "d", "..", "..", "a">>, <<"n">>}

XDir == [files |-> {[name |-> "x", digest |-> [content |-> "x"], exec |-> FALSE]}, symlinks |-> {}, dirs |-> {}]

Remotes == {<<>>, (<<"a">> :> <<"b">>), (<<"T">> :> <<"a">>) @@ (<<"r">> :> <<"a">>)}

\* The inputs of a step have no duplicates (uniqueFiles).
Inputs == {s \in BoundedSeq(Names, MaxInputs) : IsInjective(s)}

Commands ==
    {[dir |-> dir, inputs |-> ins, rsp |-> rsp, remote |-> r, trees |-> ts, args |-> "c", pure |-> TRUE,
      system |-> sys, canon |-> canon] :
        dir \in {<<"">>, <<"out", "d">>}, ins \in Inputs,
        rsp \in {<<>>, <<"out", "d", "g">>}, r \in Remotes,
        ts \in {<<>>, <<[name |-> <<"T">>, digest |-> XDir, store |-> {}]>>},
        sys \in BOOLEAN, canon \in BOOLEAN}

\* Those with one input also without args, or impure.
MCCmds ==
    LET short == {c \in Commands : Len(c.inputs) = 1}
    IN Commands \cup {[c EXCEPT !.args = None] : c \in short} \cup {[c EXCEPT !.pure = FALSE] : c \in short}

MCMoved(c) ==
    LET To(n) == IF c.dir # <<"">> /\ IsPrefix(c.dir, n) THEN <<"out", "e">> \o SubSeq(n, 3, Len(n)) ELSE n
        All(seq) == [i \in DOMAIN seq |-> To(seq[i])]
    IN [c EXCEPT !.dir = To(@), !.inputs = All(@), !.rsp = To(@)]
=============================================================================
