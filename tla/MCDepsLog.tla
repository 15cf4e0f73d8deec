----------------------------- MODULE MCDepsLog -----------------------------
(***************************************************************************)
(* Small instances of DepsLog.  Path names are one word each: four letters *)
(* ("aaaa" is 0x61616161), far larger than any id or record size.          *)
(***************************************************************************)
EXTENDS DepsLog

A == <<1633771873>>
B == <<1650614882>>
C == <<1667457891>>
D == <<1684300900>>

MCPath == {A, B, C, D}
MCOutput == {A, B}
MCDepLists == {<<>>, <<D>>}

\* 3 has a low half with the sign bit set, 6 needs both halves.
MCMTime == {3, 6}

\* The log of an earlier run knows A, B and C; D is new.
MCPast == <<[out |-> A, mtime |-> 3, inputs |-> <<C>>],
            [out |-> B, mtime |-> 6, inputs |-> <<>>]>>
=============================================================================
