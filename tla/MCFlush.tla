------------------------------ MODULE MCFlush ------------------------------
(***************************************************************************)
(* Small instances of Flush: two callers with lists of up to two of the    *)
(* files.                                                                  *)
(***************************************************************************)
EXTENDS Flush

CONSTANTS c1, c2

MCTwo == {c1, c2}
MCAllFiles == {"a", "rsp", "absent", "stat", "bad"}
MCRemoteFiles == {"a", "b"}
MCLocal == {"absent", "stat", "bad"}
MCBad == {"bad"}
MCRemoved == {"rsp", "absent"}
MCNone == {}
=============================================================================
