----------------------------- MODULE MCFsState -----------------------------
(***************************************************************************)
(* Small instances of FsState: one source, two generated files of which    *)
(* one must be on the disk, two contents (interchangeable: no definition   *)
(* tells one of them from the other).                                      *)
(***************************************************************************)
EXTENDS FsState, TLC

CONSTANTS A, B

MCSource == {"src"}
MCGenerated == {"obj", "bin"}
MCOutputLocal == {"bin"}
MCContent == {A, B}
MCSymmetry == Permutations(MCContent)
MCCmd == {"c1"}
=============================================================================
