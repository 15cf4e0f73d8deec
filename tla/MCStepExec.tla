----------------------------- MODULE MCStepExec -----------------------------
(***************************************************************************)
(* Instance of StepExec for TLC: every semaphore has one permit, so that   *)
(* steps wait for each other; three attempts are enough for an             *)
(* authentication error, its retry and one more.  A step of a pool differs *)
(* from a local one only in its semaphore.                                 *)
(***************************************************************************)
EXTENDS StepExec

PoolAndRemote == [sema : {"pool", "remote"}, rsp : {TRUE}]
OnePermit == [m \in Semas |-> 1]

=============================================================================
