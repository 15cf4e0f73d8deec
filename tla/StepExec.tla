------------------------------ MODULE StepExec ------------------------------
(***************************************************************************)
(* runStep of several steps at the same time: the handler, the response    *)
(* file, local execution behind a semaphore, remote execution with the     *)
(* action cache, retries and the remote semaphore, and the deferred calls. *)
(* Module Builder has runStep as one choice of an outcome; this module is  *)
(* what happens inside.                                                    *)
(***************************************************************************)
EXTENDS Naturals, FiniteSets

CONSTANTS
    Step,
    Kinds,          \* the kinds of steps that are run, a subset of Defs
    Limit,          \* permits of the semaphores: [{"local", "pool", "remote"} -> Nat]
    Attempts,       \* how often retry.Do calls its function (10)
    CacheRead,      \* is there a cache, and may it be read (reCacheEnableRead)?
    Interruptible   \* may ctx be canceled?

Semas == {"local", "pool", "remote"}
Defs == [sema : Semas, rsp : BOOLEAN]

ASSUME StepExecAssumption ==
    /\ IsFiniteSet(Step) /\ Kinds \subseteq Defs
    /\ Limit \in [Semas -> Nat \ {0}]
    /\ Attempts \in Nat \ {0}
    /\ CacheRead \in BOOLEAN /\ Interruptible \in BOOLEAN

VARIABLES
    canceled,   \* is ctx done?
    used,       \* permits in use
    def,        \* the step: its semaphore, and whether it has a response file
    pc, err,    \* position and error of each runStep
    tries,      \* retryCount in retry.Do
    auth,       \* authRetry in retry.Do
    skipCache,  \* cmd.SkipCacheLookup
    rsp,        \* the response file: "none", "hashfs", "disk", or "unflushed" when it
                \* is in hashfs only because its last Flush failed
    outs,       \* the outputs in hashfs: "none", "old" (of an earlier build) or "new"
    done,       \* has plan.done been called?
    empties     \* successful remote results without outputs (counted up to 2)

vars == <<canceled, used, def, pc, err, tries, auth, skipCache, rsp, outs, done,
          empties>>

Init ==
    /\ canceled = FALSE
    /\ used = [m \in Semas |-> 0]
    /\ def \in [Step -> Kinds]
    /\ pc = [s \in Step |-> "start"]
    /\ err = [s \in Step |-> "nil"]
    /\ tries = [s \in Step |-> 0] /\ auth = [s \in Step |-> 0]
    /\ skipCache = [s \in Step |-> ~CacheRead]
    /\ rsp = [s \in Step |-> "none"]
    /\ outs \in [Step -> {"none", "old"}]
    /\ done = [s \in Step |-> FALSE]
    /\ empties = [s \in Step |-> 0]

-----------------------------------------------------------------------------
Goto(s, p) == pc' = [pc EXCEPT ![s] = p]
Set(s, p, e) == Goto(s, p) /\ err' = [err EXCEPT ![s] = e]

\* The call of runCmd ends with e: after an error, ctx decides whether the step
\* counts as canceled.
CmdError(s, e) == Set(s, "deferred", IF canceled THEN "canceled" ELSE e)

\* Weighted.Acquire and Release; Acquire fails when ctx is done.
Release(m) == used' = [used EXCEPT ![m] = @ - 1]
Acquire(m) == used[m] < Limit[m] /\ used' = [used EXCEPT ![m] = @ + 1]

(***************************************************************************)
(* runStep up to the command.                                              *)
(***************************************************************************)
\* needToRun says no (module UpToDate).
UpToDate(s) ==
    /\ pc[s] = "start"
    /\ outs[s] = "old"
    /\ Goto(s, "returned")
    /\ done' = [done EXCEPT ![s] = TRUE]
    /\ outs' = [outs EXCEPT ![s] = "new"]
    /\ UNCHANGED <<canceled, used, def, err, tries, auth, skipCache, rsp, empties>>

NeedToRun(s) ==
    /\ pc[s] = "start"
    /\ IF canceled THEN Set(s, "returned", "canceled")
                   ELSE Goto(s, "handler") /\ UNCHANGED err
    /\ UNCHANGED <<canceled, used, def, tries, auth, skipCache, rsp, outs, done,
                   empties>>

\* handleStep: no handler, or it only fixes the command.
NotHandled(s) ==
    /\ pc[s] = "handler"
    /\ Goto(s, "setup")
    /\ UNCHANGED <<canceled, used, def, err, tries, auth, skipCache, rsp, outs, done,
                   empties>>

HandlerFails(s) ==
    /\ pc[s] = "handler"
    /\ Set(s, "returned", "setup")
    /\ UNCHANGED <<canceled, used, def, tries, auth, skipCache, rsp, outs, done,
                   empties>>

\* The handler made the outputs.  If they cannot be flushed, the command is run.
Handled(s) ==
    /\ pc[s] = "handler"
    /\ outs' = [outs EXCEPT ![s] = "new"]
    /\ \/ Goto(s, "returned") /\ done' = [done EXCEPT ![s] = TRUE]
       \/ Goto(s, "setup") /\ UNCHANGED done
    /\ UNCHANGED <<canceled, used, def, err, tries, auth, skipCache, rsp, empties>>

\* setupRSP, depsExpandInputs and runStrategy.
SetupRSP(s) ==
    /\ pc[s] = "setup"
    /\ rsp' = [rsp EXCEPT ![s] = IF def[s].rsp THEN "hashfs" ELSE "none"]
    /\ Goto(s, IF def[s].sema = "remote" THEN "preproc" ELSE "input")
    /\ UNCHANGED <<canceled, used, def, err, tries, auth, skipCache, outs, done,
                   empties>>

SetupRSPFails(s) ==
    /\ pc[s] = "setup" /\ def[s].rsp
    /\ Set(s, "returned", "setup")
    /\ UNCHANGED <<canceled, used, def, tries, auth, skipCache, rsp, outs, done,
                   empties>>

(***************************************************************************)
(* runLocal                                                                *)
(***************************************************************************)
\* prepareLocalInputs flushes the inputs and the response file.
LocalInputs(s) ==
    /\ pc[s] = "input"
    /\ \/ /\ Goto(s, "wait-local") /\ UNCHANGED err
          /\ rsp' = [rsp EXCEPT ![s] = IF @ = "none" THEN "none" ELSE "disk"]
       \/ CmdError(s, "fail") /\ UNCHANGED rsp
    /\ UNCHANGED <<canceled, used, def, tries, auth, skipCache, outs, done,
                   empties>>

AcquireLocal(s) ==
    /\ pc[s] = "wait-local"
    /\ \/ ~canceled /\ Acquire(def[s].sema) /\ Goto(s, "local") /\ UNCHANGED err
       \/ canceled /\ CmdError(s, "canceled") /\ UNCHANGED used
    /\ UNCHANGED <<canceled, def, tries, auth, skipCache, rsp, outs, done, empties>>

\* Mutant: the permit is released only when the command succeeded.
ReleaseOnSuccess(m, e) == IF e = "nil" THEN Release(m) ELSE UNCHANGED used

\* The semaphore is released whether or not the command succeeded.
ReleaseAfterRun(m, e) == Release(m)

\* localExec.Run: the outputs are recorded if the command succeeds.
LocalRun(s) ==
    /\ pc[s] = "local"
    /\ \/ /\ Goto(s, "check-local") /\ UNCHANGED err
          /\ outs' = [outs EXCEPT ![s] = "new"]
          /\ ReleaseAfterRun(def[s].sema, "nil")
       \/ /\ CmdError(s, "fail")
          /\ ReleaseAfterRun(def[s].sema, "fail")
          /\ UNCHANGED outs
    /\ UNCHANGED <<canceled, def, tries, auth, skipCache, rsp, done, empties>>

\* updateDeps and checkLocalOutputs: the depfile may be bad, an output missing.
CheckLocal(s) ==
    /\ pc[s] = "check-local"
    /\ \/ Goto(s, "end") /\ UNCHANGED err
       \/ CmdError(s, "fail")
    /\ UNCHANGED <<canceled, used, def, tries, auth, skipCache, rsp, outs, done,
                   empties>>

(***************************************************************************)
(* runRemote                                                               *)
(***************************************************************************)
\* depsCmd: the include scan.
Preproc(s) ==
    /\ pc[s] = "preproc"
    /\ \/ Goto(s, IF CacheRead THEN "cache" ELSE "wait-remote") /\ UNCHANGED err
       \/ CmdError(s, "fail")
    /\ UNCHANGED <<canceled, used, def, tries, auth, skipCache, rsp, outs, done,
                   empties>>

\* A result without outputs: from now on the cache is not asked.
SkipCacheLookup(s) == skipCache' = [skipCache EXCEPT ![s] = TRUE]

UpToTwo(n) == IF n < 2 THEN n + 1 ELSE 2

CountEmpty(s) == empties' = [empties EXCEPT ![s] = UpToTwo(@)]

CacheMiss(s) ==
    /\ pc[s] = "cache"
    /\ Goto(s, "wait-remote")
    /\ UNCHANGED <<canceled, used, def, err, tries, auth, skipCache, rsp, outs, done,
                   empties>>

CacheEmpty(s) ==
    /\ pc[s] = "cache"
    /\ SkipCacheLookup(s)
    /\ Goto(s, "wait-remote")
    /\ CountEmpty(s)
    /\ UNCHANGED <<canceled, used, def, err, tries, auth, rsp, outs, done>>

\* The outputs of the cached result are recorded.
CacheHit(s) ==
    /\ pc[s] = "cache"
    /\ outs' = [outs EXCEPT ![s] = "new"]
    /\ Goto(s, "cache-output")
    /\ UNCHANGED <<canceled, used, def, err, tries, auth, skipCache, rsp, done,
                   empties>>

\* updateDeps and outputs after a hit; any error is dropped and the action is run.
CacheOutput(s) ==
    /\ pc[s] = "cache-output"
    /\ Goto(s, "end") \/ Goto(s, "wait-remote")
    /\ UNCHANGED <<canceled, used, def, err, tries, auth, skipCache, rsp, outs, done,
                   empties>>

\* retry.Do returns; its variables are gone.
DoReturns(s) ==
    /\ tries' = [tries EXCEPT ![s] = 0] /\ auth' = [auth EXCEPT ![s] = 0]

AcquireRemote(s) ==
    /\ pc[s] = "wait-remote"
    /\ \/ /\ ~canceled /\ Acquire("remote")
          /\ Goto(s, "remote") /\ UNCHANGED <<err, tries, auth>>
       \/ canceled /\ CmdError(s, "canceled") /\ DoReturns(s) /\ UNCHANGED used
    /\ UNCHANGED <<canceled, def, skipCache, rsp, outs, done, empties>>

\* How a call of the service may fail.  Unauthenticated and PermissionDenied are
\* "auth"; "credentials" is a response with the status Unauthenticated that says
\* "Request had invalid authentication credentials."; timeouts (DeadlineExceeded),
\* lost operations and overload are "retriable".  The calls ExecuteAndWait repeats by
\* itself are one call here.
Answers == {"fail", "retriable", "auth", "credentials"}

\* erespErr takes invalid credentials for an expired token and makes them Unavailable.
ErespErr(a) == IF a = "credentials" THEN "retriable" ELSE a

\* Mutant: a successful result without outputs is taken as it is.
AcceptEmpty(first) == FALSE

\* validateRemoteActionResult fails: the action is run once more; the second
\* time it is only logged.
RunAgain(first) == first

RemoteFails(s) ==
    /\ pc[s] \in {"remote", "rerun"}
    /\ \E a \in Answers : Set(s, "retry", ErespErr(a))
    /\ Release("remote")
    /\ UNCHANGED <<canceled, def, tries, auth, skipCache, rsp, outs, done, empties>>

RemoteSucceeds(s) ==
    /\ pc[s] \in {"remote", "rerun"}
    /\ outs' = [outs EXCEPT ![s] = "new"]
    /\ Set(s, "output", "nil")
    /\ Release("remote")
    /\ DoReturns(s)
    /\ UNCHANGED <<canceled, def, skipCache, rsp, done, empties>>

RemoteEmpty(s) ==
    /\ pc[s] \in {"remote", "rerun"}
    /\ CountEmpty(s)
    /\ IF RunAgain(pc[s] = "remote")
       THEN /\ SkipCacheLookup(s) /\ Goto(s, "rerun")
            /\ UNCHANGED <<used, err, tries, auth>>
       ELSE /\ Set(s, "output", "nil") /\ Release("remote") /\ DoReturns(s)
            /\ UNCHANGED skipCache
    /\ UNCHANGED <<canceled, def, rsp, outs, done>>

\* Mutant: authentication errors are retried like any other.
AuthRetriable(s) == err[s] \in {"retriable", "auth"}

\* retriableError
Retriable(s) == err[s] = "retriable" \/ (err[s] = "auth" /\ auth[s] + 1 < 2)

\* retryCount < 10 in the next round
MayRetry(s) == tries[s] + 1 < Attempts

\* retry.Do, after a call that failed.
Retry(s) ==
    /\ pc[s] = "retry"
    /\ IF ~canceled /\ Retriable(s) /\ MayRetry(s)
       THEN /\ Set(s, "wait-remote", "nil")
            /\ tries' = [tries EXCEPT ![s] = @ + 1]
            /\ auth' = [auth EXCEPT ![s] = IF err[s] = "auth" THEN @ + 1 ELSE @]
       ELSE CmdError(s, "fail") /\ DoReturns(s)
    /\ UNCHANGED <<canceled, used, def, skipCache, rsp, outs, done, empties>>

\* updateDeps and outputs: the outputs must be in hashfs and are flushed.
RemoteOutput(s) ==
    /\ pc[s] = "output"
    /\ \/ outs[s] # "none" /\ Goto(s, "end") /\ UNCHANGED err
       \/ CmdError(s, "fail")
    /\ UNCHANGED <<canceled, used, def, tries, auth, skipCache, rsp, outs, done,
                   empties>>

(***************************************************************************)
(* The end of runStep                                                      *)
(***************************************************************************)
Finish(s) ==
    /\ pc[s] = "end"
    /\ Goto(s, "deferred")
    /\ done' = [done EXCEPT ![s] = TRUE]
    /\ UNCHANGED <<canceled, used, def, err, tries, auth, skipCache, rsp, outs,
                   empties>>

\* Mutant: the response file is removed in any case.
RspRemoved(s) == rsp' = [rsp EXCEPT ![s] = "none"]

\* The deferred call: the response file of a failed step is flushed to the disk (an
\* error of the Flush is only logged); otherwise it is removed, from hashfs and from
\* the disk.
RspAfter(s) ==
    IF err[s] = "fail" /\ rsp[s] # "none"
    THEN \/ rsp' = [rsp EXCEPT ![s] = "disk"]
         \/ rsp[s] = "hashfs" /\ rsp' = [rsp EXCEPT ![s] = "unflushed"]
    ELSE rsp' = [rsp EXCEPT ![s] = "none"]

Deferred(s) ==
    /\ pc[s] = "deferred"
    /\ RspAfter(s)
    /\ Goto(s, "returned")
    /\ UNCHANGED <<canceled, used, def, err, tries, auth, skipCache, outs, done,
                   empties>>

Cancel ==
    /\ Interruptible /\ ~canceled
    /\ canceled' = TRUE
    /\ UNCHANGED <<used, def, pc, err, tries, auth, skipCache, rsp, outs, done,
                   empties>>

Terminated ==
    /\ \A s \in Step : pc[s] = "returned"
    /\ UNCHANGED vars

StepNext(s) ==
    \/ UpToDate(s) \/ NeedToRun(s)
    \/ NotHandled(s) \/ HandlerFails(s) \/ Handled(s)
    \/ SetupRSP(s) \/ SetupRSPFails(s)
    \/ LocalInputs(s) \/ AcquireLocal(s) \/ LocalRun(s) \/ CheckLocal(s)
    \/ Preproc(s) \/ CacheMiss(s) \/ CacheEmpty(s) \/ CacheHit(s) \/ CacheOutput(s)
    \/ AcquireRemote(s) \/ RemoteFails(s) \/ RemoteSucceeds(s) \/ RemoteEmpty(s)
    \/ Retry(s) \/ RemoteOutput(s)
    \/ Finish(s) \/ Deferred(s)

Next == (\E s \in Step : StepNext(s)) \/ Cancel \/ Terminated

Spec == Init /\ [][Next]_vars

(***************************************************************************)
(* Fairness: a goroutine that can proceed does; a command, a remote call   *)
(* and a download end.  Weak fairness is enough for the semaphores: the    *)
(* others give their permits back and come again finitely often.           *)
(***************************************************************************)
FairSpec == Spec /\ \A s \in Step : WF_vars(StepNext(s))

-----------------------------------------------------------------------------
(***************************************************************************)
(* Properties                                                              *)
(***************************************************************************)
Holds(s, m) ==
    \/ m = "remote" /\ pc[s] \in {"remote", "rerun"}
    \/ m = def[s].sema /\ pc[s] = "local"

\* The permits in use are those of the steps that are running a command: each is
\* given back on every path, so no error or retry ever shrinks the limit.
PermitsReturned ==
    \A m \in Semas : used[m] = Cardinality({s \in Step : Holds(s, m)})

\* plan.done is called for the steps whose runStep returns nil and no other, and
\* their outputs are made: by the command, the handler or the cache, or found up
\* to date.  The exception the code makes: the service has twice reported success
\* without outputs, and there are outputs of an earlier build.
DoneMeansMade ==
    \A s \in Step :
        /\ done[s] => outs[s] = "new" \/ (outs[s] = "old" /\ empties[s] = 2)
        /\ pc[s] = "returned" => (done[s] <=> err[s] = "nil")

\* "preserve rsp": after the command of a step failed, its response file is on the
\* disk for whoever repeats the command, wherever it ran, unless its Flush failed;
\* after any other step, a canceled one too, nothing is left of it.
RspFate ==
    \A s \in Step :
        pc[s] = "returned" =>
            IF err[s] = "fail" /\ def[s].rsp THEN rsp[s] \in {"disk", "unflushed"}
                                             ELSE rsp[s] = "none"

\* The action may be called, or is being called.
Calling(s) == pc[s] \in {"wait-remote", "remote", "rerun"}

\* No call is repeated that cannot help.  "retry without cache lookup": after a
\* result without outputs, the service is told not to look in its cache.  After two
\* authentication errors have reached retry.Do, the action is not called again,
\* whatever other errors came between them; one that erespErr made Unavailable
\* does not count.
NoUselessCall ==
    \A s \in Step : Calling(s) => (empties[s] > 0 => skipCache[s]) /\ auth[s] < 2

\* Every runStep returns.
Termination == <>(\A s \in Step : pc[s] = "returned")
=============================================================================
