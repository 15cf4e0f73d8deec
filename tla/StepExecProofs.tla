--------------------------- MODULE StepExecProofs ---------------------------
(***************************************************************************)
(* Proofs about StepExec, for all finite sets of steps, kinds of steps,    *)
(* limits and numbers of attempts.                                         *)
(***************************************************************************)
EXTENDS StepExec, FiniteSetTheorems, TLAPS

\* The positions of a runStep: before the response file is set up, while the
\* command is run, and after it.
Before == {"start", "handler", "setup"}
Running == {"input", "wait-local", "local", "check-local", "preproc", "cache",
            "cache-output", "wait-remote", "remote", "rerun", "output", "end"}
After == {"deferred", "returned"}

\* The errors of a call of the service, as retry.Do sees them.
Failures == {"fail", "retriable", "auth"}

TypeOK ==
    /\ canceled \in BOOLEAN
    /\ used \in [Semas -> Int]
    /\ def \in [Step -> Defs]
    /\ pc \in [Step -> Before \cup Running \cup {"retry"} \cup After]
    /\ err \in [Step -> {"nil", "canceled", "setup"} \cup Failures]
    /\ tries \in [Step -> Nat] /\ auth \in [Step -> Nat]
    /\ skipCache \in [Step -> BOOLEAN]
    /\ rsp \in [Step -> {"none", "hashfs", "disk", "unflushed"}]
    /\ outs \in [Step -> {"none", "old", "new"}]
    /\ done \in [Step -> BOOLEAN]
    /\ empties \in [Step -> 0..2]

-----------------------------------------------------------------------------
(***************************************************************************)
(* What is known at each position of a runStep.                            *)
(***************************************************************************)
Made(s) == outs[s] = "new" \/ (outs[s] = "old" /\ empties[s] = 2)

\* An error is set only by what ends the step or starts the next attempt, and
\* plan.done is called by what returns nil.
ErrInv(s) ==
    /\ pc[s] \in Before \cup Running => err[s] = "nil"
    /\ pc[s] = "retry" => err[s] \in Failures
    /\ pc[s] \in After => err[s] \in {"nil", "canceled", "setup", "fail"}
    /\ pc[s] \in After => (done[s] <=> err[s] = "nil")
    /\ pc[s] \notin After => ~done[s]

\* The outputs on the way to plan.done.  A second result without outputs is
\* accepted only after a first one.
OutsInv(s) ==
    /\ pc[s] \in {"check-local", "cache-output"} => outs[s] = "new"
    /\ pc[s] = "rerun" => empties[s] > 0
    /\ pc[s] = "output" => outs[s] = "new" \/ empties[s] = 2
    /\ pc[s] = "end" \/ done[s] => Made(s)

\* The response file is there from setupRSP to the deferred call.
RspInv(s) ==
    /\ pc[s] \in Before => rsp[s] = "none"
    /\ pc[s] \in Running \cup {"retry", "deferred"} => (rsp[s] # "none" <=> def[s].rsp)
    /\ pc[s] = "returned" =>
         IF err[s] = "fail" /\ def[s].rsp THEN rsp[s] \in {"disk", "unflushed"}
                                          ELSE rsp[s] = "none"

\* What is remembered between the attempts.
CallInv(s) ==
    /\ empties[s] > 0 => skipCache[s]
    /\ pc[s] \notin After => auth[s] < 2

StepInv(s) == ErrInv(s) /\ OutsInv(s) /\ RspInv(s) /\ CallInv(s)

Inv == TypeOK /\ \A s \in Step : StepInv(s)

\* Acquire and Release count in the integers.
LEMMA PermitType ==
    ASSUME used \in [Semas -> Int], NEW m \in Semas, Acquire(m) \/ Release(m)
    PROVE  used' \in [Semas -> Int]
BY DEF Acquire, Release

\* An action of a step keeps the types.
LEMMA StepType ==
    ASSUME TypeOK, NEW s \in Step, StepNext(s)
    PROVE  TypeOK'
<1>1. CASE UpToDate(s)
  BY <1>1 DEF UpToDate, Goto, TypeOK, Before, Running, After, Failures, Semas, Defs
<1>2. CASE NeedToRun(s)
  BY <1>2 DEF NeedToRun, Set, Goto, TypeOK, Before, Running, After, Failures, Semas,
      Defs
<1>3. CASE NotHandled(s)
  BY <1>3 DEF NotHandled, Goto, TypeOK, Before, Running, After, Failures, Semas, Defs
<1>4. CASE HandlerFails(s)
  BY <1>4 DEF HandlerFails, Set, Goto, TypeOK, Before, Running, After, Failures, Semas,
      Defs
<1>5. CASE Handled(s)
  BY <1>5 DEF Handled, Goto, TypeOK, Before, Running, After, Failures, Semas, Defs
<1>6. CASE SetupRSP(s)
  BY <1>6 DEF SetupRSP, Goto, TypeOK, Before, Running, After, Failures, Semas, Defs
<1>7. CASE SetupRSPFails(s)
  BY <1>7 DEF SetupRSPFails, Set, Goto, TypeOK, Before, Running, After, Failures, Semas,
      Defs
<1>8. CASE LocalInputs(s)
  BY <1>8 DEF LocalInputs, CmdError, Set, Goto, TypeOK, Before, Running, After,
      Failures, Semas, Defs
<1>9. CASE AcquireLocal(s)
  <2>1. def[s].sema \in Semas
    BY DEF TypeOK, Defs, Semas
  <2>2. used' \in [Semas -> Int]
    BY <1>9, <2>1, PermitType DEF TypeOK, AcquireLocal
  <2> QED
    BY <1>9, <2>2 DEF AcquireLocal, CmdError, Set, Goto, TypeOK, Before, Running,
        After, Failures
<1>10. CASE LocalRun(s)
  <2>1. def[s].sema \in Semas
    BY DEF TypeOK, Defs, Semas
  <2>2. used' \in [Semas -> Int]
    BY <1>10, <2>1, PermitType DEF TypeOK, LocalRun, ReleaseAfterRun
  <2> QED
    BY <1>10, <2>2 DEF LocalRun, CmdError, Set, Goto, TypeOK, Before, Running, After,
        Failures
<1>11. CASE CheckLocal(s)
  BY <1>11 DEF CheckLocal, CmdError, Set, Goto, TypeOK, Before, Running, After,
      Failures, Semas, Defs
<1>12. CASE Preproc(s)
  BY <1>12 DEF Preproc, CmdError, Set, Goto, TypeOK, Before, Running, After, Failures,
      Semas, Defs
<1>13. CASE CacheMiss(s)
  BY <1>13 DEF CacheMiss, Goto, TypeOK, Before, Running, After, Failures, Semas, Defs
<1>14. CASE CacheEmpty(s)
  BY <1>14 DEF CacheEmpty, SkipCacheLookup, CountEmpty, UpToTwo, Goto, TypeOK, Before,
      Running, After, Failures, Semas, Defs
<1>15. CASE CacheHit(s)
  BY <1>15 DEF CacheHit, Goto, TypeOK, Before, Running, After, Failures, Semas, Defs
<1>16. CASE CacheOutput(s)
  BY <1>16 DEF CacheOutput, Goto, TypeOK, Before, Running, After, Failures, Semas, Defs
<1>17. CASE AcquireRemote(s)
  <2>1. "remote" \in Semas
    BY DEF TypeOK, Defs, Semas
  <2>2. used' \in [Semas -> Int]
    BY <1>17, <2>1, PermitType DEF TypeOK, AcquireRemote
  <2> QED
    BY <1>17, <2>2 DEF AcquireRemote, DoReturns, CmdError, Set, Goto, TypeOK, Before,
        Running, After, Failures
<1>18. CASE RemoteFails(s)
  <2>1. "remote" \in Semas
    BY DEF TypeOK, Defs, Semas
  <2>2. used' \in [Semas -> Int]
    BY <1>18, <2>1, PermitType DEF TypeOK, RemoteFails
  <2> QED
    BY <1>18, <2>2 DEF RemoteFails, Answers, ErespErr, UpToTwo, Set, Goto, TypeOK,
        Before, Running, After, Failures
<1>19. CASE RemoteSucceeds(s)
  <2>1. "remote" \in Semas
    BY DEF TypeOK, Defs, Semas
  <2>2. used' \in [Semas -> Int]
    BY <1>19, <2>1, PermitType DEF TypeOK, RemoteSucceeds
  <2> QED
    BY <1>19, <2>2 DEF RemoteSucceeds, DoReturns, Set, Goto, TypeOK, Before, Running,
        After, Failures
<1>20. CASE RemoteEmpty(s)
  <2>1. "remote" \in Semas
    BY DEF TypeOK, Defs, Semas
  <2>2. used' \in [Semas -> Int]
    BY <1>20, <2>1, PermitType DEF TypeOK, RemoteEmpty, RunAgain
  <2>3. empties' \in [Step -> 0..2]
    BY <1>20 DEF TypeOK, RemoteEmpty, CountEmpty, UpToTwo
  <2>4. CASE pc[s] = "remote"
    BY <1>20, <2>2, <2>3, <2>4 DEF RemoteEmpty, RunAgain, SkipCacheLookup, Goto, TypeOK,
        Running
  <2>5. CASE pc[s] = "rerun"
    <3>1. Set(s, "output", "nil") /\ DoReturns(s) /\ UNCHANGED skipCache
      BY <1>20, <2>5 DEF RemoteEmpty, RunAgain
    <3>2. tries' \in [Step -> Nat] /\ auth' \in [Step -> Nat]
      BY <3>1 DEF DoReturns, TypeOK
    <3> QED
      BY <1>20, <2>2, <2>3, <3>1, <3>2 DEF RemoteEmpty, Set, Goto, TypeOK, Running
  <2> QED
    BY <1>20, <2>4, <2>5 DEF RemoteEmpty
<1>21. CASE Retry(s)
  <2>1. tries' \in [Step -> Nat] /\ auth' \in [Step -> Nat]
    BY <1>21 DEF TypeOK, Retry, DoReturns
  <2>2. Set(s, "wait-remote", "nil") \/ CmdError(s, "fail")
    BY <1>21 DEF Retry
  <2> QED
    BY <1>21, <2>1, <2>2 DEF Retry, DoReturns, CmdError, Set, Goto, TypeOK, Running,
        After, Failures
<1>22. CASE RemoteOutput(s)
  BY <1>22 DEF RemoteOutput, CmdError, Set, Goto, TypeOK, Before, Running, After,
      Failures, Semas, Defs
<1>23. CASE Finish(s)
  BY <1>23 DEF Finish, Goto, TypeOK, Before, Running, After, Failures, Semas, Defs
<1>24. CASE Deferred(s)
  BY <1>24 DEF Deferred, RspAfter, Goto, TypeOK, Before, Running, After, Failures,
      Semas, Defs
<1> QED
  BY <1>1, <1>2, <1>3, <1>4, <1>5, <1>6, <1>7, <1>8, <1>9, <1>10, <1>11, <1>12, <1>13,
     <1>14, <1>15, <1>16, <1>17, <1>18, <1>19, <1>20, <1>21, <1>22, <1>23, <1>24 DEF StepNext

\* An action of s leaves the other steps alone.
Frame(s) ==
    /\ UNCHANGED <<canceled, def>>
    /\ \A t \in Step \ {s} :
         /\ pc'[t] = pc[t] /\ err'[t] = err[t]
         /\ auth'[t] = auth[t] /\ skipCache'[t] = skipCache[t]
         /\ rsp'[t] = rsp[t] /\ outs'[t] = outs[t]
         /\ done'[t] = done[t] /\ empties'[t] = empties[t]

\* Nothing of another step changes.
LEMMA StepFrame ==
    ASSUME TypeOK, NEW s \in Step, StepNext(s)
    PROVE  Frame(s)
<1>1. CASE UpToDate(s)
  BY <1>1 DEF UpToDate, Goto, TypeOK, Frame
<1>2. CASE NeedToRun(s)
  BY <1>2 DEF NeedToRun, Set, Goto, TypeOK, Frame
<1>3. CASE NotHandled(s)
  BY <1>3 DEF NotHandled, Goto, TypeOK, Frame
<1>4. CASE HandlerFails(s)
  BY <1>4 DEF HandlerFails, Set, Goto, TypeOK, Frame
<1>5. CASE Handled(s)
  BY <1>5 DEF Handled, Goto, TypeOK, Frame
<1>6. CASE SetupRSP(s)
  BY <1>6 DEF SetupRSP, Goto, TypeOK, Frame
<1>7. CASE SetupRSPFails(s)
  BY <1>7 DEF SetupRSPFails, Set, Goto, TypeOK, Frame
<1>8. CASE LocalInputs(s)
  BY <1>8 DEF LocalInputs, CmdError, Set, Goto, TypeOK, Frame
<1>9. CASE AcquireLocal(s)
  BY <1>9 DEF AcquireLocal, Acquire, CmdError, Set, Goto, TypeOK, Frame
<1>10. CASE LocalRun(s)
  BY <1>10 DEF LocalRun, ReleaseAfterRun, Release, CmdError, Set, Goto, TypeOK, Frame
<1>11. CASE CheckLocal(s)
  BY <1>11 DEF CheckLocal, CmdError, Set, Goto, TypeOK, Frame
<1>12. CASE Preproc(s)
  BY <1>12 DEF Preproc, CmdError, Set, Goto, TypeOK, Frame
<1>13. CASE CacheMiss(s)
  BY <1>13 DEF CacheMiss, Goto, TypeOK, Frame
<1>14. CASE CacheEmpty(s)
  BY <1>14 DEF CacheEmpty, SkipCacheLookup, CountEmpty, UpToTwo, Goto, TypeOK, Frame
<1>15. CASE CacheHit(s)
  BY <1>15 DEF CacheHit, Goto, TypeOK, Frame
<1>16. CASE CacheOutput(s)
  BY <1>16 DEF CacheOutput, Goto, TypeOK, Frame
<1>17. CASE AcquireRemote(s)
  BY <1>17 DEF AcquireRemote, DoReturns, Acquire, CmdError, Set, Goto, TypeOK, Frame
<1>18. CASE RemoteFails(s)
  BY <1>18 DEF RemoteFails, Answers, ErespErr, UpToTwo, Release, Set, Goto, TypeOK,
      Frame
<1>19. CASE RemoteSucceeds(s)
  BY <1>19 DEF RemoteSucceeds, DoReturns, Release, Set, Goto, TypeOK, Frame
<1>20. CASE RemoteEmpty(s)
  BY <1>20 DEF RemoteEmpty, DoReturns, RunAgain, SkipCacheLookup, CountEmpty, UpToTwo,
      Release, Set, Goto, TypeOK, Frame
<1>21. CASE Retry(s)
  BY <1>21 DEF Retry, DoReturns, Retriable, MayRetry, CmdError, Set, Goto, TypeOK, Frame
<1>22. CASE RemoteOutput(s)
  BY <1>22 DEF RemoteOutput, CmdError, Set, Goto, TypeOK, Frame
<1>23. CASE Finish(s)
  BY <1>23 DEF Finish, Goto, TypeOK, Frame
<1>24. CASE Deferred(s)
  BY <1>24 DEF Deferred, RspAfter, Goto, TypeOK, Frame
<1> QED
  BY <1>1, <1>2, <1>3, <1>4, <1>5, <1>6, <1>7, <1>8, <1>9, <1>10, <1>11, <1>12, <1>13,
     <1>14, <1>15, <1>16, <1>17, <1>18, <1>19, <1>20, <1>21, <1>22, <1>23, <1>24 DEF StepNext

\* ErrInv of the step that acts.
LEMMA StepKeepsErr ==
    ASSUME TypeOK, NEW s \in Step, StepInv(s), StepNext(s)
    PROVE  ErrInv(s)'
<1>1. CASE UpToDate(s)
  BY <1>1 DEF UpToDate, Goto, TypeOK, StepInv, ErrInv, Before, Running, After, Failures
<1>2. CASE NeedToRun(s)
  BY <1>2 DEF NeedToRun, Set, Goto, TypeOK, StepInv, ErrInv, Before, Running, After,
      Failures
<1>3. CASE NotHandled(s)
  BY <1>3 DEF NotHandled, Goto, TypeOK, StepInv, ErrInv, Before, Running, After,
      Failures
<1>4. CASE HandlerFails(s)
  BY <1>4 DEF HandlerFails, Set, Goto, TypeOK, StepInv, ErrInv, Before, Running, After,
      Failures
<1>5. CASE Handled(s)
  BY <1>5 DEF Handled, Goto, TypeOK, StepInv, ErrInv, Before, Running, After, Failures
<1>6. CASE SetupRSP(s)
  BY <1>6 DEF SetupRSP, Goto, TypeOK, StepInv, ErrInv, Before, Running, After, Failures
<1>7. CASE SetupRSPFails(s)
  BY <1>7 DEF SetupRSPFails, Set, Goto, TypeOK, StepInv, ErrInv, Before, Running, After,
      Failures
<1>8. CASE LocalInputs(s)
  BY <1>8 DEF LocalInputs, CmdError, Set, Goto, TypeOK, StepInv, ErrInv, Before,
      Running, After, Failures
<1>9. CASE AcquireLocal(s)
  BY <1>9 DEF AcquireLocal, Acquire, CmdError, Set, Goto, TypeOK, StepInv, ErrInv,
      Before, Running, After, Failures
<1>10. CASE LocalRun(s)
  BY <1>10 DEF LocalRun, ReleaseAfterRun, Release, CmdError, Set, Goto, TypeOK, StepInv,
      ErrInv, Before, Running, After, Failures
<1>11. CASE CheckLocal(s)
  BY <1>11 DEF CheckLocal, CmdError, Set, Goto, TypeOK, StepInv, ErrInv, Before,
      Running, After, Failures
<1>12. CASE Preproc(s)
  BY <1>12 DEF Preproc, CmdError, Set, Goto, TypeOK, StepInv, ErrInv, Before, Running,
      After, Failures
<1>13. CASE CacheMiss(s)
  BY <1>13 DEF CacheMiss, Goto, TypeOK, StepInv, ErrInv, Before, Running, After,
      Failures
<1>14. CASE CacheEmpty(s)
  BY <1>14 DEF CacheEmpty, SkipCacheLookup, CountEmpty, UpToTwo, Goto, TypeOK, StepInv,
      ErrInv, Before, Running, After, Failures
<1>15. CASE CacheHit(s)
  BY <1>15 DEF CacheHit, Goto, TypeOK, StepInv, ErrInv, Before, Running, After, Failures
<1>16. CASE CacheOutput(s)
  BY <1>16 DEF CacheOutput, Goto, TypeOK, StepInv, ErrInv, Before, Running, After,
      Failures
<1>17. CASE AcquireRemote(s)
  BY <1>17 DEF AcquireRemote, DoReturns, Acquire, CmdError, Set, Goto, TypeOK, StepInv,
      ErrInv, Before, Running, After, Failures
<1>18. CASE RemoteFails(s)
  BY <1>18 DEF RemoteFails, Answers, ErespErr, UpToTwo, Release, Set, Goto, TypeOK,
      StepInv, ErrInv, Before, Running, After, Failures
<1>19. CASE RemoteSucceeds(s)
  BY <1>19 DEF RemoteSucceeds, DoReturns, Release, Set, Goto, TypeOK, StepInv, ErrInv,
      Before, Running, After, Failures
<1>20. CASE RemoteEmpty(s)
  BY <1>20 DEF RemoteEmpty, DoReturns, RunAgain, SkipCacheLookup, CountEmpty, UpToTwo,
      Release, Set, Goto, TypeOK, StepInv, ErrInv, Before, Running, After, Failures
<1>21. CASE Retry(s)
  BY <1>21 DEF Retry, DoReturns, Retriable, MayRetry, CmdError, Set, Goto, TypeOK,
      StepInv, ErrInv, Before, Running, After, Failures
<1>22. CASE RemoteOutput(s)
  BY <1>22 DEF RemoteOutput, CmdError, Set, Goto, TypeOK, StepInv, ErrInv, Before,
      Running, After, Failures
<1>23. CASE Finish(s)
  BY <1>23 DEF Finish, Goto, TypeOK, StepInv, ErrInv, Before, Running, After, Failures
<1>24. CASE Deferred(s)
  BY <1>24 DEF Deferred, RspAfter, Goto, TypeOK, StepInv, ErrInv, Before, Running,
      After, Failures
<1> QED
  BY <1>1, <1>2, <1>3, <1>4, <1>5, <1>6, <1>7, <1>8, <1>9, <1>10, <1>11, <1>12, <1>13,
     <1>14, <1>15, <1>16, <1>17, <1>18, <1>19, <1>20, <1>21, <1>22, <1>23, <1>24 DEF StepNext

\* OutsInv of the step that acts.
LEMMA StepKeepsOuts ==
    ASSUME TypeOK, NEW s \in Step, StepInv(s), StepNext(s)
    PROVE  OutsInv(s)'
<1>1. CASE UpToDate(s)
  BY <1>1 DEF UpToDate, Goto, TypeOK, StepInv, OutsInv, ErrInv, Made, Before, Running,
      After, Failures
<1>2. CASE NeedToRun(s)
  BY <1>2 DEF NeedToRun, Set, Goto, TypeOK, StepInv, OutsInv, ErrInv, Made, Before,
      Running, After, Failures
<1>3. CASE NotHandled(s)
  BY <1>3 DEF NotHandled, Goto, TypeOK, StepInv, OutsInv, ErrInv, Made, Before, Running,
      After, Failures
<1>4. CASE HandlerFails(s)
  BY <1>4 DEF HandlerFails, Set, Goto, TypeOK, StepInv, OutsInv, ErrInv, Made, Before,
      Running, After, Failures
<1>5. CASE Handled(s)
  BY <1>5 DEF Handled, Goto, TypeOK, StepInv, OutsInv, ErrInv, Made, Before, Running,
      After, Failures
<1>6. CASE SetupRSP(s)
  BY <1>6 DEF SetupRSP, Goto, TypeOK, StepInv, OutsInv, ErrInv, Made, Before, Running,
      After, Failures
<1>7. CASE SetupRSPFails(s)
  BY <1>7 DEF SetupRSPFails, Set, Goto, TypeOK, StepInv, OutsInv, ErrInv, Made, Before,
      Running, After, Failures
<1>8. CASE LocalInputs(s)
  BY <1>8 DEF LocalInputs, CmdError, Set, Goto, TypeOK, StepInv, OutsInv, ErrInv, Made,
      Before, Running, After, Failures
<1>9. CASE AcquireLocal(s)
  BY <1>9 DEF AcquireLocal, Acquire, CmdError, Set, Goto, TypeOK, StepInv, OutsInv,
      ErrInv, Made, Before, Running, After, Failures
<1>10. CASE LocalRun(s)
  BY <1>10 DEF LocalRun, ReleaseAfterRun, Release, CmdError, Set, Goto, TypeOK, StepInv,
      OutsInv, ErrInv, Made, Before, Running, After, Failures
<1>11. CASE CheckLocal(s)
  BY <1>11 DEF CheckLocal, CmdError, Set, Goto, TypeOK, StepInv, OutsInv, ErrInv, Made,
      Before, Running, After, Failures
<1>12. CASE Preproc(s)
  BY <1>12 DEF Preproc, CmdError, Set, Goto, TypeOK, StepInv, OutsInv, ErrInv, Made,
      Before, Running, After, Failures
<1>13. CASE CacheMiss(s)
  BY <1>13 DEF CacheMiss, Goto, TypeOK, StepInv, OutsInv, ErrInv, Made, Before, Running,
      After, Failures
<1>14. CASE CacheEmpty(s)
  BY <1>14 DEF CacheEmpty, SkipCacheLookup, CountEmpty, UpToTwo, Goto, TypeOK, StepInv,
      OutsInv, ErrInv, Made, Before, Running, After, Failures
<1>15. CASE CacheHit(s)
  BY <1>15 DEF CacheHit, Goto, TypeOK, StepInv, OutsInv, ErrInv, Made, Before, Running,
      After, Failures
<1>16. CASE CacheOutput(s)
  BY <1>16 DEF CacheOutput, Goto, TypeOK, StepInv, OutsInv, ErrInv, Made, Before,
      Running, After, Failures
<1>17. CASE AcquireRemote(s)
  BY <1>17 DEF AcquireRemote, DoReturns, Acquire, CmdError, Set, Goto, TypeOK, StepInv,
      OutsInv, ErrInv, Made, Before, Running, After, Failures
<1>18. CASE RemoteFails(s)
  BY <1>18 DEF RemoteFails, Answers, ErespErr, UpToTwo, Release, Set, Goto, TypeOK,
      StepInv, OutsInv, ErrInv, Made, Before, Running, After, Failures
<1>19. CASE RemoteSucceeds(s)
  BY <1>19 DEF RemoteSucceeds, DoReturns, Release, Set, Goto, TypeOK, StepInv, OutsInv,
      ErrInv, Made, Before, Running, After, Failures
<1>20. CASE RemoteEmpty(s)
  BY <1>20 DEF RemoteEmpty, DoReturns, RunAgain, SkipCacheLookup, CountEmpty, UpToTwo,
      Release, Set, Goto, TypeOK, StepInv, OutsInv, ErrInv, Made, Before, Running,
      After, Failures
<1>21. CASE Retry(s)
  BY <1>21 DEF Retry, DoReturns, Retriable, MayRetry, CmdError, Set, Goto, TypeOK,
      StepInv, OutsInv, ErrInv, Made, Before, Running, After, Failures
<1>22. CASE RemoteOutput(s)
  BY <1>22 DEF RemoteOutput, CmdError, Set, Goto, TypeOK, StepInv, OutsInv, ErrInv,
      Made, Before, Running, After, Failures
<1>23. CASE Finish(s)
  BY <1>23 DEF Finish, Goto, TypeOK, StepInv, OutsInv, ErrInv, Made, Before, Running,
      After, Failures
<1>24. CASE Deferred(s)
  BY <1>24 DEF Deferred, RspAfter, Goto, TypeOK, StepInv, OutsInv, ErrInv, Made, Before,
      Running, After, Failures
<1> QED
  BY <1>1, <1>2, <1>3, <1>4, <1>5, <1>6, <1>7, <1>8, <1>9, <1>10, <1>11, <1>12, <1>13,
     <1>14, <1>15, <1>16, <1>17, <1>18, <1>19, <1>20, <1>21, <1>22, <1>23, <1>24 DEF StepNext

\* RspInv of the step that acts.
LEMMA StepKeepsRsp ==
    ASSUME TypeOK, NEW s \in Step, StepInv(s), StepNext(s)
    PROVE  RspInv(s)'
<1>1. CASE UpToDate(s)
  BY <1>1 DEF UpToDate, Goto, TypeOK, StepInv, ErrInv, RspInv, Before, Running, After,
      Failures
<1>2. CASE NeedToRun(s)
  BY <1>2 DEF NeedToRun, Set, Goto, TypeOK, StepInv, ErrInv, RspInv, Before, Running,
      After, Failures
<1>3. CASE NotHandled(s)
  BY <1>3 DEF NotHandled, Goto, TypeOK, StepInv, ErrInv, RspInv, Before, Running, After,
      Failures
<1>4. CASE HandlerFails(s)
  BY <1>4 DEF HandlerFails, Set, Goto, TypeOK, StepInv, ErrInv, RspInv, Before, Running,
      After, Failures
<1>5. CASE Handled(s)
  BY <1>5 DEF Handled, Goto, TypeOK, StepInv, ErrInv, RspInv, Before, Running, After,
      Failures
<1>6. CASE SetupRSP(s)
  BY <1>6 DEF SetupRSP, Goto, TypeOK, StepInv, ErrInv, RspInv, Before, Running, After,
      Failures
<1>7. CASE SetupRSPFails(s)
  BY <1>7 DEF SetupRSPFails, Set, Goto, TypeOK, StepInv, ErrInv, RspInv, Before,
      Running, After, Failures
<1>8. CASE LocalInputs(s)
  BY <1>8 DEF LocalInputs, CmdError, Set, Goto, TypeOK, StepInv, ErrInv, RspInv, Before,
      Running, After, Failures
<1>9. CASE AcquireLocal(s)
  BY <1>9 DEF AcquireLocal, Acquire, CmdError, Set, Goto, TypeOK, StepInv, ErrInv,
      RspInv, Before, Running, After, Failures
<1>10. CASE LocalRun(s)
  BY <1>10 DEF LocalRun, ReleaseAfterRun, Release, CmdError, Set, Goto, TypeOK, StepInv,
      ErrInv, RspInv, Before, Running, After, Failures
<1>11. CASE CheckLocal(s)
  BY <1>11 DEF CheckLocal, CmdError, Set, Goto, TypeOK, StepInv, ErrInv, RspInv, Before,
      Running, After, Failures
<1>12. CASE Preproc(s)
  BY <1>12 DEF Preproc, CmdError, Set, Goto, TypeOK, StepInv, ErrInv, RspInv, Before,
      Running, After, Failures
<1>13. CASE CacheMiss(s)
  BY <1>13 DEF CacheMiss, Goto, TypeOK, StepInv, ErrInv, RspInv, Before, Running, After,
      Failures
<1>14. CASE CacheEmpty(s)
  BY <1>14 DEF CacheEmpty, SkipCacheLookup, CountEmpty, UpToTwo, Goto, TypeOK, StepInv,
      ErrInv, RspInv, Before, Running, After, Failures
<1>15. CASE CacheHit(s)
  BY <1>15 DEF CacheHit, Goto, TypeOK, StepInv, ErrInv, RspInv, Before, Running, After,
      Failures
<1>16. CASE CacheOutput(s)
  BY <1>16 DEF CacheOutput, Goto, TypeOK, StepInv, ErrInv, RspInv, Before, Running,
      After, Failures
<1>17. CASE AcquireRemote(s)
  BY <1>17 DEF AcquireRemote, DoReturns, Acquire, CmdError, Set, Goto, TypeOK, StepInv,
      ErrInv, RspInv, Before, Running, After, Failures
<1>18. CASE RemoteFails(s)
  BY <1>18 DEF RemoteFails, Answers, ErespErr, UpToTwo, Release, Set, Goto, TypeOK,
      StepInv, ErrInv, RspInv, Before, Running, After, Failures
<1>19. CASE RemoteSucceeds(s)
  BY <1>19 DEF RemoteSucceeds, DoReturns, Release, Set, Goto, TypeOK, StepInv, ErrInv,
      RspInv, Before, Running, After, Failures
<1>20. CASE RemoteEmpty(s)
  BY <1>20 DEF RemoteEmpty, DoReturns, RunAgain, SkipCacheLookup, CountEmpty, UpToTwo,
      Release, Set, Goto, TypeOK, StepInv, ErrInv, RspInv, Before, Running, After,
      Failures
<1>21. CASE Retry(s)
  BY <1>21 DEF Retry, DoReturns, Retriable, MayRetry, CmdError, Set, Goto, TypeOK,
      StepInv, ErrInv, RspInv, Before, Running, After, Failures
<1>22. CASE RemoteOutput(s)
  BY <1>22 DEF RemoteOutput, CmdError, Set, Goto, TypeOK, StepInv, ErrInv, RspInv,
      Before, Running, After, Failures
<1>23. CASE Finish(s)
  BY <1>23 DEF Finish, Goto, TypeOK, StepInv, ErrInv, RspInv, Before, Running, After,
      Failures
<1>24. CASE Deferred(s)
  BY <1>24 DEF Deferred, RspAfter, Goto, TypeOK, StepInv, ErrInv, RspInv, Before,
      Running, After, Failures
<1> QED
  BY <1>1, <1>2, <1>3, <1>4, <1>5, <1>6, <1>7, <1>8, <1>9, <1>10, <1>11, <1>12, <1>13,
     <1>14, <1>15, <1>16, <1>17, <1>18, <1>19, <1>20, <1>21, <1>22, <1>23, <1>24 DEF StepNext

\* CallInv of the step that acts.
LEMMA StepKeepsCall ==
    ASSUME TypeOK, NEW s \in Step, StepInv(s), StepNext(s)
    PROVE  CallInv(s)'
<1>1. CASE UpToDate(s)
  BY <1>1 DEF UpToDate, Goto, TypeOK, StepInv, OutsInv, CallInv, Before, Running, After,
      Failures
<1>2. CASE NeedToRun(s)
  BY <1>2 DEF NeedToRun, Set, Goto, TypeOK, StepInv, OutsInv, CallInv, Before, Running,
      After, Failures
<1>3. CASE NotHandled(s)
  BY <1>3 DEF NotHandled, Goto, TypeOK, StepInv, OutsInv, CallInv, Before, Running,
      After, Failures
<1>4. CASE HandlerFails(s)
  BY <1>4 DEF HandlerFails, Set, Goto, TypeOK, StepInv, OutsInv, CallInv, Before,
      Running, After, Failures
<1>5. CASE Handled(s)
  BY <1>5 DEF Handled, Goto, TypeOK, StepInv, OutsInv, CallInv, Before, Running, After,
      Failures
<1>6. CASE SetupRSP(s)
  BY <1>6 DEF SetupRSP, Goto, TypeOK, StepInv, OutsInv, CallInv, Before, Running, After,
      Failures
<1>7. CASE SetupRSPFails(s)
  BY <1>7 DEF SetupRSPFails, Set, Goto, TypeOK, StepInv, OutsInv, CallInv, Before,
      Running, After, Failures
<1>8. CASE LocalInputs(s)
  BY <1>8 DEF LocalInputs, CmdError, Set, Goto, TypeOK, StepInv, OutsInv, CallInv,
      Before, Running, After, Failures
<1>9. CASE AcquireLocal(s)
  BY <1>9 DEF AcquireLocal, Acquire, CmdError, Set, Goto, TypeOK, StepInv, OutsInv,
      CallInv, Before, Running, After, Failures
<1>10. CASE LocalRun(s)
  BY <1>10 DEF LocalRun, ReleaseAfterRun, Release, CmdError, Set, Goto, TypeOK, StepInv,
      OutsInv, CallInv, Before, Running, After, Failures
<1>11. CASE CheckLocal(s)
  BY <1>11 DEF CheckLocal, CmdError, Set, Goto, TypeOK, StepInv, OutsInv, CallInv,
      Before, Running, After, Failures
<1>12. CASE Preproc(s)
  BY <1>12 DEF Preproc, CmdError, Set, Goto, TypeOK, StepInv, OutsInv, CallInv, Before,
      Running, After, Failures
<1>13. CASE CacheMiss(s)
  BY <1>13 DEF CacheMiss, Goto, TypeOK, StepInv, OutsInv, CallInv, Before, Running,
      After, Failures
<1>14. CASE CacheEmpty(s)
  BY <1>14 DEF CacheEmpty, SkipCacheLookup, CountEmpty, UpToTwo, Goto, TypeOK, StepInv,
      OutsInv, CallInv, Before, Running, After, Failures
<1>15. CASE CacheHit(s)
  BY <1>15 DEF CacheHit, Goto, TypeOK, StepInv, OutsInv, CallInv, Before, Running,
      After, Failures
<1>16. CASE CacheOutput(s)
  BY <1>16 DEF CacheOutput, Goto, TypeOK, StepInv, OutsInv, CallInv, Before, Running,
      After, Failures
<1>17. CASE AcquireRemote(s)
  BY <1>17 DEF AcquireRemote, DoReturns, Acquire, CmdError, Set, Goto, TypeOK, StepInv,
      OutsInv, CallInv, Before, Running, After, Failures
<1>18. CASE RemoteFails(s)
  BY <1>18 DEF RemoteFails, Answers, ErespErr, UpToTwo, Release, Set, Goto, TypeOK,
      StepInv, OutsInv, CallInv, Before, Running, After, Failures
<1>19. CASE RemoteSucceeds(s)
  BY <1>19 DEF RemoteSucceeds, DoReturns, Release, Set, Goto, TypeOK, StepInv, OutsInv,
      CallInv, Before, Running, After, Failures
<1>20. CASE RemoteEmpty(s)
  BY <1>20 DEF RemoteEmpty, DoReturns, RunAgain, SkipCacheLookup, CountEmpty, UpToTwo,
      Release, Set, Goto, TypeOK, StepInv, OutsInv, CallInv, Before, Running, After,
      Failures
<1>21. CASE Retry(s)
  BY <1>21 DEF Retry, DoReturns, Retriable, MayRetry, CmdError, Set, Goto, TypeOK,
      StepInv, OutsInv, CallInv, Before, Running, After, Failures
<1>22. CASE RemoteOutput(s)
  BY <1>22 DEF RemoteOutput, CmdError, Set, Goto, TypeOK, StepInv, OutsInv, CallInv,
      Before, Running, After, Failures
<1>23. CASE Finish(s)
  BY <1>23 DEF Finish, Goto, TypeOK, StepInv, OutsInv, CallInv, Before, Running, After,
      Failures
<1>24. CASE Deferred(s)
  BY <1>24 DEF Deferred, RspAfter, Goto, TypeOK, StepInv, OutsInv, CallInv, Before,
      Running, After, Failures
<1> QED
  BY <1>1, <1>2, <1>3, <1>4, <1>5, <1>6, <1>7, <1>8, <1>9, <1>10, <1>11, <1>12, <1>13,
     <1>14, <1>15, <1>16, <1>17, <1>18, <1>19, <1>20, <1>21, <1>22, <1>23, <1>24 DEF StepNext

-----------------------------------------------------------------------------
\* Inv is inductive.  It holds initially.
LEMMA InvInit == Init => Inv
<1> SUFFICES ASSUME Init PROVE Inv
  OBVIOUS
<1>1. TypeOK
  <2>1. def \in [Step -> Defs]
    BY StepExecAssumption DEF Init
  <2>2. outs \in [Step -> {"none", "old", "new"}]
    BY DEF Init
  <2>3. skipCache \in [Step -> BOOLEAN]
    <3>1. \A s \in Step : skipCache[s] \in BOOLEAN
      BY DEF Init
    <3> QED
      BY <3>1 DEF Init
  <2>4. canceled \in BOOLEAN /\ done \in [Step -> BOOLEAN]
    BY DEF Init
  <2>5. used \in [Semas -> Int]
    <3>1. used = [m \in Semas |-> 0]
      BY DEF Init
    <3> QED
      BY <3>1
  <2>6. /\ tries \in [Step -> Nat] /\ auth \in [Step -> Nat]
        /\ empties \in [Step -> 0..2]
    <3>1. /\ tries = [s \in Step |-> 0] /\ auth = [s \in Step |-> 0]
          /\ empties = [s \in Step |-> 0]
      BY DEF Init
    <3> QED
      BY <3>1
  <2>7. /\ pc \in [Step -> Before \cup Running \cup {"retry"} \cup After]
        /\ err \in [Step -> {"nil", "canceled", "setup"} \cup Failures]
        /\ rsp \in [Step -> {"none", "hashfs", "disk", "unflushed"}]
    BY DEF Init, Before
  <2> QED
    BY <2>1, <2>2, <2>3, <2>4, <2>5, <2>6, <2>7 DEF TypeOK
<1>2. ASSUME NEW s \in Step PROVE StepInv(s)
  BY <1>2 DEF Init, StepInv, ErrInv, OutsInv, RspInv, CallInv, Before, Running, After
<1> QED
  BY <1>1, <1>2 DEF Inv

\* Every step keeps Inv.
LEMMA InvNext == Inv /\ [Next]_vars => Inv'
<1> SUFFICES ASSUME Inv, [Next]_vars PROVE Inv'
  OBVIOUS
<1> USE DEF Inv
<1>1. ASSUME NEW s \in Step, StepNext(s) PROVE Inv'
  <2>1. TypeOK'
    BY <1>1, StepType
  <2>2. StepInv(s)'
    BY <1>1, StepKeepsErr, StepKeepsOuts, StepKeepsRsp, StepKeepsCall DEF StepInv
  <2>3. ASSUME NEW t \in Step \ {s} PROVE StepInv(t)'
    <3>1. Frame(s)
      BY <1>1, StepFrame
    <3>2. StepInv(t)
      OBVIOUS
    <3> QED
      BY <3>1, <3>2 DEF Frame, StepInv, ErrInv, OutsInv, RspInv, CallInv, Made
  <2> QED
    BY <2>1, <2>2, <2>3
<1>2. CASE Cancel
  <2>1. TypeOK'
    BY <1>2 DEF Cancel, TypeOK
  <2>2. ASSUME NEW s \in Step PROVE StepInv(s)'
    <3>1. StepInv(s)
      OBVIOUS
    <3> QED
      BY <1>2, <3>1 DEF Cancel, StepInv, ErrInv, OutsInv, RspInv, CallInv, Made
  <2> QED
    BY <2>1, <2>2
<1>3. CASE UNCHANGED vars
  <2>1. TypeOK'
    BY <1>3 DEF vars, TypeOK
  <2>2. ASSUME NEW s \in Step PROVE StepInv(s)'
    <3>1. StepInv(s)
      OBVIOUS
    <3> QED
      BY <1>3, <3>1 DEF vars, StepInv, ErrInv, OutsInv, RspInv, CallInv, Made
  <2> QED
    BY <2>1, <2>2
<1> QED
  BY <1>1, <1>2, <1>3 DEF Next, Terminated

\* Inv holds in every reachable state.
THEOREM InvCorrect == Spec => []Inv
BY InvInit, InvNext, PTL DEF Spec

\* runStep calls plan.done exactly on the paths that return nil, and only with the
\* outputs made: whatever the other steps do and whenever ctx is canceled.
THEOREM DoneMeansMadeCorrect == Spec => []DoneMeansMade
<1>1. Inv => DoneMeansMade
  BY DEF Inv, StepInv, ErrInv, OutsInv, Made, DoneMeansMade, After
<1> QED
  BY <1>1, InvCorrect, PTL

\* The deferred call of runStep leaves the response file on the disk after a failed
\* command, or in hashfs if its Flush fails, and nowhere otherwise, wherever the
\* command ran and whenever ctx is canceled.
THEOREM RspFateCorrect == Spec => []RspFate
<1>1. Inv => RspFate
  BY DEF Inv, StepInv, RspInv, RspFate
<1> QED
  BY <1>1, InvCorrect, PTL

\* Neither a result without outputs nor a second authentication error that reaches
\* retry.Do as one is followed by the call it makes useless, however the attempts go.
THEOREM NoUselessCallCorrect == Spec => []NoUselessCall
<1>1. Inv => NoUselessCall
  BY DEF Inv, StepInv, CallInv, NoUselessCall, Calling, After
<1> QED
  BY <1>1, InvCorrect, PTL

-----------------------------------------------------------------------------
\* What an action of s does to the permits: nothing, or it takes or gives back one
\* of a semaphore, and then s is the only step that begins or ceases to hold it.
HoldsSame(s) ==
    UNCHANGED used /\ \A m \in Semas : Holds(s, m)' <=> Holds(s, m)
HoldsChange(s, m) ==
    /\ \A n \in Semas \ {m} : Holds(s, n)' <=> Holds(s, n)
    /\ \/ Acquire(m) /\ ~Holds(s, m) /\ Holds(s, m)'
       \/ Release(m) /\ Holds(s, m) /\ ~Holds(s, m)'

\* The permits and the positions change together.
LEMMA StepPermits ==
    ASSUME TypeOK, NEW s \in Step, StepNext(s)
    PROVE  HoldsSame(s) \/ \E m \in Semas : HoldsChange(s, m)
<1>0. def[s].sema \in Semas /\ "remote" \in Semas
  BY DEF TypeOK, Defs, Semas
<1>1. CASE UpToDate(s)
  BY <1>0, <1>1 DEF UpToDate, Goto, TypeOK, Holds, HoldsSame, HoldsChange
<1>2. CASE NeedToRun(s)
  BY <1>0, <1>2 DEF NeedToRun, Set, Goto, TypeOK, Holds, HoldsSame, HoldsChange
<1>3. CASE NotHandled(s)
  BY <1>0, <1>3 DEF NotHandled, Goto, TypeOK, Holds, HoldsSame, HoldsChange
<1>4. CASE HandlerFails(s)
  BY <1>0, <1>4 DEF HandlerFails, Set, Goto, TypeOK, Holds, HoldsSame, HoldsChange
<1>5. CASE Handled(s)
  BY <1>0, <1>5 DEF Handled, Goto, TypeOK, Holds, HoldsSame, HoldsChange
<1>6. CASE SetupRSP(s)
  BY <1>0, <1>6 DEF SetupRSP, Goto, TypeOK, Holds, HoldsSame, HoldsChange
<1>7. CASE SetupRSPFails(s)
  BY <1>0, <1>7 DEF SetupRSPFails, Set, Goto, TypeOK, Holds, HoldsSame, HoldsChange
<1>8. CASE LocalInputs(s)
  BY <1>0, <1>8 DEF LocalInputs, CmdError, Set, Goto, TypeOK, Holds, HoldsSame,
      HoldsChange
<1>9. CASE AcquireLocal(s)
  BY <1>0, <1>9 DEF AcquireLocal, CmdError, Set, Goto, TypeOK, Holds, HoldsSame,
      HoldsChange
<1>10. CASE LocalRun(s)
  BY <1>0, <1>10 DEF LocalRun, ReleaseAfterRun, CmdError, Set, Goto, TypeOK, Holds,
      HoldsSame, HoldsChange
<1>11. CASE CheckLocal(s)
  BY <1>0, <1>11 DEF CheckLocal, CmdError, Set, Goto, TypeOK, Holds, HoldsSame,
      HoldsChange
<1>12. CASE Preproc(s)
  BY <1>0, <1>12 DEF Preproc, CmdError, Set, Goto, TypeOK, Holds, HoldsSame, HoldsChange
<1>13. CASE CacheMiss(s)
  BY <1>0, <1>13 DEF CacheMiss, Goto, TypeOK, Holds, HoldsSame, HoldsChange
<1>14. CASE CacheEmpty(s)
  BY <1>0, <1>14 DEF CacheEmpty, Goto, TypeOK, Holds, HoldsSame, HoldsChange
<1>15. CASE CacheHit(s)
  BY <1>0, <1>15 DEF CacheHit, Goto, TypeOK, Holds, HoldsSame, HoldsChange
<1>16. CASE CacheOutput(s)
  BY <1>0, <1>16 DEF CacheOutput, Goto, TypeOK, Holds, HoldsSame, HoldsChange
<1>17. CASE AcquireRemote(s)
  BY <1>0, <1>17 DEF AcquireRemote, DoReturns, CmdError, Set, Goto, TypeOK, Holds,
      HoldsSame, HoldsChange
<1>18. CASE RemoteFails(s)
  BY <1>0, <1>18 DEF RemoteFails, Answers, ErespErr, UpToTwo, Set, Goto, TypeOK, Holds,
      HoldsSame, HoldsChange
<1>19. CASE RemoteSucceeds(s)
  BY <1>0, <1>19 DEF RemoteSucceeds, DoReturns, Set, Goto, TypeOK, Holds, HoldsSame,
      HoldsChange
<1>20. CASE RemoteEmpty(s)
  BY <1>0, <1>20 DEF RemoteEmpty, DoReturns, RunAgain, Set, Goto, TypeOK, Holds,
      HoldsSame, HoldsChange
<1>21. CASE Retry(s)
  BY <1>0, <1>21 DEF Retry, DoReturns, CmdError, Set, Goto, TypeOK, Holds, HoldsSame,
      HoldsChange
<1>22. CASE RemoteOutput(s)
  BY <1>0, <1>22 DEF RemoteOutput, CmdError, Set, Goto, TypeOK, Holds, HoldsSame,
      HoldsChange
<1>23. CASE Finish(s)
  BY <1>0, <1>23 DEF Finish, Goto, TypeOK, Holds, HoldsSame, HoldsChange
<1>24. CASE Deferred(s)
  BY <1>0, <1>24 DEF Deferred, Goto, TypeOK, Holds, HoldsSame, HoldsChange
<1> QED
  BY <1>1, <1>2, <1>3, <1>4, <1>5, <1>6, <1>7, <1>8, <1>9, <1>10, <1>11, <1>12, <1>13,
     <1>14, <1>15, <1>16, <1>17, <1>18, <1>19, <1>20, <1>21, <1>22, <1>23, <1>24 DEF StepNext

\* So the number of holders changes with the permits in use.
LEMMA PermitsNext ==
    ASSUME TypeOK, PermitsReturned, [Next]_vars
    PROVE  PermitsReturned'
<1> DEFINE Holders(m) == {s \in Step : Holds(s, m)}
<1>0. \A m \in Semas : used[m] = Cardinality(Holders(m)) /\ IsFiniteSet(Holders(m))
  <2>1. \A m \in Semas : Holders(m) \subseteq Step
    OBVIOUS
  <2> QED
    BY <2>1, FS_Subset, StepExecAssumption DEF PermitsReturned
<1>1. ASSUME NEW s \in Step, StepNext(s) PROVE PermitsReturned'
  <2>1. \A t \in Step \ {s}, m \in Semas : Holds(t, m)' <=> Holds(t, m)
    BY <1>1, StepFrame DEF Frame, Holds
  <2>2. CASE HoldsSame(s)
    <3>1. \A m \in Semas : Holders(m)' = Holders(m)
      BY <2>1, <2>2 DEF HoldsSame
    <3> QED
      BY <1>0, <2>2, <3>1 DEF HoldsSame, PermitsReturned
  <2>3. ASSUME NEW m \in Semas, HoldsChange(s, m) PROVE PermitsReturned'
    <3>1. \A n \in Semas \ {m} : Holders(n)' = Holders(n) /\ used'[n] = used[n]
      BY <2>1, <2>3 DEF HoldsChange, Acquire, Release, TypeOK
    <3>2. CASE Acquire(m) /\ ~Holds(s, m) /\ Holds(s, m)'
      <4>1. Holders(m)' = Holders(m) \cup {s} /\ s \notin Holders(m)
        BY <2>1, <3>2
      <4>2. Cardinality(Holders(m)') = Cardinality(Holders(m)) + 1
        BY <1>0, <4>1, FS_AddElement
      <4>3. used'[m] = used[m] + 1
        BY <3>2 DEF Acquire, TypeOK
      <4> QED
        BY <1>0, <3>1, <4>2, <4>3 DEF PermitsReturned
    <3>3. CASE Release(m) /\ Holds(s, m) /\ ~Holds(s, m)'
      <4>1. Holders(m)' = Holders(m) \ {s} /\ s \in Holders(m)
        BY <2>1, <3>3
      <4>2. Cardinality(Holders(m)') = Cardinality(Holders(m)) - 1
        BY <1>0, <4>1, FS_RemoveElement
      <4>3. used'[m] = used[m] - 1
        BY <3>3 DEF Release, TypeOK
      <4> QED
        BY <1>0, <3>1, <4>2, <4>3 DEF PermitsReturned
    <3> QED
      BY <2>3, <3>2, <3>3 DEF HoldsChange
  <2> QED
    BY <1>1, <2>2, <2>3, StepPermits
<1>2. CASE UNCHANGED <<used, pc, def>>
  BY <1>2 DEF PermitsReturned, Holds
<1> QED
  BY <1>1, <1>2 DEF Next, Cancel, Terminated, vars

\* Every path of runLocal and runRemote gives its permit back: the permits in use are
\* those of the running commands, for all limits.
THEOREM PermitsCorrect == Spec => []PermitsReturned
<1>1. Init => PermitsReturned
  <2> SUFFICES ASSUME Init, NEW m \in Semas
               PROVE  used[m] = Cardinality({s \in Step : Holds(s, m)})
    BY DEF PermitsReturned
  <2>1. {s \in Step : Holds(s, m)} = {}
    BY DEF Init, Holds
  <2> QED
    BY <2>1, FS_EmptySet DEF Init
<1>2. TypeOK /\ PermitsReturned /\ [Next]_vars => PermitsReturned'
  BY PermitsNext
<1>3. Inv => TypeOK
  BY DEF Inv
<1> QED
  BY <1>1, <1>2, <1>3, InvCorrect, PTL DEF Spec

\* No semaphore is taken beyond its limit: at no time do more commands run than
\* the limit of their semaphore allows (and the code asks for one permit each).
WithinLimit == \A m \in Semas : Cardinality({s \in Step : Holds(s, m)}) <= Limit[m]

\* The semaphores bound the commands that run at the same time, for all limits.
THEOREM WithinLimitCorrect == Spec => []WithinLimit
<1> DEFINE UsedOK == \A m \in Semas : used[m] <= Limit[m]
<1>1. Init => UsedOK
  BY StepExecAssumption DEF Init
<1>2. TypeOK /\ UsedOK /\ [Next]_vars => UsedOK'
  <2> SUFFICES ASSUME TypeOK, UsedOK, [Next]_vars PROVE UsedOK'
    OBVIOUS
  <2>1. ASSUME NEW s \in Step, StepNext(s) PROVE UsedOK'
    <3>1. CASE HoldsSame(s)
      BY <3>1 DEF HoldsSame
    <3>2. ASSUME NEW m \in Semas, HoldsChange(s, m) PROVE UsedOK'
      BY <3>2, StepExecAssumption DEF HoldsChange, Acquire, Release, TypeOK
    <3> QED
      BY <2>1, <3>1, <3>2, StepPermits
  <2>2. CASE UNCHANGED used
    BY <2>2
  <2> QED
    BY <2>1, <2>2 DEF Next, Cancel, Terminated, vars
<1>3. PermitsReturned /\ UsedOK => WithinLimit
  BY DEF PermitsReturned, WithinLimit
<1>4. Inv => TypeOK
  BY DEF Inv
<1> QED
  BY <1>1, <1>2, <1>3, <1>4, InvCorrect, PermitsCorrect, PTL DEF Spec

=============================================================================
