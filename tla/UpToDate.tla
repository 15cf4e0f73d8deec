------------------------------ MODULE UpToDate ------------------------------
(***************************************************************************)
(* Incremental builds: what build/mtimecheck.go decides from the mtimes    *)
(* and command hashes that execute/cmd.go recorded in earlier builds, and  *)
(* from the deps log.  Between the builds the user edits sources, deletes  *)
(* outputs and changes commands; a build may fail or be killed anywhere.   *)
(*                                                                         *)
(* One build visits the steps in a topological order, as they depend on    *)
(* each other.  Every output is wanted on the local disk                   *)
(* (output_local_strategy full).  Persistence itself is module FsState:    *)
(* here a recorded entry is in the journal, so it survives a kill.         *)
(***************************************************************************)
EXTENDS Naturals, Sequences, FiniteSets, Functions, FiniteSetsExt

CONSTANTS
    File,
    Steps,          \* the steps, in a topological order: records with
                    \*   outs   : Seq(File)      outputs
                    \*   ins    : SUBSET File    trigger inputs
                    \*   phony  : BOOLEAN
                    \*   restat : "no", "mtime" (restat) or "content" (restat_content)
                    \*   remote : BOOLEAN        runs remotely
                    \*   gcc    : BOOLEAN        deps=gcc
                    \*   generator : BOOLEAN     its command may change
    Content,        \* contents of sources
    Command,        \* versions of a command
    Includes(_, _), \* Includes(f, x): the files that contents x of f include
    Produce(_, _, _, _),  \* Produce(n, v, r, f): what version v of its command
                    \* writes to f if what it reads is r
    MaxBuilds, MaxChanges, MaxFaults    \* bounds

Index == DOMAIN Steps
Outs(n) == Range(Steps[n].outs)
Generated == UNION {Outs(n) : n \in Index}
Source == File \ Generated
Virtual == UNION {Outs(n) : n \in {m \in Index : Steps[m].phony}}

\* What there may be when step n is run.
Before(n) == Source \cup UNION {Outs(m) : m \in 1 .. (n - 1)}

ASSUME UpToDateAssumption ==
    /\ Steps \in Seq([outs : Seq(File), ins : SUBSET File, phony : BOOLEAN,
                      restat : {"no", "mtime", "content"}, remote : BOOLEAN,
                      gcc : BOOLEAN, generator : BOOLEAN])
    /\ \A n \in Index : Steps[n].outs # <<>> /\ Steps[n].ins \subseteq Before(n)
    /\ \A m, n \in Index : m # n => Outs(m) \cap Outs(n) = {}
    /\ Content # {} /\ Command # {} /\ 0 \notin Command
    /\ MaxBuilds \in Nat /\ MaxChanges \in Nat /\ MaxFaults \in Nat

(***************************************************************************)
(* What the command of step n reads if the contents of files are c: its    *)
(* inputs, what is behind a phony, and with deps=gcc what the files it     *)
(* reads include.  The manifest has no missing dependencies: everything a  *)
(* command reads is a source or an output of an earlier step.              *)
(***************************************************************************)
Behind(n, fs) ==
    /\ Steps[n].ins \subseteq fs
    /\ \A m \in Index : Steps[m].phony /\ Outs(m) \cap fs # {} => Steps[m].ins \subseteq fs

Inputs ==
    [n \in Index |-> {f \in File \ Virtual : \A fs \in SUBSET File : Behind(n, fs) => f \in fs}]

Included(n, c, fs) ==
    /\ Inputs[n] \subseteq fs
    /\ \A f \in fs : Includes(f, c[f]) \cap (Before(n) \ Virtual) \subseteq fs

Reads(n, c) ==
    IF Steps[n].gcc
    THEN {f \in File : \A fs \in SUBSET (Before(n) \ Virtual) : Included(n, c, fs) => f \in fs}
    ELSE Inputs[n]

Makes(n, v, c, f) == Produce(n, v, [g \in Reads(n, c) |-> c[g]], f)

VARIABLES
    clock,
    disk,       \* content and mtime of each file; mtime 0: there is none
    cmd,        \* the version of each step's command in the manifest
    \* what siso remembers
    ents,       \* hashfs: mtime, updatedTime, cmdhash, digest, isChanged
    deps,       \* deps log: mtime and inputs, for the first output of a step
    \* the current build
    phase,      \* "idle", "build" or "ok" (the last build succeeded)
    pos, pc,    \* the step, and where it is
    phony,      \* Builder.phony
    pre,        \* preOutputEntries
    result,     \* outputs of the remote action
    depfile,    \* what the command says it has read
    todo,       \* outputs still to be recorded
    \* bounds
    builds, changes, faults,
    \* history
    seen        \* what the step was run on when it last succeeded

userVars == <<disk, cmd, clock>>
stepVars == <<pos, pc, phony, pre, result, depfile, todo>>
vars == <<clock, disk, cmd, ents, deps, phase, pos, pc, phony, pre, result, depfile, todo,
          builds, changes, faults, seen>>

NoFile == [content |-> 0, mtime |-> 0]
NoEntry == [content |-> 0, mtime |-> 0, updated |-> 0, cmdhash |-> 0, changed |-> FALSE]
NoDeps == [mtime |-> 0, ins |-> {}]
NoPhony == [dirty |-> FALSE, mtime |-> 0, set |-> FALSE]

Init ==
    /\ clock = 1
    /\ disk = [f \in File |-> IF f \in Source
                              THEN [content |-> CHOOSE c \in Content : TRUE, mtime |-> 1]
                              ELSE NoFile]
    /\ cmd = [n \in Index |-> CHOOSE v \in Command : TRUE]
    /\ ents = [f \in File |-> NoEntry]
    /\ deps = [n \in Index |-> NoDeps]
    /\ phase = "idle" /\ pos = 1 /\ pc = "check"
    /\ phony = [f \in File |-> NoPhony]
    /\ pre = ents /\ result = [f \in File |-> 0] /\ depfile = {} /\ todo = {}
    /\ builds = 0 /\ changes = 0 /\ faults = 0
    /\ seen = [n \in Index |-> [cmd |-> 0, in |-> <<>>]]

-----------------------------------------------------------------------------
(***************************************************************************)
(* hashfs as far as a build looks at it.                                   *)
(***************************************************************************)
\* Stat: a file hashfs has no entry for is read from the disk.
Stat(f) ==
    IF ents[f].mtime # 0 \/ disk[f].mtime = 0 THEN ents[f]
    ELSE [content |-> disk[f].content, mtime |-> disk[f].mtime,
          updated |-> disk[f].mtime, cmdhash |-> 0, changed |-> FALSE]

Exists(f) == Stat(f).mtime # 0

\* Flush: what is only in hashfs, or newer there, is written to the disk.
Flushed(d, fs) ==
    [f \in File |-> IF f \in fs /\ ents[f].cmdhash # 0
                    THEN [content |-> ents[f].content, mtime |-> ents[f].mtime]
                    ELSE d[f]]

\* SetState on the next start, for one entry: sources are read again, outputs
\* that are gone, or newer on the disk, are forgotten.  An output that is the
\* same but for its mtime may be reconciled.
Reloaded(f, reconciled) ==
    IF \/ ents[f].cmdhash = 0
       \/ disk[f].mtime = 0
       \/ disk[f].mtime > ents[f].mtime /\ f \notin reconciled
    THEN NoEntry
    ELSE [ents[f] EXCEPT !.changed = FALSE]

Reconcilable(f) ==
    /\ ents[f].cmdhash # 0 /\ disk[f].mtime # 0
    /\ ents[f].mtime # disk[f].mtime
    /\ ents[f].content = disk[f].content

-----------------------------------------------------------------------------
(***************************************************************************)
(* Between builds                                                          *)
(***************************************************************************)
Change ==
    /\ changes < MaxChanges
    /\ changes' = changes + 1

Edit(f, c) ==
    /\ Change
    /\ f \in Source /\ disk[f].content # c
    /\ phase # "build" /\ phase' = "idle"
    /\ clock' = clock + 1
    /\ disk' = [disk EXCEPT ![f] = [content |-> c, mtime |-> clock']]
    /\ UNCHANGED <<cmd, ents, deps, stepVars, builds, faults, seen>>

Delete(f) ==
    /\ Change
    /\ phase # "build" /\ phase' = "idle"
    /\ f \in Generated /\ disk[f].mtime # 0
    /\ disk' = [disk EXCEPT ![f] = NoFile]
    /\ UNCHANGED <<clock, cmd, ents, deps, stepVars, builds, faults, seen>>

ChangeCommand(n, v) ==
    /\ Change
    /\ phase # "build" /\ phase' = "idle"
    /\ ~Steps[n].phony /\ cmd[n] # v
    /\ cmd' = [cmd EXCEPT ![n] = v]
    /\ UNCHANGED <<clock, disk, ents, deps, stepVars, builds, faults, seen>>

\* A new process: hashfs.New, then Build.
StartBuild(reconciled) ==
    /\ phase # "build"
    /\ builds < MaxBuilds
    /\ builds' = builds + 1
    /\ ents' = [f \in File |-> Reloaded(f, reconciled)]
    /\ disk' = [f \in File |-> IF f \in reconciled
                               THEN [disk[f] EXCEPT !.mtime = ents[f].mtime]
                               ELSE disk[f]]
    /\ phase' = "build" /\ pos' = 1 /\ pc' = "check"
    /\ phony' = [f \in File |-> NoPhony]
    /\ UNCHANGED <<clock, cmd, deps, pre, result, depfile, todo, changes, faults, seen>>

-----------------------------------------------------------------------------
(***************************************************************************)
(* needToRun                                                               *)
(***************************************************************************)
Step == Steps[pos]
Checking == phase = "build" /\ pc = "check" /\ pos \in Index

\* Mutant: the deps log is believed whatever the mtime of the output is.
DepsStaleNever(n) == deps[n].mtime = 0

\* depInputs and CheckDepsLogState: no deps, or deps older than the output.
DepsStale(n) ==
    LET out == Steps[n].outs[1]
    IN deps[n].mtime = 0 \/ ~Exists(out) \/ Stat(out).mtime > deps[n].mtime

DepInputs(n) == IF Steps[n].gcc THEN deps[n].ins ELSE {}
CheckedInputs(n) == Steps[n].ins \cup DepInputs(n)

InMtime(f) == IF phony[f].set THEN phony[f].mtime ELSE Stat(f).mtime

\* errDirty: the input was changed in this build, or is a phony of one that was.
Dirty(f) == IF phony[f].set THEN phony[f].dirty ELSE Stat(f).changed

Missing(f) == ~phony[f].set /\ ~Exists(f)

\* inputMtime: the newest input, unless an error ends the loop.
InputError(n) ==
    \/ Steps[n].gcc /\ DepsStale(n)
    \/ \E f \in CheckedInputs(n) : Missing(f) \/ Dirty(f)

NewestInput(n) == Max({0} \cup {InMtime(f) : f \in CheckedInputs(n)})

\* Mutant: an output that was left alone by restat counts with its old mtime.
OutTimeOfFile(n, f) == Stat(f).mtime

\* The time an output counts with: updatedTime if the step has restat.
OutTime(n, f) == IF Steps[n].restat = "mtime" THEN Stat(f).updated ELSE Stat(f).mtime

OldestOutput(n) == Min({OutTime(n, f) : f \in Outs(n)})

\* All outputs were made by the command the manifest has now.
SameCommand(n) == \A f \in Outs(n) : Stat(f).cmdhash = cmd[n]

CheckUpToDate(n) ==
    /\ ~InputError(n)
    /\ \A f \in Outs(n) : Exists(f)
    /\ NewestInput(n) <= OldestOutput(n)
    /\ Steps[n].generator \/ SameCommand(n)

\* What the check stats is then known to hashfs for the rest of the build.
StatAll(fs) == [f \in File |-> IF f \in fs THEN Stat(f) ELSE ents[f]]
Looked(n) == CheckedInputs(n) \cup Outs(n)

NextStep ==
    /\ pos' = pos + 1
    /\ pc' = "check"
    /\ UNCHANGED phase

CheckPhony ==
    /\ Checking /\ Step.phony
    /\ LET dirty == \E f \in Step.ins : Dirty(f)
       IN phony' = [f \in File |-> IF f \in Outs(pos)
                      THEN [dirty |-> dirty, mtime |-> NewestInput(pos), set |-> TRUE]
                      ELSE phony[f]]
    /\ ents' = StatAll(Step.ins)
    /\ NextStep
    /\ UNCHANGED <<userVars, deps, pre, result, depfile, todo, builds, changes, faults, seen>>

\* Up to date: the outputs are flushed to the disk, and the step is skipped.
SkipStep ==
    /\ Checking /\ ~Step.phony
    /\ CheckUpToDate(pos)
    /\ disk' = Flushed(disk, Outs(pos))
    /\ ents' = StatAll(Looked(pos))
    /\ NextStep
    /\ UNCHANGED <<clock, cmd, deps, phony, pre, result, depfile, todo, builds, changes,
                   faults, seen>>

NeedToRun ==
    /\ Checking /\ ~Step.phony
    /\ ~CheckUpToDate(pos)
    /\ ents' = StatAll(Looked(pos))
    /\ pc' = "run"
    /\ UNCHANGED <<userVars, deps, phase, pos, phony, pre, result, depfile, todo, builds,
                   changes, faults, seen>>

-----------------------------------------------------------------------------
(***************************************************************************)
(* Running the step                                                        *)
(***************************************************************************)
In(p) == phase = "build" /\ pc = p

\* RecordPreOutputs
PreOutputs == [f \in File |-> IF f \in Outs(pos) THEN Stat(f) ELSE NoEntry]

ContentsOf(d) == [f \in File |-> d[f].content]
Contents == ContentsOf(disk)

\* The inputs are flushed and the local command is run.  A restat command leaves
\* an output alone that would not change.  The clock then shows the time the
\* outputs are recorded with.
RunLocal ==
    LET d == Flushed(disk, Step.ins)
        New(f) == Makes(pos, cmd[pos], ContentsOf(d), f)
        Same(f) == d[f].mtime # 0 /\ d[f].content = New(f)
    IN /\ In("run") /\ ~Step.remote
       /\ pre' = PreOutputs
       /\ clock' = clock + 2
       /\ disk' = [f \in File |->
             IF f \in Outs(pos) /\ ~(Step.restat = "mtime" /\ Same(f))
             THEN [content |-> New(f), mtime |-> clock + 1]
             ELSE d[f]]
       /\ depfile' = Reads(pos, ContentsOf(d))
       /\ todo' = Outs(pos)
       /\ pc' = "record"
       /\ UNCHANGED <<cmd, ents, deps, phase, pos, phony, result, builds, changes,
                      faults, seen>>

\* The remote action is run, or its result is in the cache: its inputs are what
\* hashfs has.  execRemoteCache does not call RecordPreOutputs.
RunRemote(cached) ==
    LET in == [f \in File |-> Stat(f).content]
    IN /\ In("run") /\ Step.remote
       /\ pre' = IF cached THEN [f \in File |-> NoEntry] ELSE PreOutputs
       /\ result' = [f \in File |-> IF f \in Outs(pos) THEN Makes(pos, cmd[pos], in, f) ELSE 0]
       /\ depfile' = Reads(pos, in)
       /\ todo' = Outs(pos)
       /\ clock' = clock + 1
       /\ pc' = "record"
       /\ UNCHANGED <<disk, cmd, ents, deps, phase, pos, phony, builds, changes, faults,
                      seen>>

(***************************************************************************)
(* computeOutputEntries for one output, recorded at time now.              *)
(***************************************************************************)
\* restat_content compares digests; those of local outputs are not known yet.
SameContent(f) ==
    Step.remote /\ pre[f].mtime # 0 /\ pre[f].content = result[f] /\ result[f] # 0

Recorded(f, now) ==
    LET content == IF Step.remote THEN result[f] ELSE disk[f].content
        written == IF Step.remote THEN now ELSE disk[f].mtime
        changed == CASE Step.restat = "content" -> ~SameContent(f)
                     [] Step.restat = "mtime" -> pre[f].mtime # written
                     [] OTHER -> TRUE
        mtime == CASE Step.restat = "content" -> IF changed THEN now ELSE pre[f].mtime
                   [] Step.restat = "mtime" -> written
                   [] OTHER -> now
    IN [content |-> content, mtime |-> mtime, updated |-> now, cmdhash |-> cmd[pos],
        changed |-> changed]

\* Update of one output: the entry is stored and journaled, and the mtime of a
\* local file is set to the entry's.
RecordOutput(f) ==
    /\ In("record") /\ f \in todo
    /\ todo' = todo \ {f}
    /\ ents' = [ents EXCEPT ![f] = Recorded(f, clock)]
    /\ disk' = IF Step.remote THEN disk
               ELSE [disk EXCEPT ![f] = [content |-> @.content, mtime |-> ents'[f].mtime]]
    /\ UNCHANGED <<clock, cmd, deps, phase, pos, pc, phony, pre, result, depfile, builds,
                   changes, faults, seen>>

Recording == In("record") /\ todo = {}

\* updateDeps with deps=gcc: the depfile is read and its contents recorded with
\* the mtime of the first output.
UpdateDeps ==
    /\ Recording
    /\ deps' = IF Step.gcc
               THEN [deps EXCEPT ![pos] =
                       [mtime |-> ents[Step.outs[1]].mtime, ins |-> depfile]]
               ELSE deps
    /\ pc' = "flush"
    /\ UNCHANGED <<userVars, ents, phase, pos, phony, pre, result, depfile, todo, builds,
                   changes, faults, seen>>

\* What a step is run on, as the mtime check can see it.
View(n) ==
    [cmd |-> cmd[n],
     in |-> [f \in Reads(n, Contents) |-> <<disk[f].content, disk[f].mtime>>]]

\* outputs: flush to the disk; then plan.done.
FinishStep ==
    /\ In("flush")
    /\ disk' = Flushed(disk, Outs(pos))
    /\ seen' = [seen EXCEPT ![pos] = View(pos)]
    /\ NextStep
    /\ UNCHANGED <<clock, cmd, ents, deps, phony, pre, result, depfile, todo, builds, changes,
                   faults>>

BuildSucceeds ==
    /\ In("check") /\ pos = Len(Steps) + 1
    /\ phase' = "ok"
    /\ UNCHANGED <<userVars, ents, deps, stepVars, builds, changes, faults, seen>>

-----------------------------------------------------------------------------
(***************************************************************************)
(* What may go wrong                                                       *)
(***************************************************************************)
Fault ==
    /\ faults < MaxFaults
    /\ faults' = faults + 1

\* Siso is killed, or the step fails between two of its phases (inputs or
\* outputs cannot be flushed, the depfile is bad): the build ends.
Stop ==
    /\ phase = "build"
    /\ Fault
    /\ phase' = "idle"
    /\ UNCHANGED <<userVars, ents, deps, stepVars, builds, changes, seen>>

\* A local command fails after it has written rubbish to some of its outputs.
Rubbish == 99

CommandFails(fs) ==
    /\ In("run") /\ ~Step.remote
    /\ Fault
    /\ clock' = clock + 1
    /\ disk' = [f \in File |-> IF f \in fs THEN [content |-> Rubbish, mtime |-> clock']
                                           ELSE disk[f]]
    /\ phase' = "idle"
    /\ UNCHANGED <<cmd, ents, deps, stepVars, builds, changes, seen>>

\* The deps log cannot be written: a warning, and the step goes on.
DepsNotRecorded ==
    /\ Recording /\ Step.gcc
    /\ Fault
    /\ pc' = "flush"
    /\ UNCHANGED <<userVars, ents, deps, phase, pos, phony, pre, result, depfile, todo, builds,
                   changes, seen>>

\* The outputs of an up-to-date step cannot be flushed: the step is run.
FlushFails ==
    /\ Checking /\ ~Step.phony
    /\ CheckUpToDate(pos)
    /\ Flushed(disk, Outs(pos)) # disk
    /\ Fault
    /\ ents' = StatAll(Looked(pos))
    /\ pc' = "run"
    /\ UNCHANGED <<userVars, deps, phase, pos, phony, pre, result, depfile, todo, builds,
                   changes, seen>>

Finished ==
    /\ phase # "build" /\ builds = MaxBuilds
    /\ UNCHANGED vars

Next ==
    \/ \E f \in File, c \in Content : Edit(f, c)
    \/ \E f \in File : Delete(f)
    \/ \E n \in Index, v \in Command : ChangeCommand(n, v)
    \/ \E fs \in SUBSET {f \in File : Reconcilable(f)} : StartBuild(fs)
    \/ CheckPhony \/ SkipStep \/ NeedToRun
    \/ RunLocal
    \/ \E cached \in BOOLEAN : RunRemote(cached)
    \/ \E f \in todo : RecordOutput(f)
    \/ UpdateDeps \/ FinishStep \/ BuildSucceeds
    \/ Stop \/ DepsNotRecorded \/ FlushFails
    \/ phase = "build" /\ pos \in Index /\ \E fs \in SUBSET Outs(pos) : CommandFails(fs)
    \/ Finished

Spec == Init /\ [][Next]_vars

-----------------------------------------------------------------------------
(***************************************************************************)
(* Properties                                                              *)
(***************************************************************************)
\* What may be in an output.  For a generator the command hash is not looked at:
\* any of its commands may have made the output, or failed and left rubbish.
Good(n, f) ==
    IF Steps[n].generator
    THEN {Rubbish} \cup {Makes(n, v, Contents, f) : v \in Command}
    ELSE {Makes(n, cmd[n], Contents, f)}

Fresh(n) == \A f \in Outs(n) : disk[f].content \in Good(n, f)

\* After a build that succeeded, every output on the disk is what its command
\* makes of the inputs that are there, whatever was edited, deleted or changed
\* before, and however earlier builds ended: needToRun has skipped nothing that
\* was out of date.
SuccessMeansFresh ==
    phase = "ok" => \A n \in Index : Steps[n].phony \/ Fresh(n)

\* An output is missing or was not made by a step, or something the step read,
\* or its command, is not what it was when the step last succeeded.
Needed(n) ==
    \/ seen[n] # View(n)
    \/ \E f \in Outs(n) : ents[f].cmdhash = 0

\* A step is run only if there is a reason to.  In particular restat stops a
\* rebuild from spreading, and a build right after a build runs nothing.  A step
\* with restat_content is excepted: its output keeps its mtime when it is run for
\* nothing, and checkUpToDate looks at updatedTime only for restat, so it is run
\* again in every build until its output changes.
RunsOnlyIfNeeded ==
    faults = 0 /\ In("run") => Needed(pos) \/ Step.restat = "content"
=============================================================================
