# TLA+ models of siso

Siso is a build system that takes Ninja manifests, runs the steps of the build
locally or on a remote-execution service, and keeps what it knows of files and
dependencies from one run to the next.  This directory holds TLA+ modules for
the parts of siso that are hard to test, the TLC configurations that check them
on small instances, and TLAPS proofs of the main results.

Run a check with `tlc -config X.cfg M`, a proof with `tlapm M.tla`.  The map
from every definition to the lines it models is in `PROJECT.json`.

## 1. The system

| part (source) | state it keeps | operations | interacts with |
|---|---|---|---|
| ninja command (`subcmd/ninja/ninja.go`) | the order of a run: hashfs, deps log, graph, manifest build, main build | `runNinja`, `doBuild`, `rebuildManifest`, `initDepsLog` | everything |
| plan (`build/plan.go`, `build/step.go`) | targets, waits, `q`, `ready`, `npendings`, `closed`; `nwaits` of a step | `schedule`, `scheduler.add`, `pushReady`, `done` | graph; build loop and step goroutines |
| graph (`build/ninjabuild`, `ninjautil/graph.go`) | edges and nodes, `visited`, `validations` | `Targets`, `StepDef`, `Validations`, `Reset` | plan; ninja parser |
| build loop (`build/builder.go`) | `stepSema`, `errch`, failures, context | `Build` and one goroutine per step | plan; signals; step execution |
| step execution (`build/run_step.go`, `run_cmd.go`, `exec_*.go`, `deps*.go`) | phase of a step, its command and deps | up-to-date check, deps scan, cache lookup, remote and local run, retries | hashfs, deps log, remote services, semaphores |
| up-to-date check (`build/mtimecheck.go`) | nothing of its own | `checkUpToDate` | hashfs, deps log |
| hashfs (`hashfs/fs.go`) | tree of entries with digest, mtime, command hash; `lready` of each entry; `clean`, `loaded`, journal | `New`, `Update`, `Flush`, `Stat`, `ReadDir`, `Copy`, `Remove`, `Close` | disk, remote store, state file |
| hashfs state (`hashfs/state.go`) | state file `.siso_fs_state`, its journal | `Load`, `SetState`, `Save`, `journalEntry`, `loadJournal` | disk |
| deps log (`ninjautil/deps_log.go`) | `.siso_deps`, `paths`, `pathIdx`, `deps`, and the tables `Get` reads | `NewDepsLog`, `Record`, `Get`, `Reset`, `Recompact` | steps |
| ninja parser (`ninjautil/*_parser.go`, `nodemap.go`, `scope.go`, `binding.go`, `rule.go`, `eval.go`) | node map with local slabs, scopes, rules, pools, chunks, edges | `Load`: parse files, set up and build the graph chunk by chunk, concurrently | graph |
| command (`execute/cmd.go`) | action, inputs, outputs | `Digest`, `RecordOutputs` with restat | hashfs, Merkle tree, CAS |
| Merkle tree (`reapi/merkletree`) | the directories of an action's input root, a store of their blobs | `Set`, `SetTree`, `Build`, `Traverse` | command, CAS |
| CAS client (`reapi/cas.go`), shared subtrees (`build/tree_input.go`) | `knownDigests` with one `uploadOp` per blob in flight; one `subtree` per directory | `UploadAll`, `subtree.init` | remote execution, the service |
| local and remote execution (`execute/localexec`, `execute/remoteexec`, `reapi`) | calls in flight | run, retry, look up a cache entry, upload | CAS |
| include scanner (`scandeps`) | caches of directories and scanned files | scan C++ includes | hashfs |
| configuration, ui, auth, string helpers | - | - | - |

What makes it hard:

* **Concurrency.** The loop receives from `plan.q` without the plan's mutex while
  a `plan.done` call sends to it; hundreds of goroutines call `hashfs.Flush` for
  the same files; `Get` of the deps log takes no mutex; the parser interns nodes
  and sets variables, rules and pools from many goroutines; remote steps upload shared
  blobs, each waiting for what the others upload.
* **Interruption.** A signal cancels one context that the loop, the step
  goroutines, the error channel and the fetches all select on.
* **Crashes.** The state file, its journal and the deps log are written piece by
  piece, replaced by renames, and read by the next run whatever is in them.
* **Failing writes and calls.** Errors of the journal, of `Save` and of the deps log are
  logged and the build goes on; an upload fails for some blobs of a call and not for
  others.
* **Limits.** `q` and `errch` have capacities and a spill list; `stepSema` is
  released on five paths.

What makes each part correct:

* plan and build loop: a step starts once, and only when `plan.done` was called for
  every step that makes one of its inputs; no step is lost between `q`, `ready` and
  the slices of `done`; nothing is sent on the closed channel; at most the limit of
  steps runs; `Build` ends, and returns nil only if everything was made;
* scheduling: the walk ends, adds every needed step once, gives it exactly the waits
  of its generated inputs, reports a cycle if and only if there is one;
* hashfs state: what a later run believes of a generated file is true, and what was
  journaled is not lost, however runs end;
* flush: one writer per file, nil only when the files are there, no deadlock;
* up-to-date check: after a successful build nothing on the disk is out of date, and no
  step is run without a reason;
* step execution: permits are given back on every path, `plan.done` is called only for what
  was made, retries are bounded, the response file is kept exactly when it is needed;
* deps log: what is loaded was recorded, the last record wins, loading never panics,
  `Get` answers with the deps of the output it was asked for;
* CAS client: what it knows to be stored is stored, each blob has one uploader at work and
  nobody waits for an upload that does not come; an action is executed when the service
  can read it;
* Merkle tree and action digest: the tree is the inputs, at their places, and nothing else;
  the store has all its blobs; the digest does not depend on where the build directory is;
* parser: a path has one node, and the graph is the one the manifest stands for, or an error,
  whatever the cut into chunks and the order of the goroutines.

## 2. Modules

| module | models | state and actions |
|---|---|---|
| `BuildGraph` | the part of the graph that plan and loop read | operators over a graph record: outputs, trigger inputs, order-only inputs, validations; *slots* (one per generated input of a step), producers, well-formedness |
| `Scheduler` | `schedule`, `scheduleTarget`, `scheduler.add`, `Graph.StepDef`'s `visited`, and `doBuild`'s two builds over one graph | the recursion as an explicit stack, one action per iteration of its loops |
| `Builder` | `Builder.Build`, the step goroutine of `runStep`, `plan.pushReady`, `plan.done` | the loop's position, one goroutine state per step; `done` is one action per channel send because the loop receives between them |
| `AbstractBuild` | what `Build` promises | steps that are started, made, or ended with an error; the outcome |
| `FsState` | `hashfs.New`, `Load`, `loadJournal`, `SetState`, `Update`, `journalEntry`, `flush`, `Save`, `Close` over several runs | disk, state file, journal, and the memory of the current run |
| `Flush` | `HashFS.Flush` and `entry.flush` with `lready` | the position of each caller in its list, its goroutines, the channel of each entry |
| `DepsLog` | `ninjautil.DepsLog` over several runs | the words of the file, the tables of `DepsLog`, a reader that goes record by record, `Recompact` entry by entry |
| `UpToDate` | `needToRun` and `checkUpToDate`, `computeOutputEntries`, `CheckDepsLogState`, `updateDeps` over several builds | files with contents and mtimes, entries of hashfs, deps log; the phases check, run, record, deps, flush of a step; edits between builds |
| `StepExec` | `runStep` in full: handler, response file, `execLocal`, `execRemoteCache`, `execRemote`, `retry.Do`, deferred calls | the position of each step, permits in use, attempts, response file, outputs |
| `CAS` | `Client.UploadAll` with `knownDigests`, `separateBlobs`, `createBatchUpdateBlobsRequests`, the batch and stream uploads | the position of each call, the state of each `uploadOp`, the blobs of the service; one action per request and its failure |
| `RemoteExec` | `treeInput`, `subtree.init`, `prepareInputs` and `Execute` under `retry.Do`, over `CAS` (extended) | where each step and each subtree is; a restart of siso |
| `MerkleTree` | `Set`, `SetTree`, `Build`, `Traverse` | operators over a tree; a digest is the message itself |
| `ActionDigest` | `Cmd.Digest`: `HashFS.Entries`, `inputTree`, substitutes, canonical directory, `treeDigest`, `commandDigest` | one action per entry that is put in the tree, then the same command in another directory |
| `NinjaScope` | variables: `evaluate`, `lookupVar` of file, build and edge scopes, rules | operators over the bindings as they were set |
| `NodeMap` | `nodeMap.node`, `localNodeMap`, the slab's `new` and `unnew`, `freeze` | the list of each hash slot, the call of each goroutine; one action per load and compare-and-swap |
| `Parser` | `ManifestParser.Load`, `fileParser`, `chunk`, over `NinjaScope` and `NodeMap` (extended) | a goroutine per chunk that takes its statements in order, setup before `buildGraph`; files at the same time |
| `ManifestGraph` | nothing: the reference | what a manifest means, read line by line, for `LoadIsExact` |
| `MC*` | instances for TLC | graphs, files, paths, steps, manifests |
| `BuilderProofs`, `SchedulerProofs`, `UpToDateProofs`, `StepExecProofs`, `FlushProofs`, `FsStateProofs`, `RemoteExecProofs`, `NodeMapProofs` | proofs, see section 5 | |

`Scheduler` and `Builder` meet in `PlanIsExact`: the plan that `Scheduler` ends with
is the plan that `Builder`'s `Init` starts from (waits, counts, `q` filled before
`ready`).  `Builder` is shown to implement `AbstractBuild` with the mapping
`started`, `made`, `ended` computed from the states of the goroutines.  `StepExec` and
`UpToDate` are what `Builder` has as one choice, whether a step ends with `done`, an error
or a cancellation: `DoneMeansMade` says when it is `done`, `Termination` of `StepExec` that
every `runStep` returns, which is the fairness `Builder` assumes.  `UpToDate` takes from
`FsState` that a recorded entry survives a kill.  `RemoteExec` is what `StepExec` has as the
call of a remote action and its error; the blobs it uploads are the store that `StoreIsComplete` of
`ActionDigest` says is complete.  The graph of `Parser` is the `BuildGraph` of the others:
one producer per target comes from `LoadIsExact`.

Abstractions:

* `Builder`: a step is a goroutine that ends with `done`, an error or a cancellation;
  the caller's context (`interrupted`) and Build's own (`canceled`) are told apart;
  the order in a wait list is open; statistics and output are left out.
* `FsState`: an entry is mtime, digest and command hash.  Directories and symbolic links
  are not told apart from files.  Restat (an `Update` that keeps the mtime) and the
  error of `SetState` for files with a time in the future are not modelled.  Times are
  ticks of one clock that each write advances, so that two contents never have one mtime.
* `DepsLog`: the file is words of four bytes.  The halves of an mtime have a small base
  (`WordBase`), so both halves and their signs matter for small numbers.
* `Flush`: an entry is not replaced by `Update` while it is flushed.  The goroutine of
  a call for a file is one value: the token of the channel is taken once, so there is at most one, although a
  list may name a file twice.  An entry is one of the local
  disk, one with contents to fetch, or one with `fs.ErrNotExist` (`Removed`): for that `Flush` is nil without
  a file, and `entry.flush` removes the file if the channel still holds the token.  An error that is
  not `ErrNotExist` comes with entries of the local disk only (`Bad`); `RemoveAll` could also store one
  on an entry to be fetched.  `mtimeUpdated` is kept for entries of the local disk only:
  for a fetched file the `Chtimes` repeats the time that `flush` has set.  The instance has no file
  that hashfs does not know at first and none whose mtime cannot be set; the theorem has both.
* `UpToDate`: one build visits the steps in a topological order, one at a time; every output
  is wanted on the disk (output_local_strategy full); sources are edited between builds only;
  storing an entry, its journal record and the `Chtimes` are one step; `clobber`, dry runs
  and depfiles without `deps=` are left out.  The manifest is right: an output has one
  producer, and what a command reads (its inputs, what is behind a phony, what the files it reads
  include) are sources and outputs of earlier steps.  What it makes depends on nothing else.
* `StepExec`: the outputs of a step are one unit, made or not; a cached result is one of a
  successful action (the comment in `layered_cache.go` relies on that too); the include scan
  succeeds or fails; dry runs and steps with `phony_output` are left out.  The loop inside
  `ExecuteAndWait` (up to twelve calls for a retriable error) is one call, with the error that comes out of
  it; `erespErr` is modelled, with the authentication error that it makes `Unavailable`.  That
  the response file cannot be removed is ignored, as in `teardownRSP`.
* `CAS`: a blob is its digest; the service does not evict blobs while siso runs, and answers
  for every blob of a batch.
* `RemoteExec`: the messages of the action and the command are blobs that nobody shares; those of directories
  are shared by all who list the same files, with the root of the subtree of that directory too.
  The history variable `listed` has the subtrees whose root was given to a call of `UploadAll` by another
  caller than the subtree, or was stored without its files at first.
* `MerkleTree`, `ActionDigest`: a directory's digest is the directory, so equal digests are equal
  contents.  The order of entries that inputTree sorts is "a path before the paths below it".
  Symlinks in hashfs have relative targets.  `Digest` of an impure command or of one without hashfs
  is one error, that of a canceled `Entries` another.  No name of the instance enters the working
  directory from outside (`d/../out/d/g`): such a name is not moved to the canonical directory, which
  compares prefixes of names.
* `Parser`: a line is a statement with paths and values already cut into literals and references;
  every line ends with a newline; a file is a subninja once; a pool is declared once, in the
  file or one around it; a pool's depth has no variable of its own file.  A chunk may end behind
  any statement that `nextChunk` can choose, since that depends on sizes only.

## 3. Runs

| run | expects | what it asks |
|---|---|---|
| `builder` | pass | six graphs of four steps (one with two outputs, one reading an output twice; a fork of three, where one `done` wakes more steps than `q` takes; a diamond), capacity 1 for `q` and `errch`, two permits, failing steps, an interrupt at any moment: all safety properties of the loop, termination, and the refinement of `AbstractBuild` (220,000 states) |
| `scheduler` | pass | all graphs of three single-output steps over a set of inputs, cyclic or not; multi-output steps without cycles, validations, `phony_output`; a manifest build and a main build that share sources or steps |
| `depslog` | pass | three runs, two `Record` calls, a crash at any word, one failing write, recompactions |
| `fs_state` | pass | three runs, two updates, a crash anywhere, one mishap (an edit, a deletion, a failing write, a torn journal record, a damaged state file) |
| `flush` | pass | two callers, lists of up to two of five files (fetched, removed by siso, missing at a `Stat`, on the disk with a new mtime or not, with an error), failures, and an interrupt (1.2 million states) |
| `flush_nil` | violation | a failing fetch that another caller waits for |
| `uptodate` | pass | three builds of a restat step with two outputs, a remote compile step with restat_content and deps=gcc, a phony and a generator; two edits, deletions or changed commands; two of a kill, a failing command, a failing flush, an unwritten deps record |
| `stepexec` | pass | two steps of a pool or remote, one permit per semaphore, three attempts, every outcome of handler, cache, service and command, an interrupt at any moment |
| `remote_inputs` | pass | two remote steps that share a small file and the directory of a large one, which is a shared subtree of one of them and listed file by file by the other (and by the first, if the subtree fails); requests, streams and lookups that fail, retries, an interrupt, a restart (2.9 million states) |
| `remote_subtree` | violation | the same instance: the root of the subtree is stored before the large file |
| `action_digest` | pass | all commands of up to two inputs out of 15 names (unclean, missing, below and at directories, symlinks into the root, out of it and to it), with a response file, substituted inputs, a precomputed subtree, with and without the canonical directory, canceled or not; those of one input also impure or without args (600,000 states) |
| `parser` | pass | 26 manifests (shadowed variables, subninjas that share rules, pools and nodes, clashes between chunks and files, one fault each), cut into one or two chunks in every way (175,000 states) |

Why the bounds are enough.  Capacity 1 makes `q` full as soon as two steps are ready, so
spilling, `pushReady` and the moves inside `done` all happen with four steps; two permits
let one step finish while another one starts.  Two `Record` calls over a log of an earlier
run give every combination of a cut or failed record and one behind it; three runs are what
a recompaction, its crash and the reload need.  In `FsState` a record must be made, saved
or journaled, and read back twice: three runs.  Contents of files are interchangeable
model values (symmetry).  In `Flush` two callers with two files each can wait for each
other in a circle.  In `UpToDate` the shortest ways to a wrong answer take three builds: one
that makes the outputs, one that is cut short, one that believes what is left; two faults are needed
for a flush that fails over what a killed build left.  (Four builds with three changes and
one fault were checked once, with the same result.)  In `StepExec` one permit makes two steps wait for
each other, and three attempts are an authentication error, its retry and one more.  In
`RemoteExec` the small blobs go in batches and the large one by a stream; two steps and a
subtree wait for each other's blobs, and the subtree is uploaded a second time after a
restart.  The action `BatchUpdate` takes one of `NextBatches`; that these are the batches of
`createBatchUpdateBlobsRequests`, one after the other and whatever the order of blobs of one
size, is checked for every set of five blobs by the assumption `BatchesFit` of `MCRemoteExec`.  In `ActionDigest` two inputs are what a conflict, a
duplicate or a name below another needs.  In `Parser` two chunks per file, with two files at
the same time, are four goroutines in the node map; the faults are one to a manifest, so
that each error is its own.

Deadlock is checked everywhere; a run that has ended stutters explicitly
(`Terminated`, `Finished`).

Fairness.  `Builder`: weak fairness of the loop and of each goroutine: the Go scheduler
runs a goroutine that can proceed, and every `runStep` returns (a command ends or is
killed).  `Scheduler`: weak fairness of its only goroutine.  `Flush`: weak fairness of every
caller and every fetch: a read of the remote store ends with contents or an error.
`StepExec`: weak fairness of each goroutine: commands, remote calls and downloads end; for
the semaphores it is enough, because the others come back finitely often.  No
fairness is assumed of interrupts, failures or other calls.  `RemoteExec`, `ActionDigest` and
`Parser` state no fairness: that calls of `UploadAll` do not wait for ever is there as the
invariant `OneUploader` and the absence of deadlock; `Parser` has no loop that could go on
without an end, and the absence of deadlock says that `Load` gets to its result.

## 4. Where the code and its comments disagree

Two runs state what a comment says, and TLC refutes it.

* `flush_nil` (`hashfs/fs.go:1437`): a failed fetch closes `lready`, so
  other callers, and all later ones, take the file for downloaded.
* `remote_subtree` (`build/tree_input.go:151`): "check subtree's root digest exist in CAS first. If so,
  we can assume subtree data exist in CAS."  The root is the message of a directory, and `buildTree`
  (`merkletree.go:429`) puts the same message into the store of an action that lists the same files
  one by one.  `UploadAll` sends it in a batch and streams the large file afterwards; in between, or when the
  stream fails or siso is killed, another step finds the root and calls `Execute` without the
  large file.  The service refuses that action, and the background upload of `subtree.init`
  repairs it for a retry.  `ServiceSeesInputs` has this as an exception: a subtree in `listed` that `init`
  has not uploaded.

Seen while modelling, and not kept as runs.  Of `Builder`: after the loop ended because `q` is closed, an
interrupt lets the last goroutines drop their errors (`build/builder.go:351`), and `Build` returns nil where
the comment says "report just number of errors" (`build/builder.go:394`); this is what `NilMeansAllMade` and
`AbstractBuild` allow an interrupted build.  Of `Scheduler`: `visited` is kept from the manifest build to the main
build (`build/ninjabuild/ninjabuild.go:432`, `subcmd/ninja/ninja.go:526`), where steps of both are not
scheduled again but waited for, although "some step will generate it" (`build/plan.go:348`), so that the
main build would wait for ever; the exception `before` in `EveryWaitHasProducer`.  `visited` holds an edge before its
inputs are scheduled, so the second output of a step counts as "already processed"
(`build/plan.go:289`) and a cycle through it is not reported, the build waits for ever
(the instance has cycles through single outputs only, and `CycleErrorCorrect` says that those
are the ones that are always found); `phonyOutput` is set for the visited output of a step only
(`build/plan.go:305`).

Of the files that outlive a run: a damaged state file is never replaced, because
`Close` does not save when nothing was loaded (`hashfs/fs.go:212`); a build that fails before
any update leaves the targets of the last success in the state file (same line); `rDeps` shares
its array with `deps`, so `Record` changes what `Get` returns without `Reset`
(`deps_log.go:375`); after `Recompact`, `rPathIdx` keeps old ids and `Get` reports an
inconsistency that `Recompact` made (`deps_log.go:337`); behind a short write, a negative
output id makes the next start panic (`deps_log.go:365`); a record cut by a failing write
may be completed by the words of the next one and loaded as deps that nobody recorded
(`deps_log.go:571`), which is why the properties of `DepsLog` stop at the first failing write;
`New` removes the journal although saving what it recovered from it failed
(`hashfs/fs.go:135`), the exception `dropped` in `RecordsSurvive`.

Of `UpToDate`: a step with `restat_content` that ran for nothing keeps the mtime of its
output, and `outputMtime` looks at `updatedTime` only for `restat`, so the step is run again in
every build (`build/mtimecheck.go:57`; `docs/starlark_config.md` calls it "like ninja's
restat"), the exception in `RunsOnlyIfNeeded`; what a failed generator has written counts as
up to date in the next build, because its command hash is not looked at
(`build/mtimecheck.go:70`), the exception in `Good`; with `restat` and `deps=gcc` on one step, a
kill between recording outputs and recording deps leaves old deps that look valid, because
`CheckDepsLogState` compares an mtime that did not change (no step of the instance has both);
a source edited while its command runs is older than the outputs.  Of `StepExec`: the second
success without outputs is only logged (`build/exec_remote.go:58`), and outputs of an earlier
build are then taken for new, the exception in `DoneMeansMade`; `outputs` tests the binding
`phony_outputs` (`build/builder.go:443`) where the other places test `phony_output`;
`retry.go` allows one retry of an authentication error, "It does not make sense to retry more"
(`reapi/retry/retry.go:48`), but when a response says "Request had invalid authentication credentials.",
`erespErr` makes it `Unavailable` (`reapi/exec.go:193`), which is retried up to ten times: the model does that too,
and `NoUselessCall` counts the authentication errors that reach `retry.Do` as such; `reExecDur` and
`timeout` are never assigned (`build/exec_remote.go:63`).

Of `CAS`: `upload` returns nil when only streams failed (`reapi/cas.go:375`), so `UploadAll` succeeds
with a large blob missing, the exception `lost` in `ServiceSeesInputs`; an op whose batch
request failed stays in `knownDigests` with its error, so a retry of the step fails on it without
another try; nothing there is forgotten when the service evicts a blob.

Of `ActionDigest`: a symlink out of the root that comes back in by its target gets the
relative target of the second link, and one that leads nowhere, or to the root itself, becomes a
directory (`hashfs/fs.go:823` tests the prefix `root+"/"`);
`Set` depends on the order of a symlink and a file below it (`merkletree.go:136`), which
the sorted inputs hide; the canonical directory `out/x` may meet an input of that name.

Of `Parser`: every `include` panics, because the loop reads `p.chunks[i+1]` of the last chunk
(`file_parser.go:191`), and `includeChunks` would give positions to the wrong statements
(`chunk_parser.go:375`); a pool that is the last statement of its chunk panics
(`chunk_parser.go:599`); a line without "=" at the top level is searched beyond its end
(`chunk_parser.go:251`); a comment without a newline at the end of the file is scanned for
ever (`chunk_parser.go:115` tests `i < 0`).  The paths of `default` and `subninja` and the
depth of a pool are evaluated at position 0, where no variable of the file is set; the paths
of a build and references inside a value are looked up without a position, so a later
redefinition wins (`graph.go:145`), although `eval.go` says that `lookupVar` looks "by name
before pos"; a build's own variables are not seen in its paths; `x = $x` is an error.
`ManifestGraph` takes these rules as they are.  `shardBindings.get` reads a list that other
chunks append to without the lock when a pool's depth has a variable, and pools are
global, so that a sibling's pool is there or not depending on the schedule: the instance
has neither.

## 5. Proofs

All theorems hold for every value of the constants that satisfies the named assumptions, and
rest on nothing else.  The assumptions are `GraphAssumption` and `BuilderAssumption` (well-formed
graphs, capacities and limit at least 1), `SchedulerAssumption` (well-formed graphs, cyclic or
not, with at least one build), `FlushAssumption`, `StepExecAssumption` (finitely many steps,
positive limits and attempts), `FsStateAssumption` (sources and generated files are disjoint;
the markers for "no file", "no entry", "no command" are none of those), `UpToDateAssumption`, `CASAssumption`,
`RemoteAssumption`, `NodeMapAssumption` (the hash of a path is a slot).
Every one is evaluated by TLC on the instances.

**`BuilderProofs`** proves `TypeOK`, `StartsAfterProducers`, `DispatchedOnce`, `ClosedIsFinal`,
`SpillNotStranded`, `ConcurrencyBounded` and `NilMeansAllMade`, with an interrupt at any moment.
None of them is inductive.  The invariant `IInv` adds what relates the counters to the
graph: `nwaits[s]` is the number of the slots of `s` whose producers are not made, plus
those that the `done` call holding the mutex has yet to visit; `npendings` counts the
steps with waits; each step is in exactly one place (waiting, in transit, received,
started); the permits in use are those of the running goroutines and of the loop.
`NilMeansAllMade` needs one more (`ErrInv`): while nothing interrupts, an error that is not
counted yet is still in `errch` or held by a goroutine, and `ctx` is done only after a failure; in any
case the loop gets to its end only over a failure or the closed and empty `q`.  The last part proves that
`Builder` implements `AbstractBuild`, with `CauseInv` (an outcome other than success has a failed step, or
the interrupt, as its cause).

**`SchedulerProofs`** proves `PlanIsExact` for every graph and every list of builds.  The walk is
a recursion, so the invariant describes its stack: each frame is for the input its caller is
at (`StackInv`), the steps visited in this build are in the plan or on the stack
(`VisitedInv`), a target that is done is a source or has its producer in the plan (`ScanInv`),
`nwaits` and the wait lists count the slots that were passed (`WaitInv`), and `q` followed by
`ready` holds the steps without waits in the order they were added, by rank (`QueueInv`).
`ProducersCorrect` is `EveryWaitHasProducer`, for every build on a graph: what `visited` holds at the end of
a walk is in the plan, or was there before (`VisitedInv`).  `CycleErrorCorrect` says that a cycle error is
raised only for a cycle, that the steps of a finished plan which have one output have no
cycle among them (`OrderInv`: each is added behind the producers of its inputs), and that
`CycleErrorIsExact` holds when all steps are such; with several outputs it is false (section 4).

**`UpToDateProofs`** proves that the check of `mtimecheck.go` neither skips too much nor too little,
for every list of steps in a topological order, all commands and includes, and any number of builds,
changes and faults.  `UpToDateAssumption` is what section 2 says of the manifest.
`SuccessMeansFresh` is proved for lists in which no step has both `deps=gcc` and `restat`, and for
any list `FreshUnlessRestatted`, the same without those steps: with one such step it is false (section 4; TLC
finds the counterexample on an instance with one kill).  The invariant `IInv` has
to say why an mtime tells contents.  `MadeInv`: an output on the disk or in hashfs, and a record of the
deps log, was made of contents that every file of an earlier step still has, unless the file is
newer than the output's time (`Based`); so what the check finds not newer is what the
output was made of, however the file came to be there.  For a record of the deps log this also says that
the command would read the same files today (`ReadsSame`: what is read depends on what is read only).  `AgreeInv`: of what is
before the step, hashfs and disk have the same.  `DoneInv` is what is known of the steps the
build has gone past (their files are there and fresh, a phony is as new as what is behind it),
`RecordInv` of the step that is run, whatever of its outputs is recorded.  `CheckSound` is the heart: it
turns `checkUpToDate` into freshness.
`RunsOnlyIfNeeded` needs a second invariant on top, `NInv`, as long as nothing has failed: the entries and deps are
those of the last successful run of each step (`SeenInv`), an output has on the disk the mtime hashfs knows (`SameInv`),
what is marked changed in this build is newer than what the steps to come have seen of it
(`ChangedInv`), and a phony is dirty because of a file behind it (`PhonyInv`).  `NoReason` is the converse
of `CheckSound`: without a reason to run, `checkUpToDate` finds the step up to date.

**`StepExecProofs`** proves `DoneMeansMade`, `RspFate`, `NoUselessCall` and `PermitsReturned`, and from
the last one that a semaphore is never held by more steps than its capacity.  The invariant
says of each position of `runStep` what is known there: which errors are possible (`Failures`), where the
outputs are, whether the response file is there, what is remembered between attempts.  The
step of one goroutine keeps what is known of the others.  The permits are counted as the
cardinality of the set of holders, which one step changes by at most one member.

**`FlushProofs`** proves `TypeOK`, `OneWriter` (strengthened by `WorkingIsBusy`: a goroutine works
only while the channel is empty) and `NilMeansFetched` (strengthened by `FetchInv`: a closed
channel means that the disk has the file as its entry says, there or not, or that its fetch or removal
failed; what a caller has gone past
is settled, its mtime set, or being written by one of its own goroutines), with failures and interrupts and
for any number of callers and files.

**`FsStateProofs`** proves `ClaimsAreTrue`, `RecordsSurvive` and `ClosePersists`, for any number of
runs, updates and mishaps and a crash at any point.
`ClaimsAreTrue` rests on `HeldInv`: an entry may be in memory, in the state file, in the state being
saved and in the journal at once, and may come back from any of them in a later run, so the
invariant is about all entries that are held anywhere: each was made by its command, none
is newer than the clock, and the mtime tells the contents, of the file on the disk as well as of
two entries.  This is what makes the comparison of mtimes in `SetState` sound.
`RecordsSurvive` rests on `SurviveInv`: at every moment, in every state of `Save`, what the next run would
load from state file and journal is known; before New removes the journal, nothing
readable is in it that is not in the state file.  `ClosePersists` rests on `PersistInv`: what `clean` says about
memory and state file, from `SetState` on.  The lemmas about the journal (`JournaledAppend`, `JournaledTorn`)
say that a record is found if it is the last one of its file and nothing before it is torn.

**`RemoteExecProofs`** proves `KnownIsThere`, `OneUploader` and `ServiceSeesInputs` for any number of steps, subtrees,
blobs, sizes and limits.  `CallInv` says what each call has yet to claim, upload and settle: a
blob it has an op for is still to be sent, or sent, or its stream failed.  `RemoteInv` adds what
is below a root that the service has (`RootMeansTree`, `RootIsLast`: a root that only its subtree has
sent was sent when everything below it was; nothing is assumed of the stores of the steps) and what a
call of `UploadAll` covers (`Covered`).  What a step that was given a subtree can count on
(`Usable`) does not go away when `init` goes on, or fails (`StaysUsable`).  A restart keeps it.

**`NodeMapProofs`** proves `OneNode` for any number of goroutines and every hash function, and that no two
nodes of the map have one path.  A compare-and-swap that succeeds must know that the list it
searched still has no node with its key (`SearchedHasNoKey`), and that the node it inserts is
the last one of its own slab (`PendingIsLast`).

Only model-checked:

* termination of `Build`, `schedule`, `Flush` and `runStep`: liveness under fairness and `ENABLED` are
  outside the prover;
* `CycleErrorIsExact` with steps of several outputs, on the instance only, because it is false in general;
* `DepsLog`: what a reader makes of the words of a file is a function of the whole file, and
  facts about it for every file need induction over sequences;
* `ActionDigest` with `MerkleTree`, and `LoadIsExact` of `Parser` with `NinjaScope` and `ManifestGraph`: recursion over paths,
  directories and scopes.

## 6. Plan

Done: `BuildGraph`, `Scheduler`, `Builder`, `AbstractBuild`, `FsState`, `Flush`, `DepsLog`,
`UpToDate`, `StepExec`, `CAS`, `RemoteExec`, `MerkleTree`, `ActionDigest`, `NinjaScope`, `NodeMap`,
`Parser` and the proofs above.  Next, in this order:

1. proofs: the mtime round trip and the ids of `DepsLog`;
2. the directory tree of hashfs (`lookup`, `storeEntry`, symbolic links) with `Update` while
   another caller flushes, and the directory cache of the include scanner;
3. the inner loop of `ExecuteAndWait`, downloads, the layered cache;
4. an abstract specification of `StepExec` that `Builder` uses, and `UpToDate` composed with the
   files of `DepsLog` and `FsState`.

Not planned: formatting and terminal output, Starlark configuration (user code), lexing of
manifests, depfiles and command lines (string processing), authentication, generated code.
