------------------------------ MODULE DepsLog ------------------------------
(***************************************************************************)
(* ninjautil.DepsLog (.siso_deps): the log file on the disk, the tables in *)
(* memory, and the read-only tables that Get uses, over several runs of    *)
(* siso with crashes and failing writes.                                   *)
(*                                                                         *)
(* The file is a sequence of 4-byte words after the signature and version. *)
(* A path is a sequence of words (the bytes of its name, padded).  Sizes   *)
(* in record headers are in bytes, as in the file.  A torn write leaves a  *)
(* prefix of its words; tearing inside a word reads like tearing before it.*)
(* Ids count from 0: the path with id i is paths[i + 1].                   *)
(***************************************************************************)
EXTENDS Integers, Sequences, FiniteSets, SequencesExt, TLC

CONSTANTS
    Path,           \* path names, each a sequence of words
    Output,         \* the paths that are outputs of steps with deps
    MTime,          \* mtimes of outputs
    DepLists,       \* lists of inputs that Record is called with
    Past,           \* Record calls of an earlier run, which left the log behind
    MaxSessions,    \* bound on the runs of siso
    MaxRecords,     \* bound on the Record calls
    MaxFails,       \* bound on the writes to the disk that fail
    CapStep,        \* granularity of the capacity of deps (100 in update)
    MinCompactionEntryCount,    \* 1000 in NewDepsLog
    CompactionRatio,            \* 3 in NewDepsLog
    NoDeps          \* a nil depsRecord

ASSUME DepsLogAssumption ==
    /\ Output \subseteq Path
    /\ DepLists \subseteq Seq(Path)
    /\ MaxFails \in Nat
    /\ CapStep \in Nat \ {0}

VARIABLES
    file,       \* .siso_deps
    temp,       \* .siso_deps.recompact
    proc,       \* what this run of siso is doing with the log
    pos, total, unique,     \* NewDepsLog: offset and record counts
    ci,         \* Recompact: the next entry of rDeps to write
    nd,         \* Recompact: the tables of the new log
    mem,        \* d.paths (and with it d.pathIdx), d.deps and its capacity
    rPaths, rPathIdx, rDeps,    \* the tables Get uses
    shared,     \* does rDeps share its backing array with d.deps?
    sessions, nrec, fails,      \* runs, Record calls and failed writes so far
    asked,      \* history: every record Record was ever called with
    last        \* history: what the log may say of an output

memVars == <<mem, rPaths, rPathIdx, rDeps, shared>>
readVars == <<pos, total, unique>>
histVars == <<nrec, fails, asked, last>>
vars == <<file, temp, proc, readVars, ci, nd, memVars, sessions, histVars>>

NoFile == [exists |-> FALSE, hdr |-> FALSE, words |-> <<>>]
NewFile(ok) == [exists |-> TRUE, hdr |-> ok, words |-> <<>>]
EmptyLog == [paths |-> <<>>, deps |-> <<>>, cap |-> 0]

-----------------------------------------------------------------------------
(***************************************************************************)
(* Words.  The halves of an mtime are words of WordBase values instead of  *)
(* 2^32, so that both halves and their sign bits matter for small mtimes.  *)
(***************************************************************************)
WordBase == 4
Signed(x, base) == ((x + base \div 2) % base) - base \div 2
MtimeLo(t) == Signed(t % WordBase, WordBase)
MtimeHi(t) == Signed(t \div WordBase, WordBase)

\* Mutant: the low half is sign-extended into the mtime.
MtimeSigned(lo, hi) ==
    Signed((hi % WordBase) * WordBase + lo, WordBase * WordBase)

Mtime(lo, hi) ==
    Signed((hi % WordBase) * WordBase + (lo % WordBase), WordBase * WordBase)

MaxRecordSize == 524287
HighBit(size) == size - 2147483647 - 1       \* int32(uint32(size) | 1<<31)
IsDepsRecord(h) == h < 0
RecordSize(h) == h % 134217728               \* int(h) & 0x7FFFFFF
Checksum(i) == -(i + 1)                      \* ^i

PathRecord(i, p) == <<4 * Len(p) + 4>> \o p \o <<Checksum(i)>>
DepsRecord(i, t, ids) ==
    <<HighBit(4 * (3 + Len(ids))), i, MtimeLo(t), MtimeHi(t)>> \o ids

\* uniquePathIdx for each path in turn; the id of a path is its last index.
AddPaths(paths, ps) ==
    FoldLeft(LAMBDA acc, p : IF p \in Range(acc) THEN acc ELSE Append(acc, p), paths, ps)
PathId(paths, p) == (CHOOSE i \in DOMAIN paths :
                        paths[i] = p /\ \A j \in DOMAIN paths : paths[j] = p => j <= i) - 1
PathIdx(paths) == [p \in Range(paths) |-> PathId(paths, p)]

\* DepsLog.update: in place, within the capacity, or in a new array.
Update(d, id, rec) ==
    IF id < Len(d.deps)
    THEN [d EXCEPT !.deps[id + 1] = rec]
    ELSE [d EXCEPT !.deps = [i \in 1..id + 1 |->
                                IF i = id + 1 THEN rec
                                ELSE IF i <= Len(d.deps) THEN d.deps[i] ELSE NoDeps],
                   !.cap = IF id < @ THEN @
                           ELSE ((id + CapStep) \div CapStep) * CapStep]

\* Mutant: a record is skipped when its inputs are known, whatever its mtime.
RecordNeededForInputs(d, id, rec, fresh) ==
    \/ fresh # <<>>
    \/ id >= Len(d.deps)
    \/ d.deps[id + 1] = NoDeps
    \/ d.deps[id + 1].inputs # rec.inputs

\* Record writes unless the log already says the same of the output.
RecordNeeded(d, id, rec, fresh) ==
    \/ fresh # <<>>
    \/ id >= Len(d.deps)
    \/ d.deps[id + 1] # rec

(***************************************************************************)
(* What Record(out, t, ins) does to the tables d: the new paths, in order, *)
(* the id of out, and the writes: one per new path, then the deps record.  *)
(***************************************************************************)
RecordCall(d, out, t, ins) ==
    LET ps == AddPaths(d.paths, <<out>> \o ins)
        fresh == SubSeq(ps, Len(d.paths) + 1, Len(ps))
        id == PathId(ps, out)
        rec == [mtime |-> t, inputs |-> ins]
        ids == [k \in DOMAIN ins |-> PathId(ps, ins[k])]
    IN [needed |-> RecordNeeded(d, id, rec, fresh),
        id |-> id, rec |-> rec, fresh |-> fresh,
        after |-> Update([d EXCEPT !.paths = ps], id, rec),
        writes |-> Append([k \in DOMAIN fresh |-> PathRecord(Len(d.paths) + k - 1, fresh[k])],
                          DepsRecord(id, t, ids))]

AppendWords(f, ws) == [f EXCEPT !.exists = TRUE, !.words = @ \o ws]

-----------------------------------------------------------------------------
InitLog ==
    IF Past = <<>> THEN [d |-> EmptyLog, f |-> NoFile]
    ELSE FoldLeft(LAMBDA acc, r :
                     LET c == RecordCall(acc.d, r.out, r.mtime, r.inputs)
                     IN [d |-> c.after, f |-> AppendWords(acc.f, FlattenSeq(c.writes))],
                  [d |-> EmptyLog, f |-> NewFile(TRUE)], Past)

LastOf(p) ==
    LET calls == SelectSeq(Past, LAMBDA r : r.out = p)
    IN IF calls = <<>> THEN NoDeps
       ELSE [mtime |-> Last(calls).mtime, inputs |-> Last(calls).inputs]

NoTables ==
    /\ mem' = EmptyLog /\ rPaths' = <<>> /\ rPathIdx' = <<>> /\ rDeps' = <<>>
    /\ shared' = TRUE

Init ==
    /\ file = InitLog.f /\ temp = NoFile
    /\ proc = "down"
    /\ pos = 1 /\ total = 0 /\ unique = 0
    /\ ci = 1 /\ nd = EmptyLog
    /\ mem = EmptyLog /\ rPaths = <<>> /\ rPathIdx = <<>> /\ rDeps = <<>>
    /\ shared = TRUE
    /\ sessions = 0 /\ nrec = 0 /\ fails = 0
    /\ asked = Range(Past)
    /\ last = [p \in Path |-> {LastOf(p)}]

(***************************************************************************)
(* NewDepsLog                                                              *)
(***************************************************************************)
\* A write fails.
WriteFails == fails < MaxFails /\ fails' = fails + 1

\* createNewDepsLogFile only logs its errors.
Created(f) ==
    \/ f = NewFile(TRUE) /\ UNCHANGED fails
    \/ f = NewFile(FALSE) /\ WriteFails

NoRead == pos' = 1 /\ total' = 0 /\ unique' = 0
NoCompact == ci' = 1 /\ nd' = EmptyLog

Start ==
    /\ proc = "down" /\ sessions < MaxSessions
    /\ sessions' = sessions + 1
    /\ UNCHANGED <<temp, ci, nd, memVars, nrec, asked, last>>

\* A missing or damaged header: createNewDepsLogFile, whose writes may fail.
OpenNew ==
    /\ Start
    /\ ~(file.exists /\ file.hdr)
    /\ Created(file')
    /\ proc' = "up"
    /\ UNCHANGED readVars

\* siso is killed after os.Create.
OpenNewCut ==
    /\ Start
    /\ ~(file.exists /\ file.hdr)
    /\ file' = NewFile(FALSE)
    /\ UNCHANGED <<proc, readVars, fails>>

OpenExisting ==
    /\ Start
    /\ file.exists /\ file.hdr
    /\ proc' = "reading"
    /\ NoRead
    /\ UNCHANGED <<file, fails>>

\* The record at pos.
Header == file.words[pos]
Size == RecordSize(Header)
Body == SubSeq(file.words, pos + 1, pos + Size \div 4)
AtEnd == pos > Len(file.words)
Whole == Size <= MaxRecordSize /\ Size % 4 = 0 /\ pos + Size \div 4 <= Len(file.words)
KnownId(i) == 0 <= i /\ i < Len(mem.paths)

\* Mutant: a damaged log is not recompacted.
NeedsRecompactIfOld(broken) ==
    \/ total > MinCompactionEntryCount /\ total > unique * CompactionRatio
    \/ total = 0

NeedsRecompact(broken) ==
    \/ broken
    \/ total > MinCompactionEntryCount /\ total > unique * CompactionRatio
    \/ total = 0

\* The end of NewDepsLog, and the start of Recompact in initDepsLog: the left
\* over temporary file is replaced.
FinishRead(broken) ==
    /\ rPaths' = mem.paths /\ rPathIdx' = PathIdx(mem.paths)
    /\ rDeps' = mem.deps /\ shared' = TRUE
    /\ IF NeedsRecompact(broken)
       THEN proc' = "compacting" /\ NoCompact /\ Created(temp')
       ELSE proc' = "up" /\ UNCHANGED <<ci, nd, temp, fails>>
    /\ NoRead
    /\ UNCHANGED <<file, mem, sessions, nrec, asked, last>>

ReadEnd ==
    /\ proc = "reading"
    /\ AtEnd
    /\ FinishRead(FALSE)

GoodPath == Len(Body) >= 2 /\ Last(Body) = Checksum(Len(mem.paths))

ReadBroken ==
    /\ proc = "reading"
    /\ ~AtEnd
    /\ Whole => ~IsDepsRecord(Header) /\ ~GoodPath
    /\ FinishRead(TRUE)

ReadPath ==
    /\ proc = "reading"
    /\ ~AtEnd /\ Whole /\ ~IsDepsRecord(Header)
    /\ GoodPath
    /\ mem' = [mem EXCEPT !.paths = Append(@, Front(Body))]
    /\ pos' = pos + 1 + Len(Body)
    /\ UNCHANGED <<file, temp, proc, total, unique, ci, nd, rPaths, rPathIdx,
                   rDeps, shared, sessions, histVars>>

AtDeps == proc = "reading" /\ ~AtEnd /\ Whole /\ IsDepsRecord(Header)
Ids == SubSeq(Body, 4, Len(Body))

ReadDeps ==
    /\ AtDeps /\ Len(Body) >= 3
    /\ \A k \in DOMAIN Ids : KnownId(Ids[k])
    /\ Body[1] >= 0
    /\ total' = total + 1
    /\ unique' = IF Body[1] < Len(mem.deps) THEN unique ELSE unique + 1
    /\ mem' = Update(mem, Body[1],
                     [mtime |-> Mtime(Body[2], Body[3]),
                      inputs |-> [k \in DOMAIN Ids |-> mem.paths[Ids[k] + 1]]])
    /\ pos' = pos + 1 + Len(Body)
    /\ UNCHANGED <<file, temp, proc, ci, nd, rPaths, rPathIdx, rDeps, shared,
                   sessions, histVars>>

\* A bad path id: the record is dropped, the loop goes on.
ReadBadDeps ==
    /\ AtDeps /\ Len(Body) >= 3
    /\ Body[1] = -1 \/ \E k \in DOMAIN Ids : ~KnownId(Ids[k])
    /\ pos' = pos + 1 + Len(Body)
    /\ UNCHANGED <<file, temp, proc, total, unique, ci, nd, memVars, sessions, histVars>>

\* An index out of range: a record too short, or a negative output id.
ReadPanic ==
    /\ AtDeps
    /\ \/ Len(Body) < 3
       \/ Len(Body) >= 3 /\ Body[1] < -1 /\ \A k \in DOMAIN Ids : KnownId(Ids[k])
    /\ proc' = "panicked"
    /\ UNCHANGED <<file, temp, readVars, ci, nd, memVars, sessions, histVars>>

(***************************************************************************)
(* Recompact: every known record is written to the temporary file, which   *)
(* then replaces the log.                                                  *)
(***************************************************************************)
\* Entries still to be written.
CompactTodo == Len(rDeps) + 1 - ci

CompactRecord ==
    /\ proc = "compacting" /\ CompactTodo > 0
    /\ rDeps[ci] = NoDeps \/ ci <= Len(rPaths)
    /\ ci' = ci + 1
    /\ IF rDeps[ci] = NoDeps
       THEN UNCHANGED <<nd, temp>>
       ELSE LET c == RecordCall(nd, rPaths[ci], rDeps[ci].mtime, rDeps[ci].inputs)
            IN nd' = c.after /\ temp' = AppendWords(temp, FlattenSeq(c.writes))
    /\ UNCHANGED <<file, proc, readVars, memVars, sessions, histVars>>

\* An entry beyond the known paths: an index out of range.
CompactPanic ==
    /\ proc = "compacting" /\ CompactTodo > 0
    /\ rDeps[ci] # NoDeps /\ ci > Len(rPaths)
    /\ proc' = "panicked"
    /\ UNCHANGED <<file, temp, readVars, ci, nd, memVars, sessions, histVars>>

CompactRemove ==
    /\ proc = "compacting" /\ CompactTodo <= 0
    /\ file' = NoFile
    /\ proc' = "removed"
    /\ UNCHANGED <<temp, readVars, ci, nd, memVars, sessions, histVars>>

\* maps.Copy adds the new ids to rPathIdx and keeps the old ones of other paths.
CompactRename ==
    /\ proc = "removed"
    /\ file' = temp /\ temp' = NoFile
    /\ mem' = nd
    /\ rPaths' = nd.paths
    /\ rPathIdx' = PathIdx(nd.paths) @@ rPathIdx
    /\ rDeps' = nd.deps /\ shared' = TRUE
    /\ proc' = "up"
    /\ NoCompact
    /\ UNCHANGED <<readVars, sessions, histVars>>

\* A failing write, remove or rename: initDepsLog returns no log, and this run
\* of siso neither reads nor records deps.
CompactFail ==
    /\ proc \in {"compacting", "removed"}
    /\ WriteFails
    /\ proc' = "nolog"
    /\ last' = IF proc = "removed" THEN [p \in Path |-> last[p] \cup {NoDeps}] ELSE last
    /\ UNCHANGED <<file, temp, readVars, ci, nd, memVars, sessions, nrec, asked>>

-----------------------------------------------------------------------------
(***************************************************************************)
(* Record, under the mutex, while steps finish.                            *)
(***************************************************************************)
Call(out, t, ins) ==
    /\ proc = "up" /\ nrec < MaxRecords
    /\ nrec' = nrec + 1
    /\ asked' = asked \cup {[out |-> out, mtime |-> t, inputs |-> ins]}
    /\ UNCHANGED <<temp, readVars, ci, nd, sessions>>

\* The write of a deps pointer is seen through rDeps while the array is shared.
UpdateTables(c) ==
    /\ shared' = (shared /\ c.id < mem.cap)
    /\ rDeps' = IF shared /\ c.id < Len(rDeps)
                THEN [rDeps EXCEPT ![c.id + 1] = c.rec] ELSE rDeps
    /\ UNCHANGED <<rPaths, rPathIdx>>

Record(out, t, ins) ==
    LET c == RecordCall(mem, out, t, ins)
    IN /\ Call(out, t, ins)
       /\ last' = [last EXCEPT ![out] = {c.rec}]
       /\ UNCHANGED fails
       /\ IF c.needed
          THEN /\ mem' = c.after
               /\ UpdateTables(c)
               /\ file' = AppendWords(file, FlattenSeq(c.writes))
          ELSE UNCHANGED <<file, memVars>>
       /\ UNCHANGED proc

\* siso is killed during Record: some prefix of its writes is in the file.
RecordCut(out, t, ins) ==
    LET c == RecordCall(mem, out, t, ins)
        ws == FlattenSeq(c.writes)
    IN /\ c.needed
       /\ Call(out, t, ins)
       /\ \E k \in 1..Len(ws) : file' = AppendWords(file, SubSeq(ws, 1, k))
       /\ last' = [last EXCEPT ![out] = @ \cup {c.rec}]
       /\ proc' = "down"
       /\ UNCHANGED fails
       /\ NoTables

\* The j-th write fails after k of its words: Record returns the error, with
\* the paths up to the failing one, and the record if it was the last write,
\* already in the tables.  updateDeps logs the error and the build goes on.
RecordFail(out, t, ins) ==
    LET c == RecordCall(mem, out, t, ins)
    IN /\ c.needed
       /\ WriteFails
       /\ Call(out, t, ins)
       /\ \E j \in DOMAIN c.writes : \E k \in 0..Len(c.writes[j]) - 1 :
            /\ file' = AppendWords(file, FlattenSeq(SubSeq(c.writes, 1, j - 1))
                                            \o SubSeq(c.writes[j], 1, k))
            /\ IF j = Len(c.writes)
               THEN mem' = c.after /\ UpdateTables(c)
               ELSE /\ mem' = [mem EXCEPT !.paths = @ \o SubSeq(c.fresh, 1, j)]
                    /\ UNCHANGED <<rPaths, rPathIdx, rDeps, shared>>
       /\ last' = [last EXCEPT ![out] = @ \cup {c.rec}]
       /\ UNCHANGED proc

\* Reset, when the manifest was regenerated and the graph is reloaded.
Reset ==
    /\ proc = "up"
    /\ rPaths' = mem.paths
    /\ rPathIdx' = PathIdx(mem.paths) @@ rPathIdx
    /\ rDeps' = mem.deps /\ shared' = TRUE
    /\ UNCHANGED <<file, temp, proc, readVars, ci, nd, mem, sessions, histVars>>

\* Get finds an id in rPathIdx that is another path's in rPaths.
Inconsistent(p) ==
    /\ p \in DOMAIN rPathIdx
    /\ rPathIdx[p] < Len(rPaths)
    /\ rPaths[rPathIdx[p] + 1] # p

\* Mutant: Get trusts rPathIdx.
GetUnchecked(p) ==
    IF p \in DOMAIN rPathIdx /\ rPathIdx[p] < Len(rPaths) /\ rPathIdx[p] < Len(rDeps)
    THEN rDeps[rPathIdx[p] + 1] ELSE NoDeps

\* Get, without the mutex.
Get(p) ==
    IF /\ p \in DOMAIN rPathIdx /\ rPathIdx[p] < Len(rPaths) /\ ~Inconsistent(p)
       /\ rPathIdx[p] < Len(rDeps)
    THEN rDeps[rPathIdx[p] + 1] ELSE NoDeps

\* siso ends or is killed.  Killed between Remove and Rename, the log is lost.
Stop ==
    /\ proc # "down"
    /\ proc' = "down"
    /\ last' = IF proc = "removed" THEN [p \in Path |-> last[p] \cup {NoDeps}] ELSE last
    /\ NoTables /\ NoRead /\ NoCompact
    /\ UNCHANGED <<file, temp, sessions, nrec, fails, asked>>

Finished ==
    /\ proc = "down" /\ sessions = MaxSessions
    /\ UNCHANGED vars

Next ==
    \/ OpenNew \/ OpenNewCut \/ OpenExisting
    \/ ReadEnd \/ ReadBroken \/ ReadPath \/ ReadDeps \/ ReadBadDeps \/ ReadPanic
    \/ CompactRecord \/ CompactPanic \/ CompactRemove \/ CompactRename \/ CompactFail
    \/ \E out \in Output, t \in MTime, ins \in DepLists :
          Record(out, t, ins) \/ RecordCut(out, t, ins) \/ RecordFail(out, t, ins)
    \/ Reset \/ Stop \/ Finished

Spec == Init /\ [][Next]_vars

-----------------------------------------------------------------------------
(***************************************************************************)
(* Properties                                                              *)
(***************************************************************************)
RecordOf(d, p) ==
    IF p \in Range(d.paths) /\ PathId(d.paths, p) < Len(d.deps)
    THEN d.deps[PathId(d.paths, p) + 1] ELSE NoDeps

Loaded == proc \in {"compacting", "removed", "up"}

\* "If there are read errors, returns a truncated deps log": while no write has
\* failed, every record of a loaded log, with its mtime and inputs, is one that
\* Record was called with, although crashes cut records.
LoadedWasRecorded ==
    fails = 0 /\ Loaded =>
        \A i \in DOMAIN mem.deps : mem.deps[i] # NoDeps =>
            /\ i <= Len(mem.paths)
            /\ [out |-> mem.paths[i], mtime |-> mem.deps[i].mtime,
                inputs |-> mem.deps[i].inputs] \in asked

\* A recorded output is not lost or rolled back by later runs of siso, crashes
\* and recompactions: the loaded log says what was recorded last, or what a
\* Record call cut by a crash would have said.  Only a crash between Remove and
\* Rename of Recompact, or a failing write, may lose it.
NoRecordLost == fails = 0 /\ Loaded => \A p \in Path : RecordOf(mem, p) \in last[p]

\* "broken input should never cause error": no run of siso panics on a log whose
\* writes did not fail.
LoadNeverPanics == fails = 0 => proc # "panicked"

\* Get returns deps that were recorded for the very output it is asked about,
\* although ids change in Recompact and rPathIdx keeps ids of the old log (while no
\* write has failed).
GetReturnsOwnDeps ==
    fails = 0 /\ proc = "up" => \A p \in Path : Get(p) # NoDeps =>
        [out |-> p, mtime |-> Get(p).mtime, inputs |-> Get(p).inputs] \in asked
=============================================================================
