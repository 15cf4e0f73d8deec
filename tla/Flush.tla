------------------------------- MODULE Flush -------------------------------
(***************************************************************************)
(* hashfs.Flush: steps that run at the same time ask for files on the      *)
(* local disk.  The lready channel of an entry lets one caller fetch the   *)
(* contents while the others wait:                                         *)
(*     "need"    the channel holds true: contents must be fetched          *)
(*     "busy"    the channel is empty: a goroutine is fetching them        *)
(*     "closed"  the contents are on the disk, or the fetch failed         *)
(* An entry may also say that its file does not exist (its err is          *)
(* fs.ErrNotExist): after Remove the file may still be on the disk and     *)
(* flush removes it; after a Stat of a missing file there is nothing to do.*)
(* A caller goes through its files in order and starts one goroutine of an *)
(* errgroup for each file that it has to fetch.  Other callers may come at *)
(* any time; a caller that comes later is one that takes its first step    *)
(* later.                                                                  *)
(***************************************************************************)
EXTENDS Naturals, Sequences, FiniteSets

CONSTANTS
    Caller,     \* calls of Flush
    File,
    MaxFiles,   \* bound on the files of a call; a file may be named twice
    Missing,    \* files hashfs has no entry of
    Local,      \* files whose entry was made from the local disk
    Bad,        \* files of Local with an error other than "not exist"
    Removed,    \* files whose entry has the error "not exist"
    Foreign,    \* files whose mtime os.Chtimes cannot set
    MayFail,    \* may fetching or writing a file fail?
    MayCancel   \* may the build be interrupted?

ASSUME FlushAssumption ==
    /\ MaxFiles \in Nat
    /\ Missing \subseteq File /\ Local \subseteq File
    /\ Bad \subseteq Local /\ Missing \cap Local = {}
    /\ Removed \subseteq File \ (Missing \cup Bad) /\ Foreign \subseteq File
    /\ MayFail \in BOOLEAN /\ MayCancel \in BOOLEAN

VARIABLES
    files,      \* files[c]: the files parameter
    known,      \* the files of which hashfs has an entry
    lready,     \* the channel of each entry
    onDisk,     \* files that are on the disk with the contents of their entry; of
                \* Removed, files that are on the disk
    mtimeUpdated, \* files of Local whose entry got another mtime than the disk's
    pc,         \* where each caller is; "nil" and "err" are its results
    pos,        \* the index of its file
    job,        \* job[c][f]: the goroutine of c for f
    canceled    \* the context of the build

vars == <<files, known, lready, onDisk, mtimeUpdated, pc, pos, job, canceled>>

Returned == {"nil", "err"}
Working == {"fetch", "written"}

\* A file of Local was on the disk, or missing, when its entry was made.
Init ==
    /\ files \in [Caller -> UNION {[1..n -> File] : n \in 0..MaxFiles}]
    /\ known = File \ Missing
    /\ onDisk \in {(Local \ Removed) \cup S : S \in SUBSET (File \ Local)}
    /\ mtimeUpdated \in SUBSET (Local \ (Bad \cup Removed))
    /\ lready = [f \in File |-> IF f \in Local THEN "closed" ELSE "need"]
    /\ pc = [c \in Caller |-> "scan"]
    /\ pos = [c \in Caller |-> 1]
    /\ job = [c \in Caller |-> [f \in File |-> "none"]]
    /\ canceled = FALSE

\* The context of the errgroup of c: done when the build is interrupted, when one
\* of its goroutines failed, or when Flush returned.
Done(c) ==
    \/ canceled
    \/ pc[c] \in Returned
    \/ \E f \in File : job[c][f] = "failed"

At(c) == files[c][pos[c]]

Return(c, result) == pc' = [pc EXCEPT ![c] = result]

\* Mutant: the loop skips a file.
SkipFile(c) == pc' = [pc EXCEPT ![c] = "scan"] /\ pos' = [pos EXCEPT ![c] = @ + 2]

NextFile(c) == pc' = [pc EXCEPT ![c] = "scan"] /\ pos' = [pos EXCEPT ![c] = @ + 1]

-----------------------------------------------------------------------------
\* A file without an entry is left as it is on the disk.
Lookup(c) ==
    /\ pc[c] = "scan" /\ pos[c] <= Len(files[c])
    /\ IF At(c) \in known
       THEN pc' = [pc EXCEPT ![c] = "select"] /\ UNCHANGED pos
       ELSE NextFile(c)
    /\ UNCHANGED <<files, known, lready, onDisk, mtimeUpdated, job, canceled>>

\* Mutant: an entry that is being fetched counts as ready.
LocalReadyEarly(f) == lready[f] # "need"

\* The receive yields false: the channel is closed.
LocalReady(f) == lready[f] = "closed"

\* os.Chtimes of a file that was there before its entry got another mtime; its
\* failure is ignored.
SetMtime(f) == mtimeUpdated' = IF f \in Foreign THEN mtimeUpdated ELSE mtimeUpdated \ {f}

\* Flush goes on after an entry whose file does not exist, and returns at once for
\* any other error.
SelectReady(c) ==
    /\ pc[c] = "select" /\ LocalReady(At(c))
    /\ SetMtime(At(c))
    /\ IF At(c) \in Bad THEN Return(c, "err") /\ UNCHANGED pos ELSE NextFile(c)
    /\ UNCHANGED <<files, known, lready, onDisk, job, canceled>>

\* Mutant: the token stays in the channel.
KeepToken(f) == UNCHANGED lready

\* The receive takes the token, so that nobody else fetches the file.
TakeToken(f) == lready' = [lready EXCEPT ![f] = "busy"]

SelectNeed(c) ==
    /\ pc[c] = "select" /\ lready[At(c)] = "need"
    /\ TakeToken(At(c))
    /\ job' = [job EXCEPT ![c][At(c)] = "fetch"]
    /\ NextFile(c)
    /\ UNCHANGED <<files, known, onDisk, mtimeUpdated, canceled>>

\* Flush returns without waiting for the goroutines it started.
SelectDone(c) ==
    /\ pc[c] = "select" /\ Done(c)
    /\ Return(c, "err")
    /\ UNCHANGED <<files, known, lready, onDisk, mtimeUpdated, pos, job, canceled>>

EndScan(c) ==
    /\ pc[c] = "scan" /\ pos[c] > Len(files[c])
    /\ pc' = [pc EXCEPT ![c] = "wait"]
    /\ UNCHANGED <<files, known, lready, onDisk, mtimeUpdated, pos, job, canceled>>

\* errgroup.Wait.
Wait(c) ==
    /\ pc[c] = "wait"
    /\ \A f \in File : job[c][f] \notin Working
    /\ Return(c, IF \E f \in File : job[c][f] = "failed" THEN "err" ELSE "nil")
    /\ UNCHANGED <<files, known, lready, onDisk, mtimeUpdated, pos, job, canceled>>

-----------------------------------------------------------------------------
(***************************************************************************)
(* entry.flush, in a goroutine                                             *)
(***************************************************************************)
\* Mutant: the channel is closed only when the contents were written.
CloseOnSuccess(c, f, result) ==
    /\ job' = [job EXCEPT ![c][f] = result]
    /\ lready' = [lready EXCEPT ![f] = IF result = "ok" THEN "closed" ELSE @]

\* The deferred close of lready, whatever flush returns.
FlushReturns(c, f, result) ==
    /\ job' = [job EXCEPT ![c][f] = result]
    /\ lready' = [lready EXCEPT ![f] = "closed"]

\* An entry whose file does not exist: the file is removed from the disk, and it is
\* an error if it is not there.
FlushRemove(c, f) ==
    /\ job[c][f] = "fetch" /\ f \in Removed
    /\ \/ /\ f \in onDisk
          /\ onDisk' = onDisk \ {f} /\ FlushReturns(c, f, "ok")
       \/ /\ f \notin onDisk \/ MayFail
          /\ UNCHANGED onDisk /\ FlushReturns(c, f, "failed")
    /\ UNCHANGED <<files, known, mtimeUpdated, pc, pos, canceled>>

\* The file is on the disk already.
FlushSame(c, f) ==
    /\ job[c][f] = "fetch" /\ f \in onDisk \ Removed
    /\ FlushReturns(c, f, "ok")
    /\ UNCHANGED <<files, known, onDisk, mtimeUpdated, pc, pos, canceled>>

\* The contents are fetched to a temporary file and renamed.
FlushWrite(c, f) ==
    /\ job[c][f] = "fetch" /\ f \notin onDisk \cup Removed
    /\ job' = [job EXCEPT ![c][f] = "written"]
    /\ UNCHANGED <<files, known, lready, onDisk, mtimeUpdated, pc, pos, canceled>>

\* os.Chtimes.
FlushDone(c, f) ==
    /\ job[c][f] = "written"
    /\ onDisk' = onDisk \cup {f}
    /\ FlushReturns(c, f, "ok")
    /\ UNCHANGED <<files, known, mtimeUpdated, pc, pos, canceled>>

\* A failure, or the context is done while the contents are read.  If the remote
\* store does not have them, hashfs forgets the entry.
FlushFail(c, f) ==
    /\ \/ job[c][f] = "fetch" /\ f \notin onDisk \cup Removed /\ (MayFail \/ Done(c))
       \/ job[c][f] = "written" /\ MayFail
    /\ FlushReturns(c, f, "failed")
    /\ \/ UNCHANGED known
       \/ MayFail /\ job[c][f] = "fetch" /\ known' = known \ {f}
    /\ UNCHANGED <<files, onDisk, mtimeUpdated, pc, pos, canceled>>

-----------------------------------------------------------------------------
Interrupt ==
    /\ MayCancel /\ ~canceled
    /\ canceled' = TRUE
    /\ UNCHANGED <<files, known, lready, onDisk, mtimeUpdated, pc, pos, job>>

Terminated ==
    /\ \A c \in Caller : pc[c] \in Returned /\ \A f \in File : job[c][f] \notin Working
    /\ UNCHANGED vars

CallNext(c) ==
    \/ Lookup(c) \/ SelectReady(c) \/ SelectNeed(c) \/ SelectDone(c) \/ EndScan(c) \/ Wait(c)

JobNext(c, f) ==
    \/ FlushRemove(c, f) \/ FlushSame(c, f) \/ FlushWrite(c, f) \/ FlushDone(c, f) \/ FlushFail(c, f)

Next ==
    \/ \E c \in Caller : CallNext(c)
    \/ \E c \in Caller, f \in File : JobNext(c, f)
    \/ Interrupt
    \/ Terminated

\* Go runs every goroutine that is not blocked; a read of the remote store ends,
\* with the contents or with an error.
Fairness ==
    /\ \A c \in Caller : WF_vars(CallNext(c))
    /\ \A c \in Caller, f \in File : WF_vars(JobNext(c, f))

Spec == Init /\ [][Next]_vars /\ Fairness

-----------------------------------------------------------------------------
(***************************************************************************)
(* Properties                                                              *)
(***************************************************************************)
TypeOK ==
    /\ files \in [Caller -> Seq(File)]
    /\ known \subseteq File /\ onDisk \subseteq File
    /\ mtimeUpdated \subseteq Local \ Removed
    /\ lready \in [File -> {"need", "busy", "closed"}]
    /\ pc \in [Caller -> {"scan", "select", "wait"} \cup Returned]
    /\ pos \in [Caller -> Nat]
    /\ \A c \in Caller : /\ pos[c] \in 1..Len(files[c]) + 1
                         /\ pc[c] = "select" => pos[c] <= Len(files[c])
                         /\ pc[c] \in {"wait", "nil"} => pos[c] = Len(files[c]) + 1
    /\ job \in [Caller -> [File -> {"none", "ok", "failed"} \cup Working]]
    /\ canceled \in BOOLEAN

\* Two goroutines never write or remove the same file at the same time, whoever fails or is
\* interrupted, also when a call names a file twice.
OneWriter ==
    \A f \in File, c, d \in Caller :
        job[c][f] \in Working /\ job[d][f] \in Working => c = d

\* The disk has f as its entry says: a removed file is not there, and any other file
\* is, with its mtime unless that cannot be set.
AsEntry(f) ==
    IF f \in Removed THEN f \notin onDisk
    ELSE f \in onDisk /\ (f \in mtimeUpdated => f \in Foreign)

\* When Flush returns nil, the disk has each of its files that hashfs has an entry of
\* as the entry says (there, or removed), unless the flush of that very file by
\* another call failed: no caller goes on while a file is still being written or
\* removed by another one, or after a failure of its own.
NilMeansFetched ==
    \A c \in Caller : pc[c] = "nil" =>
        \A i \in DOMAIN files[c] : files[c][i] \in known =>
            \/ AsEntry(files[c][i])
            \/ \E d \in Caller \ {c} : job[d][files[c][i]] = "failed"

\* "now, all inputs are expected to be on disk": when Flush returns nil, each of its
\* files that hashfs has an entry of is on the disk.
NilMeansOnDisk ==
    \A c \in Caller : pc[c] = "nil" =>
        \A i \in DOMAIN files[c] : files[c][i] \in known => files[c][i] \in onDisk

\* Every call of Flush returns, and every goroutine it started ends, although the
\* calls wait for each other's files in any order.
Termination ==
    <>[](\A c \in Caller : pc[c] \in Returned /\ \A f \in File : job[c][f] \notin Working)
=============================================================================
