------------------------------ MODULE FsState ------------------------------
(***************************************************************************)
(* What hashfs remembers of files from one run of siso to the next: the    *)
(* state file (.siso_fs_state), the journal of updates, hashfs.New,        *)
(* SetState, Update, Flush, Save and Close, over several runs with crashes *)
(* at any point, a user who edits files between runs, failing writes and a *)
(* damaged state file.                                                     *)
(*                                                                         *)
(* An entry is [mtime, digest, cmd].  cmd is the hash of the command that  *)
(* made the file, NoCmd for a source.  A digest stands for the contents.   *)
(* Times are ticks of one clock that every write of a file advances.       *)
(***************************************************************************)
EXTENDS Naturals, Sequences, FiniteSets

CONSTANTS
    Source,         \* files that no step makes
    Generated,      \* files that steps make
    OutputLocal,    \* generated files that must be on the disk (Option.OutputLocal)
    Content,        \* contents of files
    Cmd,            \* command hashes
    MaxSessions,    \* bound on the runs of siso
    MaxUpdates,     \* bound on the updates of generated files
    MaxMishaps,     \* bound on the user's edits, failing writes and damage to the state
    NoCmd, NoEntry, NoFile

File == Source \cup Generated
Entry == [mtime : Nat, digest : Content, cmd : Cmd \cup {NoCmd}]
DiskFile == [mtime : Nat, content : Content]
StateFile == [ok : BOOLEAN, entries : [File -> Entry \cup {NoEntry}], targets : BOOLEAN]

ASSUME FsStateAssumption ==
    /\ Source \cap Generated = {}
    /\ OutputLocal \subseteq Generated
    /\ NoCmd \notin Cmd /\ NoEntry \notin Entry
    /\ NoFile \notin DiskFile /\ NoFile \notin StateFile
    /\ MaxMishaps \in Nat

VARIABLES
    disk,       \* [mtime, content] of each file, or NoFile
    now,        \* the clock
    state,      \* the state file: [ok, entries, targets], or NoFile
    journal,    \* the records of the journal file; a missing file reads as empty
    proc,       \* what this run of siso is doing
    starting,   \* is it still in hashfs.New?
    img,        \* the state that Save is writing
    mem,        \* the entries of hashfs
    lready,     \* files of which the contents are on the disk (lready is closed)
    targets,    \* hfs.buildTargets # nil
    clean, loaded, jopen,   \* hfs.clean, hfs.loaded, hfs.journal # nil
    op,         \* for each file: the update or flush in progress, [pc, ent]
    sessions, updates, mishaps,
    known,      \* history: what hashfs may say of each file
    made,       \* history: every [file, digest, cmd] that an update recorded
    lastOk,     \* history: did the last build that ended succeed?
    dropped     \* history: did New fail to save and drop the journal?

fileVars == <<disk, now>>
memVars == <<mem, lready, targets, clean, loaded, jopen>>
countVars == <<sessions, updates, mishaps>>
histVars == <<known, made, lastOk, dropped>>
vars == <<fileVars, state, journal, proc, starting, img, memVars, op, countVars, histVars>>

Idle == [pc |-> "idle", ent |-> NoEntry]
Torn == [file |-> NoFile, ent |-> NoEntry]
NoEntries == [f \in File |-> NoEntry]
EmptyState == [ok |-> TRUE, entries |-> NoEntries, targets |-> FALSE]
Damaged == [EmptyState EXCEPT !.ok = FALSE]

\* Something goes wrong, or the user changes a file.
Mishap == mishaps < MaxMishaps /\ mishaps' = mishaps + 1

Init ==
    /\ \E c \in Content :
          disk = [f \in File |-> IF f \in Source THEN [mtime |-> 1, content |-> c] ELSE NoFile]
    /\ now = 1
    /\ state = NoFile /\ journal = <<>>
    /\ proc = "down" /\ starting = FALSE /\ img = EmptyState
    /\ mem = NoEntries /\ lready = {} /\ targets = FALSE
    /\ clean = FALSE /\ loaded = FALSE /\ jopen = FALSE
    /\ op = [f \in File |-> Idle]
    /\ sessions = 0 /\ updates = 0 /\ mishaps = 0
    /\ known = [f \in File |-> {NoEntry}] /\ made = {}
    /\ lastOk = FALSE /\ dropped = FALSE

-----------------------------------------------------------------------------
(***************************************************************************)
(* hashfs.New: Load, loadJournal, SetState                                 *)
(***************************************************************************)
\* The readable part of the journal ends at the first torn record.
Readable(j) ==
    {i \in DOMAIN j : \A k \in 1..i : j[k] # Torn}

\* The last record of f in the journal.
Journaled(j, f) ==
    LET S == {i \in Readable(j) : j[i].file = f}
    IN IF S = {} THEN NoEntry ELSE j[CHOOSE i \in S : \A k \in S : k <= i].ent

\* loadJournal: the records of the journal replace those of the state.
LoadJournal(s, j) ==
    [s EXCEPT !.entries =
        [f \in File |-> IF Journaled(j, f) # NoEntry THEN Journaled(j, f) ELSE @[f]]]

Reconciled(j) == Readable(j) # {}

(***************************************************************************)
(* SetState compares an entry with the file on the disk.                   *)
(***************************************************************************)
\* Mutant: a file that is newer than its entry counts as the entry's.
EqLocalOrNewer(f, e) == disk[f] # NoFile /\ disk[f].mtime >= e.mtime

EqLocal(f, e) == disk[f] # NoFile /\ disk[f].mtime = e.mtime
AfterLocal(f, e) == disk[f] # NoFile /\ disk[f].mtime < e.mtime

\* The mtime differs, but a generated file has the contents of its entry: SetState
\* sets the mtime of the file back, unless another entry was found dirty already.
SameContent(f, e) ==
    /\ e.cmd # NoCmd
    /\ disk[f] # NoFile /\ disk[f].mtime # e.mtime
    /\ disk[f].content = e.digest

\* Entries that are dirty whatever the order in which SetState looks at them.
Dirty(s) ==
    {f \in File : LET e == s.entries[f]
                  IN /\ e # NoEntry
                     /\ disk[f] # NoFile /\ disk[f].mtime # e.mtime
                     /\ ~SameContent(f, e)}

\* Does SetState keep the entry?  fixed is the set of files with mtime set back.
Keeps(fixed, f, e) ==
    /\ e # NoEntry
    /\ \/ disk[f] = NoFile /\ e.cmd # NoCmd /\ f \notin OutputLocal
       \/ f \in fixed
       \/ EqLocal(f, e)
       \/ AfterLocal(f, e) /\ e.cmd # NoCmd

Unchanged(s, fixed, f) ==
    s.entries[f] # NoEntry => f \in fixed \/ EqLocal(f, s.entries[f])

SetState(s, fixed) ==
    /\ fixed \subseteq {f \in File : s.entries[f] # NoEntry /\ SameContent(f, s.entries[f])}
    /\ \A f \in File : s.entries[f] # NoEntry /\ SameContent(f, s.entries[f])
                          => f \in fixed \/ Dirty(s) # {}
    /\ disk' = [f \in File |-> IF f \in fixed
                               THEN [disk[f] EXCEPT !.mtime = s.entries[f].mtime]
                               ELSE disk[f]]
    /\ mem' = [f \in File |-> IF Keeps(fixed, f, s.entries[f]) THEN s.entries[f] ELSE NoEntry]
    /\ lready' = {f \in File : /\ s.entries[f] # NoEntry
                               /\ \/ EqLocal(f, s.entries[f])
                                  \/ f \in fixed /\ ~AfterLocal(f, s.entries[f])}
    /\ clean' = \A f \in File : Unchanged(s, fixed, f)
    /\ targets' = s.targets

\* The history of New: SetState forgets a file that is missing but must be on the
\* disk, and may forget one that is newer than its entry.
Forgets(fixed, f) ==
    \/ disk[f] = NoFile /\ f \in OutputLocal
    \/ /\ disk[f] # NoFile /\ f \notin fixed
       /\ \E e \in known[f] : e # NoEntry /\ e.mtime < disk[f].mtime

Base == IF state = NoFile THEN EmptyState ELSE state

Start ==
    /\ proc = "down" /\ sessions < MaxSessions
    /\ sessions' = sessions + 1
    /\ starting' = TRUE
    /\ UNCHANGED <<now, state, journal, jopen, op, updates, mishaps, made, lastOk, dropped>>

\* Save, in New, only if the journal had something to add to the state.
New ==
    /\ Start
    /\ Base.ok
    /\ \E fixed \in SUBSET File :
          /\ SetState(LoadJournal(Base, journal), fixed)
          /\ known' = [f \in File |-> IF Forgets(fixed, f) THEN known[f] \cup {NoEntry}
                                                          ELSE known[f]]
    /\ img' = LoadJournal(Base, journal)
    /\ proc' = IF Reconciled(journal) THEN "save" ELSE "journal"
    /\ loaded' = FALSE

\* A damaged state file: hashfs starts empty, and the journal is not used.
NewLoadErr ==
    /\ Start
    /\ ~Base.ok
    /\ mem' = NoEntries /\ lready' = {} /\ targets' = FALSE
    /\ clean' = FALSE /\ loaded' = FALSE
    /\ proc' = "journal"
    /\ UNCHANGED <<disk, img, known>>

\* os.Remove and os.Create of the journal.
CreateJournal ==
    /\ proc = "journal"
    /\ journal' = <<>>
    /\ \/ jopen' = TRUE /\ UNCHANGED mishaps
       \/ jopen' = FALSE /\ Mishap
    /\ proc' = "up"
    /\ starting' = FALSE
    /\ UNCHANGED <<fileVars, state, img, mem, lready, targets, clean, loaded, op,
                   sessions, updates, histVars>>

-----------------------------------------------------------------------------
(***************************************************************************)
(* Save: the new state is written to a temporary file, the old state file  *)
(* is moved to *.0, the new one into its place, the journal is removed.    *)
(***************************************************************************)
SaveBackup ==
    /\ proc = "save"
    /\ state' = NoFile
    /\ proc' = "rename"
    /\ UNCHANGED <<fileVars, journal, starting, img, memVars, op, countVars, histVars>>

SaveRename ==
    /\ proc = "rename"
    /\ state' = img
    /\ proc' = "saved"
    /\ UNCHANGED <<fileVars, journal, starting, img, memVars, op, countVars, histVars>>

SaveDone ==
    /\ proc = "saved"
    /\ journal' = <<>>
    /\ proc' = IF starting THEN "journal" ELSE "exit"
    /\ UNCHANGED <<fileVars, state, starting, img, memVars, op, countVars, histVars>>

\* New only logs the error and removes the journal; Close removes the state file.
SaveFail ==
    /\ proc \in {"save", "rename"}
    /\ Mishap
    /\ IF starting
       THEN proc' = "journal" /\ dropped' = TRUE /\ UNCHANGED <<state, known>>
       ELSE /\ proc' = "exit" /\ state' = NoFile /\ UNCHANGED dropped
            /\ known' = [f \in File |-> known[f] \cup {NoEntry}]
    /\ UNCHANGED <<fileVars, journal, starting, img, memVars, op, sessions, updates, made, lastOk>>

-----------------------------------------------------------------------------
(***************************************************************************)
(* The build                                                               *)
(***************************************************************************)
Running == ~starting /\ proc # "down"

\* The background goroutine of SetState has stored all entries.
StoreDone ==
    /\ proc = "up" /\ ~loaded
    /\ Base.ok
    /\ loaded' = TRUE
    /\ UNCHANGED <<fileVars, state, journal, proc, starting, img, mem, lready, targets, clean,
                   jopen, op, countVars, histVars>>

\* The graph is made after WaitReady, so steps find the state stored.
Ready == proc = "up" /\ (loaded \/ ~Base.ok)

\* An input is read and its digest computed.
ReadSource(f) ==
    /\ Ready
    /\ f \in Source /\ mem[f] = NoEntry /\ disk[f] # NoFile
    /\ mem' = [mem EXCEPT ![f] = [mtime |-> disk[f].mtime, digest |-> disk[f].content,
                                  cmd |-> NoCmd]]
    /\ lready' = lready \cup {f}
    /\ UNCHANGED <<fileVars, state, journal, proc, starting, img, targets, clean, loaded, jopen,
                   op, countVars, histVars>>

\* Mutant: an update does not take the mark away.
StaysClean == UNCHANGED clean

\* Every update takes away the mark that disk and state file agree.
NotClean == clean' = FALSE

\* A step starts to make f with command c, locally: the file is written.
RunLocal(f, c, d) ==
    /\ Ready
    /\ op[f].pc = "idle" /\ updates < MaxUpdates
    /\ updates' = updates + 1
    /\ now' = now + 1
    /\ disk' = [disk EXCEPT ![f] = [mtime |-> now', content |-> d]]
    /\ op' = [op EXCEPT ![f] = [pc |-> "ran",
                                ent |-> [mtime |-> now', digest |-> d, cmd |-> c]]]
    /\ UNCHANGED <<state, journal, proc, starting, img, memVars, sessions, mishaps, histVars>>

\* Update after a local run: the entry is stored, with the time of the update
\* as its mtime.  The old entry was forgotten by RetrieveUpdateEntriesFromLocal.
UpdateLocal(f) ==
    LET e == [op[f].ent EXCEPT !.mtime = now + 1]
    IN /\ Running
       /\ op[f].pc = "ran"
       /\ now' = now + 1
       /\ mem' = [mem EXCEPT ![f] = e]
       /\ lready' = lready \cup {f}
       /\ NotClean
       /\ op' = [op EXCEPT ![f] = [pc |-> "journal", ent |-> e]]
       /\ made' = made \cup {[file |-> f, digest |-> e.digest, cmd |-> e.cmd]}
       /\ known' = [known EXCEPT ![f] = @ \cup {e}]
       /\ UNCHANGED <<disk, state, journal, proc, starting, img, targets, loaded, jopen,
                      countVars, lastOk, dropped>>

\* Update after a remote run: the contents stay in the remote store.
UpdateRemote(f, c, d) ==
    LET e == [mtime |-> now + 1, digest |-> d, cmd |-> c]
    IN /\ Ready
       /\ op[f].pc = "idle" /\ updates < MaxUpdates
       /\ updates' = updates + 1
       /\ now' = now + 1
       /\ mem' = [mem EXCEPT ![f] = e]
       /\ lready' = lready \ {f}
       /\ NotClean
       /\ op' = [op EXCEPT ![f] = [pc |-> "journal.remote", ent |-> e]]
       /\ made' = made \cup {[file |-> f, digest |-> d, cmd |-> c]}
       /\ known' = [known EXCEPT ![f] = @ \cup {e}]
       /\ UNCHANGED <<disk, state, journal, proc, starting, img, targets, loaded, jopen,
                      sessions, mishaps, lastOk, dropped>>

\* Mutant: the journal does not get the outputs of remote steps.
JournalsLocal(f) == op[f].pc = "journal"

\* journalEntry is called for local and remote outputs.
Journals(f) == op[f].pc \in {"journal", "journal.remote"}

\* The next run will read what is appended to the journal.
Undamaged == Base.ok /\ \A i \in DOMAIN journal : journal[i] # Torn

\* journalEntry writes unless the journal is closed, or could not be created;
\* afterwards a local file gets the mtime of its entry.
JournalEntry(f) ==
    /\ Running
    /\ op[f].pc \in {"journal", "journal.remote"}
    /\ IF jopen
       THEN \/ /\ journal' = IF Journals(f)
                             THEN Append(journal, [file |-> f, ent |-> op[f].ent])
                             ELSE journal
               /\ known' = [known EXCEPT ![f] = IF Undamaged THEN {op[f].ent} ELSE @]
               /\ UNCHANGED mishaps
            \/ /\ Mishap
               /\ journal' = Append(journal, Torn)
               /\ UNCHANGED known
       ELSE UNCHANGED <<journal, known, mishaps>>
    /\ op' = [op EXCEPT ![f] = IF @.pc = "journal" THEN [@ EXCEPT !.pc = "chtimes"] ELSE Idle]
    /\ UNCHANGED <<fileVars, state, proc, starting, img, memVars, sessions, updates,
                   made, lastOk, dropped>>

\* flush: the contents are fetched and renamed into place.
FlushWrite(f) ==
    /\ Ready
    /\ op[f].pc = "idle" /\ mem[f] # NoEntry /\ f \notin lready
    /\ IF EqLocal(f, mem[f]) \/ SameContent(f, mem[f])
       THEN UNCHANGED fileVars
       ELSE /\ now' = now + 1
            /\ disk' = [disk EXCEPT ![f] = [mtime |-> now', content |-> mem[f].digest]]
    /\ op' = [op EXCEPT ![f] = [pc |-> "chtimes", ent |-> mem[f]]]
    /\ UNCHANGED <<state, journal, proc, starting, img, memVars, countVars, histVars>>

SetMtime(f) == disk' = [disk EXCEPT ![f].mtime = op[f].ent.mtime]

\* os.Chtimes at the end of Update and of flush.
Chtimes(f) ==
    /\ Running
    /\ op[f].pc = "chtimes"
    /\ SetMtime(f)
    /\ lready' = lready \cup {f}
    /\ op' = [op EXCEPT ![f] = Idle]
    /\ UNCHANGED <<now, state, journal, proc, starting, img, mem, targets, clean, loaded, jopen,
                   countVars, histVars>>

-----------------------------------------------------------------------------
\* Close saves nothing if nothing changed, or if the state was not loaded.
CloseSaves == ~clean /\ loaded

\* The build ended (ok: with success); SetBuildTargets, then Close.  On an
\* interrupt, steps may still be running.
Close(ok) ==
    /\ proc = "up"
    /\ ok => Ready /\ \A f \in File : op[f] = Idle
    /\ lastOk' = ok
    /\ targets' = ok
    /\ jopen' = FALSE
    /\ IF CloseSaves
       THEN /\ proc' = "save"
            /\ img' = [ok |-> TRUE, entries |-> mem, targets |-> ok]
       ELSE proc' = "exit" /\ UNCHANGED img
    /\ UNCHANGED <<fileVars, state, journal, starting, mem, lready, clean, loaded, op,
                   countVars, known, made, dropped>>

Down ==
    /\ proc' = "down" /\ starting' = FALSE
    /\ img' = EmptyState
    /\ mem' = NoEntries /\ lready' = {} /\ targets' = FALSE
    /\ clean' = FALSE /\ loaded' = FALSE /\ jopen' = FALSE
    /\ op' = [f \in File |-> Idle]

\* siso exits after Close.
Exit ==
    /\ proc = "exit"
    /\ Down
    /\ UNCHANGED <<fileVars, state, journal, countVars, histVars>>

\* siso is killed.  Between the two renames of Save there is no state file, and
\* only what is in the journal is known to the next run.
Crash ==
    /\ proc \notin {"down", "exit"}
    /\ Down
    /\ known' = IF proc = "rename"
                THEN [f \in File |-> IF Journaled(journal, f) = NoEntry
                                     THEN known[f] \cup {NoEntry} ELSE known[f]]
                ELSE known
    /\ UNCHANGED <<fileVars, state, journal, countVars, made, lastOk, dropped>>

\* Between runs the user writes or deletes a file.
Edit(f) ==
    /\ proc = "down"
    /\ Mishap
    /\ \/ \E d \in Content :
             /\ now' = now + 1
             /\ disk' = [disk EXCEPT ![f] = [mtime |-> now', content |-> d]]
       \/ /\ disk[f] # NoFile
          /\ disk' = [disk EXCEPT ![f] = NoFile]
          /\ UNCHANGED now
    /\ UNCHANGED <<state, journal, proc, starting, img, memVars, op, sessions, updates, histVars>>

\* The state file is damaged, as by a power failure: saveFile does not sync it.
Corrupt ==
    /\ proc = "down" /\ state # NoFile
    /\ Mishap
    /\ state' = Damaged
    /\ known' = [f \in File |-> known[f] \cup {NoEntry}]
    /\ UNCHANGED <<fileVars, journal, proc, starting, img, memVars, op, sessions, updates,
                   made, lastOk, dropped>>

Finished ==
    /\ proc = "down" /\ sessions = MaxSessions
    /\ UNCHANGED vars

Next ==
    \/ New \/ NewLoadErr \/ CreateJournal
    \/ SaveBackup \/ SaveRename \/ SaveDone \/ SaveFail
    \/ StoreDone
    \/ \E f \in Source : ReadSource(f)
    \/ \E f \in Generated, c \in Cmd, d \in Content :
          RunLocal(f, c, d) \/ UpdateRemote(f, c, d)
    \/ \E f \in Generated : UpdateLocal(f) \/ JournalEntry(f) \/ FlushWrite(f) \/ Chtimes(f)
    \/ \E ok \in BOOLEAN : Close(ok)
    \/ Exit \/ Crash \/ Corrupt
    \/ \E f \in File : Edit(f)
    \/ Finished

Spec == Init /\ [][Next]_vars

-----------------------------------------------------------------------------
(***************************************************************************)
(* Properties                                                              *)
(***************************************************************************)
\* What hashfs says of a generated file is true, however the run before ended:
\* the digest was made by the command of the entry, and a file that counts as
\* being on the disk is there with these contents.
ClaimsAreTrue ==
    \A f \in Generated : mem[f] # NoEntry =>
        /\ [file |-> f, digest |-> mem[f].digest, cmd |-> mem[f].cmd] \in made
        /\ f \in lready /\ op[f].pc # "ran" =>
              disk[f] # NoFile /\ disk[f].content = mem[f].digest

\* An update whose journal write was complete is known to every later run, until
\* the file is made again or SetState finds the file changed: Save, the journal
\* and their order lose nothing, except what is not in the journal when siso is
\* killed between the two renames of Save, what Close could not save, the journal
\* that New removes although it could not save, and everything while the state
\* file is damaged.
RecordsSurvive ==
    proc # "down" /\ ~dropped => \A f \in Generated : mem[f] \in known[f]

\* "Persists current state in opt.StateFile": the state file that Close leaves after
\* a successful build, if it leaves a readable one, says of the generated files
\* what hashfs says: the flags clean and loaded never keep an older state in place
\* (unless New could not save what it found in the journal).
ClosePersists ==
    proc = "exit" /\ lastOk /\ ~dropped /\ state # NoFile /\ state.ok =>
        \A f \in Generated : state.entries[f] = mem[f]
=============================================================================
