---------------------------- MODULE FsStateProofs ----------------------------
(***************************************************************************)
(* Proofs about FsState, for any number of files, contents and commands,   *)
(* any number of runs, updates and mishaps, and crashes at any point.      *)
(***************************************************************************)
EXTENDS FsState, SequenceTheorems, WellFoundedInduction, TLAPS

Rec == [file : Generated, ent : Entry]
Op == [pc : {"idle", "ran", "journal", "journal.remote", "chtimes"}, ent : Entry \cup {NoEntry}]

TypeOK ==
    /\ disk \in [File -> DiskFile \cup {NoFile}]
    /\ now \in Nat
    /\ state \in StateFile \cup {NoFile}
    /\ journal \in Seq(Rec \cup {Torn})
    /\ proc \in {"down", "save", "rename", "saved", "journal", "up", "exit"}
    /\ starting \in BOOLEAN
    /\ img \in StateFile /\ img.ok
    /\ mem \in [File -> Entry \cup {NoEntry}]
    /\ lready \subseteq File
    /\ targets \in BOOLEAN /\ clean \in BOOLEAN /\ loaded \in BOOLEAN /\ jopen \in BOOLEAN
    /\ op \in [File -> Op]
    /\ known \in [File -> SUBSET (Entry \cup {NoEntry})]
    /\ lastOk \in BOOLEAN /\ dropped \in BOOLEAN

(***************************************************************************)
(* Where a run is, and what it then knows of the state file.               *)
(***************************************************************************)
CtlInv ==
    /\ proc = "down" => ~starting /\ \A f \in File : op[f].pc = "idle" /\ mem[f] = NoEntry
    /\ starting => /\ proc \in {"save", "rename", "saved", "journal"}
                   /\ ~loaded /\ \A f \in File : op[f].pc = "idle"
    /\ proc = "journal" => starting
    /\ jopen => proc = "up"
    /\ proc \in {"save", "rename", "saved"} => Base.ok
    /\ proc = "up" /\ loaded => Base.ok
    /\ proc = "rename" => state = NoFile
    /\ proc = "saved" => state = img

(***************************************************************************)
(* An update or a flush in progress: the contents are on the disk, the     *)
(* entry is in hashfs.                                                     *)
(***************************************************************************)
OpInv ==
    \A f \in Generated :
        /\ op[f].pc \in {"ran", "journal", "chtimes"} =>
             /\ op[f].ent \in Entry /\ op[f].ent.cmd \in Cmd
             /\ disk[f] # NoFile /\ disk[f].content = op[f].ent.digest
        /\ op[f].pc \in {"journal", "journal.remote", "chtimes"} =>
             op[f].ent \in Entry /\ mem[f] = op[f].ent

(***************************************************************************)
(* The entries of a file that are anywhere: in hashfs, in the state file,  *)
(* in the state that is being saved, in the journal.  Each was made by its *)
(* command, and its mtime, which is the clock when it was recorded, tells  *)
(* its contents.                                                           *)
(***************************************************************************)
InJournal(f, e) == \E i \in DOMAIN journal : journal[i].file = f /\ journal[i].ent = e

Held(f, e) ==
    /\ e \in Entry
    /\ e = mem[f] \/ e = img.entries[f] \/ e = Base.entries[f] \/ InJournal(f, e)

MadeBy(f, e) == [file |-> f, digest |-> e.digest, cmd |-> e.cmd]

HeldInv ==
    \A f \in Generated :
        /\ disk[f] # NoFile => disk[f].mtime <= now
        /\ \A e \in Entry : Held(f, e) =>
             /\ e.cmd \in Cmd /\ e.mtime <= now /\ MadeBy(f, e) \in made
             /\ disk[f] # NoFile /\ disk[f].mtime = e.mtime => disk[f].content = e.digest
             /\ \A d \in Entry : Held(f, d) /\ d.mtime = e.mtime => d.digest = e.digest

\* Closed lready: the contents are on the disk.
ReadyInv ==
    \A f \in Generated : f \in lready /\ mem[f] # NoEntry /\ op[f].pc # "ran" =>
        disk[f] # NoFile /\ disk[f].content = mem[f].digest

(***************************************************************************)
(* What the next run would find is known, at every moment.                 *)
(***************************************************************************)
SurvivesAt(f) ==
    /\ proc # "down" => mem[f] \in known[f]
    /\ Base.ok /\ Journaled(journal, f) # NoEntry => Journaled(journal, f) \in known[f]
    /\ Base.ok /\ Journaled(journal, f) = NoEntry /\ proc # "rename" =>
         Base.entries[f] \in known[f]
    /\ ~Base.ok => NoEntry \in known[f]
    /\ proc \in {"save", "rename", "saved"} => img.entries[f] \in known[f]

SurviveInv ==
    ~dropped => /\ \A f \in Generated : SurvivesAt(f)
                /\ proc = "journal" /\ Base.ok => Readable(journal) = {}

(***************************************************************************)
(* What the marks clean and loaded stand for.                              *)
(***************************************************************************)
PersistsAt(f) ==
    /\ starting /\ clean => mem[f] = img.entries[f]
    /\ proc = "journal" /\ Base.ok => Base.entries[f] = img.entries[f]
    /\ proc = "up" /\ clean /\ Base.ok => mem[f] = Base.entries[f]
    /\ proc \in {"save", "rename", "saved"} /\ ~starting /\ lastOk =>
         op[f].pc = "idle" /\ img.entries[f] = mem[f]
    /\ proc = "exit" /\ lastOk =>
         /\ op[f].pc = "idle"
         /\ state # NoFile /\ state.ok => state.entries[f] = mem[f]

PersistInv == ~dropped => \A f \in Generated : PersistsAt(f)

Inv == /\ TypeOK /\ CtlInv /\ OpInv /\ HeldInv /\ ReadyInv /\ SurviveInv /\ PersistInv

-----------------------------------------------------------------------------
\* A set of positions of a sequence has a last one.
LEMMA LastPosition ==
    ASSUME NEW n \in Nat, NEW S, S \subseteq 1..n, S # {}
    PROVE  \E i \in S : \A k \in S : k <= i
<1> DEFINE R == {ss \in Nat \X Nat : ss[1] < ss[2]}
           T == {n - i : i \in S}
<1>1. IsWellFoundedOn(R, Nat)
  BY NatLessThanWellFounded DEF OpToRel
<1>2. \A m, k \in Nat : <<m, k>> \in R <=> m < k
  OBVIOUS
<1>3. \A i \in S : n - i \in T /\ n - i \in Nat /\ i \in Nat
  OBVIOUS
<1>4. T \subseteq Nat /\ T # {} /\ \A t \in T : \E i \in S : t = n - i
  BY <1>3
<1> HIDE DEF R, T
<1>5. PICK t \in T : \A m \in T : ~(<<m, t>> \in R)
  BY <1>1, <1>4, WFMin
<1>6. PICK i \in S : t = n - i
  BY <1>4
<1>7. \A k \in S : ~(n - k < n - i)
  BY <1>2, <1>3, <1>4, <1>5, <1>6
<1>8. \A k \in S : k <= i
  BY <1>3, <1>7
<1> QED
  BY <1>8

\* The records of a file, as far as the journal can be read.
Records(j, f) == {i \in Readable(j) : j[i].file = f}

\* The entry that loadJournal takes is the one of the last record.
LEMMA JournaledLast ==
    ASSUME NEW S, NEW j \in Seq(S), NEW f, Records(j, f) # {}
    PROVE  \E i \in Records(j, f) :
              /\ i \in DOMAIN j /\ \A k \in Records(j, f) : k <= i
              /\ Journaled(j, f) = j[i].ent
<1>1. DOMAIN j = 1..Len(j) /\ Len(j) \in Nat
  OBVIOUS
<1>2. Records(j, f) \subseteq 1..Len(j)
  BY <1>1 DEF Records, Readable
<1>3. \E i \in Records(j, f) : \A k \in Records(j, f) : k <= i
  BY <1>1, <1>2, LastPosition
<1>4. PICK c : /\ c = CHOOSE i \in Records(j, f) : \A k \in Records(j, f) : k <= i
               /\ c \in Records(j, f) /\ \A k \in Records(j, f) : k <= c
  BY <1>3
<1>5. Journaled(j, f) = j[c].ent
  BY <1>4 DEF Journaled, Records
<1> QED
  BY <1>1, <1>2, <1>4, <1>5

\* Without a readable record of the file loadJournal leaves its entry alone.
LEMMA JournaledNone ==
    ASSUME NEW j, NEW f, Records(j, f) = {}
    PROVE  Journaled(j, f) = NoEntry
BY DEF Journaled, Records

\* What loadJournal takes is an entry of a record.
LEMMA JournaledIsRecord ==
    ASSUME NEW j \in Seq(Rec \cup {Torn}), NEW f, Journaled(j, f) # NoEntry
    PROVE  /\ Journaled(j, f) \in Entry
           /\ \E i \in DOMAIN j : j[i].file = f /\ j[i].ent = Journaled(j, f)
<1>1. Records(j, f) # {}
  BY JournaledNone
<1>2. PICK i \in Records(j, f) : i \in DOMAIN j /\ Journaled(j, f) = j[i].ent
  BY <1>1, JournaledLast
<1>3. j[i].file = f /\ j[i] # Torn
  <2>1. DOMAIN j = 1..Len(j) /\ Len(j) \in Nat
    OBVIOUS
  <2>2. i \in 1..i
    BY <1>2, <2>1
  <2> QED
    BY <2>2 DEF Records, Readable
<1>4. j[i] \in Rec
  BY <1>2, <1>3
<1> QED
  BY <1>2, <1>3, <1>4 DEF Rec

\* One more record, behind a journal that can be read to its end.
LEMMA JournaledAppend ==
    ASSUME NEW j \in Seq(Rec \cup {Torn}), NEW r \in Rec, NEW f,
           \A i \in DOMAIN j : j[i] # Torn
    PROVE  Journaled(Append(j, r), f) = IF f = r.file THEN r.ent ELSE Journaled(j, f)
<1> DEFINE k == Append(j, r)
           n == Len(j)
<1>1. /\ k \in Seq(Rec \cup {Torn}) /\ DOMAIN k = 1..(n + 1) /\ n \in Nat /\ DOMAIN j = 1..n
      /\ \A i \in 1..n : k[i] = j[i]
      /\ k[n + 1] = r
  OBVIOUS
<1>2. r # Torn
  <2>1. r.ent \in Entry /\ Torn.ent = NoEntry
    BY DEF Rec, Torn
  <2> QED
    BY <2>1, FsStateAssumption
<1> HIDE DEF k, n
<1>3. \A i \in 1..(n + 1) : k[i] # Torn
  <2>1. \A i \in 1..(n + 1) : i \in 1..n \/ i = n + 1
    BY <1>1
  <2> QED
    BY <1>1, <1>2, <2>1
<1>4. Readable(j) = 1..n /\ Readable(k) = 1..(n + 1)
  BY <1>1, <1>3 DEF Readable
<1>5. Records(k, f) = IF f = r.file THEN Records(j, f) \cup {n + 1} ELSE Records(j, f)
  <2>1. Records(k, f) = {i \in 1..(n + 1) : k[i].file = f}
    BY <1>4 DEF Records
  <2>2. Records(j, f) = {i \in 1..n : j[i].file = f}
    BY <1>4 DEF Records
  <2>3. \A i : i \in 1..(n + 1) <=> i \in 1..n \/ i = n + 1
    BY <1>1
  <2> QED
    BY <1>1, <2>1, <2>2, <2>3
<1>6. CASE f = r.file
  <2>1. Records(k, f) # {} /\ n + 1 \in Records(k, f)
    BY <1>5, <1>6
  <2>2. PICK i \in Records(k, f) : /\ i \in DOMAIN k /\ \A m \in Records(k, f) : m <= i
                                   /\ Journaled(k, f) = k[i].ent
    BY <1>1, <2>1, JournaledLast
  <2>3. i = n + 1
    BY <1>1, <2>1, <2>2
  <2> QED
    BY <1>1, <1>6, <2>2, <2>3 DEF k
<1>7. CASE f # r.file
  <2>1. Records(k, f) = Records(j, f)
    BY <1>5, <1>7
  <2>2. CASE Records(j, f) = {}
    BY <1>7, <2>1, <2>2, JournaledNone DEF k
  <2>3. CASE Records(j, f) # {}
    <3>1. PICK i \in Records(j, f) : /\ i \in DOMAIN j /\ \A m \in Records(j, f) : m <= i
                                     /\ Journaled(j, f) = j[i].ent
      BY <2>3, JournaledLast
    <3>2. PICK l \in Records(k, f) : /\ l \in DOMAIN k /\ \A m \in Records(k, f) : m <= l
                                     /\ Journaled(k, f) = k[l].ent
      BY <1>1, <2>1, <2>3, JournaledLast
    <3>3. i \in 1..n /\ l \in 1..(n + 1) /\ i <= l /\ l <= i
      BY <1>1, <2>1, <3>1, <3>2
    <3>4. i = l
      BY <1>1, <3>3
    <3> QED
      BY <1>1, <1>7, <3>1, <3>2, <3>3, <3>4 DEF k
  <2> QED
    BY <2>2, <2>3
<1> QED
  BY <1>6, <1>7

\* Nothing behind a torn record is read, and a torn record adds nothing.
LEMMA JournaledTorn ==
    ASSUME NEW j \in Seq(Rec \cup {Torn}), NEW r \in Rec \cup {Torn}, NEW f,
           r = Torn \/ \E i \in DOMAIN j : j[i] = Torn
    PROVE  /\ Journaled(Append(j, r), f) = Journaled(j, f)
           /\ Readable(Append(j, r)) = Readable(j)
<1> DEFINE k == Append(j, r)
           n == Len(j)
<1>1. /\ k \in Seq(Rec \cup {Torn}) /\ DOMAIN k = 1..(n + 1) /\ n \in Nat /\ DOMAIN j = 1..n
      /\ \A i \in 1..n : k[i] = j[i]
      /\ k[n + 1] = r
  OBVIOUS
<1> HIDE DEF k, n
<1>2. \E i \in 1..(n + 1) : k[i] = Torn
  <2>1. CASE r = Torn
    BY <1>1, <2>1
  <2>2. CASE \E i \in DOMAIN j : j[i] = Torn
    <3>1. PICK i \in 1..n : j[i] = Torn
      BY <1>1, <2>2
    <3>2. i \in 1..(n + 1) /\ k[i] = Torn
      BY <1>1, <3>1
    <3> QED
      BY <3>2
  <2> QED
    BY <2>1, <2>2
<1>3. Readable(k) = Readable(j)
  <2>1. n + 1 \notin Readable(k)
    BY <1>1, <1>2 DEF Readable
  <2>2. \A i \in 1..n : i \in Readable(k) <=> i \in Readable(j)
    <3> SUFFICES ASSUME NEW i \in 1..n PROVE i \in Readable(k) <=> i \in Readable(j)
      OBVIOUS
    <3>1. \A m \in 1..i : k[m] = j[m]
      BY <1>1
    <3> QED
      BY <1>1, <3>1 DEF Readable
  <2>3. Readable(k) \subseteq 1..(n + 1) /\ Readable(j) \subseteq 1..n
    BY <1>1 DEF Readable
  <2>4. \A i \in 1..(n + 1) : i \in 1..n \/ i = n + 1
    BY <1>1
  <2> QED
    BY <2>1, <2>2, <2>3, <2>4
<1>4. Records(k, f) = Records(j, f)
  <2>1. \A i \in Readable(j) : i \in 1..n
    BY <1>1 DEF Readable
  <2> QED
    BY <1>1, <1>3, <2>1 DEF Records
<1>5. Journaled(k, f) = Journaled(j, f)
  <2>1. CASE Records(j, f) = {}
    BY <1>4, <2>1, JournaledNone
  <2>2. CASE Records(j, f) # {}
    <3>1. PICK i \in Records(j, f) : /\ i \in DOMAIN j /\ \A m \in Records(j, f) : m <= i
                                     /\ Journaled(j, f) = j[i].ent
      BY <2>2, JournaledLast
    <3>2. PICK l \in Records(k, f) : /\ l \in DOMAIN k /\ \A m \in Records(k, f) : m <= l
                                     /\ Journaled(k, f) = k[l].ent
      BY <1>1, <1>4, <2>2, JournaledLast
    <3>3. i \in 1..n /\ l \in 1..(n + 1) /\ i <= l /\ l <= i
      BY <1>1, <1>4, <3>1, <3>2
    <3>4. i = l
      BY <1>1, <3>3
    <3> QED
      BY <1>1, <3>1, <3>2, <3>3, <3>4
  <2> QED
    BY <2>1, <2>2
<1> QED
  BY <1>3, <1>5 DEF k

\* The empty journal.
LEMMA JournaledEmpty ==
    /\ Readable(<<>>) = {}
    /\ \A j, f : Readable(j) = {} => Journaled(j, f) = NoEntry
<1>1. Readable(<<>>) = {}
  BY DEF Readable
<1>2. \A j, f : Readable(j) = {} => Records(j, f) = {}
  BY DEF Records
<1> QED
  BY <1>1, <1>2, JournaledNone

-----------------------------------------------------------------------------
\* What the types say of parts.
LEMMA TypeFacts ==
    ASSUME TypeOK
    PROVE  /\ Generated \subseteq File
           /\ Base \in StateFile /\ img \in StateFile
           /\ \A f \in File : /\ Base.entries[f] \in Entry \cup {NoEntry}
                              /\ img.entries[f] \in Entry \cup {NoEntry}
                              /\ mem[f] \in Entry \cup {NoEntry}
                              /\ disk[f] # NoFile => disk[f] \in DiskFile
                              /\ op[f] \in Op
                              /\ known[f] \subseteq Entry \cup {NoEntry}
           /\ NoEntry \notin Entry
<1>1. Generated \subseteq File
  BY DEF File
<1>2. EmptyState \in StateFile
  BY DEF EmptyState, StateFile, NoEntries
<1>3. Base \in StateFile /\ img \in StateFile
  BY <1>2 DEF Base, TypeOK
<1>4. \A s \in StateFile : \A f \in File : s.entries[f] \in Entry \cup {NoEntry}
  BY DEF StateFile
<1> QED
  BY <1>1, <1>3, <1>4, FsStateAssumption DEF TypeOK

\* What LoadJournal makes of a state.
LEMMA LoadFacts ==
    ASSUME NEW s \in StateFile, NEW j \in Seq(Rec \cup {Torn})
    PROVE  /\ LoadJournal(s, j) \in StateFile
           /\ LoadJournal(s, j).ok = s.ok /\ LoadJournal(s, j).targets = s.targets
           /\ \A f \in File : LoadJournal(s, j).entries[f] =
                 IF Journaled(j, f) # NoEntry THEN Journaled(j, f) ELSE s.entries[f]
<1> DEFINE es == [f \in File |-> IF Journaled(j, f) # NoEntry THEN Journaled(j, f) ELSE s.entries[f]]
<1>1. es \in [File -> Entry \cup {NoEntry}]
  BY JournaledIsRecord DEF StateFile
<1>2. LoadJournal(s, j) = [s EXCEPT !.entries = es]
  BY DEF LoadJournal
<1>3. \A f \in File : es[f] = IF Journaled(j, f) # NoEntry THEN Journaled(j, f) ELSE s.entries[f]
  OBVIOUS
<1> HIDE DEF es
<1> QED
  BY <1>1, <1>2, <1>3 DEF StateFile

\* What New loads is held already.
LEMMA LoadedIsHeld ==
    ASSUME TypeOK, NEW f \in File, NEW e \in Entry, e = LoadJournal(Base, journal).entries[f]
    PROVE  Held(f, e)
<1>1. journal \in Seq(Rec \cup {Torn})
  BY DEF TypeOK
<1>2. e = IF Journaled(journal, f) # NoEntry THEN Journaled(journal, f) ELSE Base.entries[f]
  BY <1>1, TypeFacts, LoadFacts
<1>3. CASE Journaled(journal, f) # NoEntry
  BY <1>1, <1>2, <1>3, JournaledIsRecord DEF Held, InJournal
<1>4. CASE Journaled(journal, f) = NoEntry
  BY <1>2, <1>4 DEF Held
<1> QED
  BY <1>3, <1>4

(***************************************************************************)
(* The clock tells entries and files apart.                                *)
(***************************************************************************)
\* A file on the disk stays, goes, is written new, or gets contents and mtime of an
\* entry that is held.
DiskStep(f) ==
    \/ disk'[f] = disk[f]
    \/ disk'[f] = NoFile
    \/ disk'[f] \in DiskFile /\ now' = now + 1 /\ disk'[f].mtime = now'
    \/ \E d \in Entry : /\ Held(f, d) /\ disk'[f] \in DiskFile
                        /\ disk'[f].mtime = d.mtime /\ disk'[f].content = d.digest

\* No entry is new.
LEMMA HeldKeeps ==
    ASSUME TypeOK, HeldInv, now' = now \/ now' = now + 1, made \subseteq made',
           \A f \in Generated : DiskStep(f) /\ \A e \in Entry : Held(f, e)' => Held(f, e)
    PROVE  HeldInv'
<1> SUFFICES ASSUME NEW f \in Generated
             PROVE  /\ disk'[f] # NoFile => disk'[f].mtime <= now'
                    /\ \A e \in Entry : Held(f, e)' =>
                         /\ e.cmd \in Cmd /\ e.mtime <= now' /\ MadeBy(f, e) \in made'
                         /\ disk'[f] # NoFile /\ disk'[f].mtime = e.mtime =>
                              disk'[f].content = e.digest
                         /\ \A d \in Entry : Held(f, d)' /\ d.mtime = e.mtime => d.digest = e.digest
  BY DEF HeldInv, MadeBy
<1>1. /\ now \in Nat /\ now' \in Nat /\ now <= now'
      /\ \A e \in Entry : e.mtime \in Nat
      /\ disk[f] # NoFile => disk[f].mtime \in Nat
  BY TypeFacts DEF TypeOK, Entry, DiskFile
<1>2. /\ disk[f] # NoFile => disk[f].mtime <= now
      /\ \A e \in Entry : Held(f, e) =>
           /\ e.cmd \in Cmd /\ e.mtime <= now /\ MadeBy(f, e) \in made
           /\ disk[f] # NoFile /\ disk[f].mtime = e.mtime => disk[f].content = e.digest
           /\ \A d \in Entry : Held(f, d) /\ d.mtime = e.mtime => d.digest = e.digest
  BY DEF HeldInv
<1>3. \A e \in Entry : Held(f, e)' => Held(f, e)
  OBVIOUS
<1>4. CASE disk'[f] = disk[f] \/ disk'[f] = NoFile
  BY <1>1, <1>2, <1>3, <1>4
<1>5. CASE disk'[f] \in DiskFile /\ now' = now + 1 /\ disk'[f].mtime = now'
  BY <1>1, <1>2, <1>3, <1>5
<1>6. ASSUME NEW c \in Entry, Held(f, c), disk'[f].mtime = c.mtime, disk'[f].content = c.digest
      PROVE  /\ disk'[f].mtime <= now'
             /\ \A e \in Entry : Held(f, e)' =>
                  /\ e.cmd \in Cmd /\ e.mtime <= now' /\ MadeBy(f, e) \in made'
                  /\ disk'[f].mtime = e.mtime => disk'[f].content = e.digest
                  /\ \A d \in Entry : Held(f, d)' /\ d.mtime = e.mtime => d.digest = e.digest
  BY <1>1, <1>2, <1>3, <1>6
<1> QED
  BY <1>4, <1>5, <1>6 DEF DiskStep

\* One entry is new, with the time of its update.
LEMMA HeldGrows ==
    ASSUME TypeOK, HeldInv, now' = now + 1, UNCHANGED disk,
           NEW g \in Generated, NEW c \in Entry, c.mtime = now + 1, c.cmd \in Cmd,
           made' = made \cup {MadeBy(g, c)},
           \A f \in Generated : \A e \in Entry : Held(f, e)' => Held(f, e) \/ (f = g /\ e = c)
    PROVE  HeldInv'
<1> SUFFICES ASSUME NEW f \in Generated
             PROVE  /\ disk[f] # NoFile => disk[f].mtime <= now'
                    /\ \A e \in Entry : Held(f, e)' =>
                         /\ e.cmd \in Cmd /\ e.mtime <= now' /\ MadeBy(f, e) \in made'
                         /\ disk[f] # NoFile /\ disk[f].mtime = e.mtime =>
                              disk[f].content = e.digest
                         /\ \A d \in Entry : Held(f, d)' /\ d.mtime = e.mtime => d.digest = e.digest
  BY DEF HeldInv, MadeBy
<1>1. /\ now \in Nat /\ now' \in Nat /\ now <= now'
      /\ \A e \in Entry : e.mtime \in Nat
      /\ disk[f] # NoFile => disk[f].mtime \in Nat
  BY TypeFacts DEF TypeOK, Entry, DiskFile
<1>2. /\ disk[f] # NoFile => disk[f].mtime <= now
      /\ \A e \in Entry : Held(f, e) =>
           /\ e.cmd \in Cmd /\ e.mtime <= now /\ MadeBy(f, e) \in made
           /\ disk[f] # NoFile /\ disk[f].mtime = e.mtime => disk[f].content = e.digest
           /\ \A d \in Entry : Held(f, d) /\ d.mtime = e.mtime => d.digest = e.digest
  BY DEF HeldInv
<1>3. \A e \in Entry : Held(f, e)' => Held(f, e) \/ (f = g /\ e = c)
  OBVIOUS
<1>4. ASSUME NEW e \in Entry, Held(f, e)'
      PROVE  /\ e.cmd \in Cmd /\ e.mtime <= now' /\ MadeBy(f, e) \in made'
             /\ disk[f] # NoFile /\ disk[f].mtime = e.mtime => disk[f].content = e.digest
  BY <1>1, <1>2, <1>3, <1>4
<1>5. ASSUME NEW e \in Entry, NEW d \in Entry, Held(f, e)', Held(f, d)', d.mtime = e.mtime
      PROVE  d.digest = e.digest
  BY <1>1, <1>2, <1>3, <1>5
<1> QED
  BY <1>1, <1>2, <1>4, <1>5

-----------------------------------------------------------------------------
(***************************************************************************)
(* The steps of a run                                                      *)
(***************************************************************************)
\* What an entry is held by depends on these only.
LEMMA SameHeld ==
    ASSUME NEW f, NEW e, UNCHANGED <<state, journal, img>>, mem'[f] = mem[f] \/ mem'[f] \notin Entry
    PROVE  Held(f, e)' => Held(f, e)
<1>1. Base' = Base /\ (InJournal(f, e)' <=> InJournal(f, e))
  BY DEF Base, InJournal
<1> QED
  BY <1>1 DEF Held

\* New: Load, loadJournal and SetState.
LEMMA NewKeeps ==
    ASSUME Inv, New
    PROVE  Inv'
<1> USE DEF Inv
<1> DEFINE s == LoadJournal(Base, journal)
<1>1. /\ proc = "down" /\ starting' = TRUE /\ Base.ok /\ loaded' = FALSE /\ img' = s
      /\ proc' = IF Reconciled(journal) THEN "save" ELSE "journal"
      /\ UNCHANGED <<now, state, journal, jopen, op, made, lastOk, dropped>>
  BY DEF New, Start
<1>2. PICK fixed \in SUBSET File :
         /\ SetState(s, fixed)
         /\ known' = [f \in File |-> IF Forgets(fixed, f) THEN known[f] \cup {NoEntry} ELSE known[f]]
  BY DEF New
<1>3. /\ s \in StateFile /\ s.ok
      /\ \A f \in File : /\ s.entries[f] = IF Journaled(journal, f) # NoEntry
                                           THEN Journaled(journal, f) ELSE Base.entries[f]
                         /\ s.entries[f] \in Entry \cup {NoEntry}
                         /\ s.entries[f] # NoEntry => Held(f, s.entries[f])
  <2>1. journal \in Seq(Rec \cup {Torn}) /\ Base \in StateFile
    BY TypeFacts DEF TypeOK
  <2>2. /\ s \in StateFile /\ s.ok
        /\ \A f \in File : s.entries[f] = IF Journaled(journal, f) # NoEntry
                                          THEN Journaled(journal, f) ELSE Base.entries[f]
    BY <1>1, <2>1, LoadFacts
  <2>3. \A f \in File : s.entries[f] \in Entry \cup {NoEntry}
    BY <2>2 DEF StateFile
  <2> QED
    BY <2>2, <2>3, LoadedIsHeld
<1>4. /\ Base' = Base /\ (\A f \in File : op[f].pc = "idle") /\ ~jopen /\ Generated \subseteq File
      /\ NoEntry \notin Entry
  BY <1>1, TypeFacts DEF Base, CtlInv
<1> HIDE DEF s
<1>5. /\ \A f \in fixed : f \in File /\ s.entries[f] \in Entry /\ SameContent(f, s.entries[f])
      /\ disk' = [f \in File |-> IF f \in fixed
                                 THEN [disk[f] EXCEPT !.mtime = s.entries[f].mtime]
                                 ELSE disk[f]]
      /\ mem' = [f \in File |-> IF Keeps(fixed, f, s.entries[f]) THEN s.entries[f] ELSE NoEntry]
      /\ lready' = {f \in File : /\ s.entries[f] # NoEntry
                                 /\ \/ EqLocal(f, s.entries[f])
                                    \/ f \in fixed /\ ~AfterLocal(f, s.entries[f])}
      /\ clean' = \A f \in File : Unchanged(s, fixed, f)
      /\ targets' = s.targets
  BY <1>2, <1>3 DEF SetState
<1>6. \A f \in fixed : /\ disk[f] \in DiskFile /\ disk[f].content = s.entries[f].digest
                       /\ disk'[f] \in DiskFile /\ disk'[f].content = s.entries[f].digest
                       /\ disk'[f].mtime = s.entries[f].mtime
  <2> SUFFICES ASSUME NEW f \in fixed
               PROVE  /\ disk[f] \in DiskFile /\ disk[f].content = s.entries[f].digest
                      /\ disk'[f] \in DiskFile /\ disk'[f].content = s.entries[f].digest
                      /\ disk'[f].mtime = s.entries[f].mtime
    OBVIOUS
  <2>1. f \in File /\ s.entries[f].mtime \in Nat /\ disk[f] # NoFile /\ disk[f].content = s.entries[f].digest
    BY <1>5 DEF SameContent, Entry
  <2>2. disk[f] \in DiskFile
    BY <2>1, TypeFacts
  <2>3. disk'[f] = [disk[f] EXCEPT !.mtime = s.entries[f].mtime]
    BY <1>5, <2>1
  <2> QED
    BY <2>1, <2>2, <2>3 DEF DiskFile
<1>7. \A f \in File : f \notin fixed => disk'[f] = disk[f]
  BY <1>5
<1>8. TypeOK'
  <2>1. disk' \in [File -> DiskFile \cup {NoFile}]
    <3>1. DOMAIN disk' = File /\ disk' = [f \in File |-> disk'[f]]
      BY <1>5
    <3>2. \A f \in File : disk'[f] \in DiskFile \cup {NoFile}
      BY <1>6, <1>7 DEF TypeOK
    <3> QED
      BY <3>1, <3>2
  <2>2. mem' \in [File -> Entry \cup {NoEntry}] /\ lready' \subseteq File
    BY <1>3, <1>5
  <2>3. known' \in [File -> SUBSET (Entry \cup {NoEntry})]
    BY <1>2 DEF TypeOK
  <2>4. clean' \in BOOLEAN /\ targets' \in BOOLEAN
    BY <1>3, <1>5 DEF StateFile
  <2> QED
    BY <1>1, <1>3, <2>1, <2>2, <2>3, <2>4 DEF TypeOK
<1>9. CtlInv'
  BY <1>1, <1>4 DEF CtlInv
<1>10. OpInv'
  BY <1>1, <1>4 DEF OpInv
<1>11. HeldInv'
  <2>1. ASSUME NEW f \in Generated PROVE DiskStep(f)
    <3>1. CASE f \in fixed
      BY <1>3, <1>5, <1>6, <3>1, <1>4 DEF DiskStep
    <3>2. CASE f \notin fixed
      BY <1>4, <1>7, <3>2 DEF DiskStep
    <3> QED
      BY <3>1, <3>2
  <2>2. ASSUME NEW f \in Generated, NEW e \in Entry, Held(f, e)' PROVE Held(f, e)
    <3>1. f \in File /\ (InJournal(f, e)' => InJournal(f, e))
      BY <1>1, <1>4 DEF InJournal
    <3>2. e = mem'[f] \/ e = s.entries[f] \/ e = Base.entries[f] \/ InJournal(f, e)
      BY <1>1, <1>4, <2>2, <3>1 DEF Held
    <3>3. e = s.entries[f] \/ e = Base.entries[f] \/ InJournal(f, e)
      BY <1>4, <1>5, <3>1, <3>2
    <3> QED
      BY <1>3, <1>4, <3>1, <3>3 DEF Held
  <2> QED
    BY <1>1, <2>1, <2>2, HeldKeeps
<1>12. ReadyInv'
  <2> SUFFICES ASSUME NEW f \in Generated, f \in lready', mem'[f] # NoEntry
               PROVE  disk'[f] # NoFile /\ disk'[f].content = mem'[f].digest
    BY DEF ReadyInv
  <2>1. f \in File /\ mem'[f] = s.entries[f] /\ s.entries[f] \in Entry
    BY <1>3, <1>4, <1>5
  <2>2. CASE f \in fixed
    BY <1>6, <2>1, <2>2, FsStateAssumption
  <2>3. CASE f \notin fixed
    <3>1. EqLocal(f, s.entries[f])
      BY <1>5, <2>3
    <3>2. disk[f] # NoFile /\ disk[f].mtime = s.entries[f].mtime
      BY <3>1 DEF EqLocal
    <3>3. disk[f].content = s.entries[f].digest
      BY <1>3, <1>4, <2>1, <3>2 DEF HeldInv
    <3> QED
      BY <1>7, <2>1, <2>3, <3>2, <3>3
  <2> QED
    BY <2>2, <2>3
<1>13. SurviveInv'
  <2> SUFFICES ASSUME ~dropped
               PROVE  /\ \A f \in Generated : SurvivesAt(f)'
                      /\ proc' = "journal" /\ Base'.ok => Readable(journal') = {}
    BY <1>1 DEF SurviveInv
  <2>1. proc' = "journal" => Readable(journal) = {}
    BY <1>1 DEF Reconciled
  <2>2. ASSUME NEW f \in Generated PROVE SurvivesAt(f)'
    <3>1. f \in File /\ known[f] \subseteq known'[f]
      BY <1>2, <1>4
    <3>2. SurvivesAt(f)
      BY DEF SurviveInv
    <3>3. s.entries[f] \in known[f]
      BY <1>1, <1>3, <3>1, <3>2 DEF SurvivesAt
    <3>4. mem'[f] \in known'[f]
      <4>1. CASE Keeps(fixed, f, s.entries[f])
        BY <1>5, <3>1, <3>3, <4>1
      <4>2. CASE s.entries[f] = NoEntry
        BY <1>5, <3>1, <3>3, <4>2 DEF Keeps
      <4>3. CASE ~Keeps(fixed, f, s.entries[f]) /\ s.entries[f] # NoEntry
        <5>1. s.entries[f] \in Entry /\ s.entries[f].cmd # NoCmd
          BY <1>3, <3>1, <4>3, FsStateAssumption DEF HeldInv
        <5>2. \/ disk[f] = NoFile /\ f \in OutputLocal
              \/ /\ disk[f] # NoFile /\ f \notin fixed
                 /\ disk[f].mtime # s.entries[f].mtime /\ ~(disk[f].mtime < s.entries[f].mtime)
          BY <4>3, <5>1 DEF Keeps, EqLocal, AfterLocal
        <5>3. disk[f] # NoFile => disk[f].mtime \in Nat /\ s.entries[f].mtime \in Nat
          BY <3>1, <5>1, TypeFacts DEF DiskFile, Entry
        <5>4. Forgets(fixed, f)
          BY <3>3, <4>3, <5>2, <5>3 DEF Forgets
        <5> QED
          BY <1>2, <1>5, <3>1, <4>3, <5>4
      <4> QED
        BY <4>1, <4>2, <4>3
    <3> QED
      BY <1>1, <1>4, <3>1, <3>2, <3>3, <3>4 DEF SurvivesAt
  <2> QED
    BY <1>1, <2>1, <2>2
<1>14. PersistInv'
  <2> SUFFICES ASSUME NEW f \in Generated PROVE PersistsAt(f)'
    BY DEF PersistInv
  <2>1. clean' => mem'[f] = img'.entries[f]
    <3> SUFFICES ASSUME clean' PROVE mem'[f] = s.entries[f]
      BY <1>1
    <3>1. f \in File /\ Unchanged(s, fixed, f)
      BY <1>4, <1>5
    <3> QED
      BY <1>5, <3>1 DEF Unchanged, Keeps
  <2>2. proc' = "journal" => Base'.entries[f] = img'.entries[f]
    BY <1>1, <1>3, <1>4, JournaledEmpty DEF Reconciled
  <2> QED
    BY <1>1, <2>1, <2>2 DEF PersistsAt
<1> QED
  BY <1>8, <1>9, <1>10, <1>11, <1>12, <1>13, <1>14

\* New with a damaged state file: hashfs is empty.
LEMMA NewLoadErrKeeps ==
    ASSUME Inv, NewLoadErr
    PROVE  Inv'
<1> USE DEF Inv
<1>1. /\ proc = "down" /\ starting' = TRUE /\ ~Base.ok /\ loaded' = FALSE /\ clean' = FALSE
      /\ targets' = FALSE /\ mem' = NoEntries /\ lready' = {} /\ proc' = "journal"
      /\ UNCHANGED <<now, state, journal, jopen, op, made, lastOk, dropped, disk, img, known>>
  BY DEF NewLoadErr, Start
<1>2. /\ Base' = Base /\ (\A f \in File : op[f].pc = "idle" /\ mem'[f] = NoEntry) /\ ~jopen
      /\ Generated \subseteq File /\ NoEntry \notin Entry
  BY <1>1, TypeFacts DEF Base, CtlInv, NoEntries
<1>3. TypeOK'
  BY <1>1 DEF TypeOK, NoEntries
<1>4. CtlInv' /\ OpInv' /\ ReadyInv'
  BY <1>1, <1>2 DEF CtlInv, OpInv, ReadyInv
<1>5. HeldInv'
  <2>1. \A f \in Generated : DiskStep(f) /\ \A e \in Entry : Held(f, e)' => Held(f, e)
    BY <1>1, <1>2, SameHeld DEF DiskStep
  <2> QED
    BY <1>1, <2>1, HeldKeeps
<1>6. SurviveInv'
  BY <1>1, <1>2 DEF SurviveInv, SurvivesAt
<1>7. PersistInv'
  BY <1>1, <1>2 DEF PersistInv, PersistsAt
<1> QED
  BY <1>3, <1>4, <1>5, <1>6, <1>7

\* The journal is removed and created again, at the end of New.
LEMMA CreateJournalKeeps ==
    ASSUME Inv, CreateJournal
    PROVE  Inv'
<1> USE DEF Inv
<1>1. /\ proc = "journal" /\ journal' = <<>> /\ jopen' \in BOOLEAN /\ proc' = "up" /\ starting' = FALSE
      /\ UNCHANGED <<now, disk, state, img, mem, lready, targets, clean, loaded, op, known, made,
                     lastOk, dropped>>
  BY DEF CreateJournal, fileVars, histVars
<1>2. /\ Base' = Base /\ starting /\ ~loaded /\ (\A f \in File : op[f].pc = "idle")
      /\ Generated \subseteq File
  BY <1>1, TypeFacts DEF Base, CtlInv
<1>3. TypeOK'
  <2>1. <<>> \in Seq(Rec \cup {Torn})
    OBVIOUS
  <2>2. /\ journal' \in Seq(Rec \cup {Torn})
        /\ proc' \in {"down", "save", "rename", "saved", "journal", "up", "exit"}
    BY <1>1, <2>1
  <2> QED
    BY <1>1, <2>2 DEF TypeOK
<1>4. CtlInv' /\ OpInv' /\ ReadyInv'
  BY <1>1, <1>2 DEF CtlInv, OpInv, ReadyInv
<1>5. HeldInv'
  <2>1. \A f \in Generated : DiskStep(f) /\ \A e \in Entry : Held(f, e)' => Held(f, e)
    BY <1>1, <1>2 DEF DiskStep, Held, InJournal
  <2> QED
    BY <1>1, <2>1, HeldKeeps
<1>6. SurviveInv'
  <2> SUFFICES ASSUME ~dropped PROVE \A f \in Generated : SurvivesAt(f)'
    BY <1>1 DEF SurviveInv
  <2>1. Base.ok => \A f : Journaled(journal, f) = NoEntry
    BY <1>1, JournaledEmpty DEF SurviveInv
  <2>2. \A f : Journaled(journal', f) = NoEntry
    BY <1>1, JournaledEmpty
  <2> QED
    BY <1>1, <1>2, <2>1, <2>2 DEF SurviveInv, SurvivesAt
<1>7. PersistInv'
  BY <1>1, <1>2 DEF PersistInv, PersistsAt
<1> QED
  BY <1>3, <1>4, <1>5, <1>6, <1>7

\* Save: the old state file is moved away.
LEMMA SaveBackupKeeps ==
    ASSUME Inv, SaveBackup
    PROVE  Inv'
<1> USE DEF Inv
<1>1. /\ proc = "save" /\ state' = NoFile /\ proc' = "rename"
      /\ UNCHANGED <<now, disk, journal, starting, img, mem, lready, targets, clean, loaded, jopen,
                     op, known, made, lastOk, dropped>>
  BY DEF SaveBackup, fileVars, memVars, histVars
<1>2. Base' = EmptyState /\ Base'.ok /\ \A f \in File : Base'.entries[f] = NoEntry
  BY <1>1 DEF Base, EmptyState, NoEntries
<1>3. Base.ok /\ Generated \subseteq File /\ NoEntry \notin Entry
  BY <1>1, TypeFacts DEF CtlInv
<1>4. TypeOK'
  BY <1>1 DEF TypeOK
<1>5. CtlInv' /\ OpInv' /\ ReadyInv'
  BY <1>1, <1>2 DEF CtlInv, OpInv, ReadyInv
<1>6. HeldInv'
  <2>1. \A f \in Generated : DiskStep(f) /\ \A e \in Entry : Held(f, e)' => Held(f, e)
    BY <1>1, <1>2, <1>3 DEF DiskStep, Held, InJournal
  <2> QED
    BY <1>1, <2>1, HeldKeeps
<1>7. SurviveInv'
  BY <1>1, <1>2, <1>3 DEF SurviveInv, SurvivesAt
<1>8. PersistInv'
  BY <1>1, <1>2, <1>3 DEF PersistInv, PersistsAt
<1> QED
  BY <1>4, <1>5, <1>6, <1>7, <1>8

\* Save: the new state file gets its name.
LEMMA SaveRenameKeeps ==
    ASSUME Inv, SaveRename
    PROVE  Inv'
<1> USE DEF Inv
<1>1. /\ proc = "rename" /\ state' = img /\ proc' = "saved"
      /\ UNCHANGED <<now, disk, journal, starting, img, mem, lready, targets, clean, loaded, jopen,
                     op, known, made, lastOk, dropped>>
  BY DEF SaveRename, fileVars, memVars, histVars
<1>2. Base' = img /\ img.ok /\ Base.ok /\ state' \in StateFile
  BY <1>1, FsStateAssumption DEF Base, TypeOK, CtlInv
<1>3. TypeOK'
  BY <1>1, <1>2 DEF TypeOK
<1>4. CtlInv' /\ OpInv' /\ ReadyInv'
  BY <1>1, <1>2 DEF CtlInv, OpInv, ReadyInv
<1>5. HeldInv'
  <2>1. \A f \in Generated : DiskStep(f) /\ \A e \in Entry : Held(f, e)' => Held(f, e)
    BY <1>1, <1>2 DEF DiskStep, Held, InJournal
  <2> QED
    BY <1>1, <2>1, HeldKeeps
<1>6. SurviveInv'
  BY <1>1, <1>2 DEF SurviveInv, SurvivesAt
<1>7. PersistInv'
  BY <1>1, <1>2 DEF PersistInv, PersistsAt
<1> QED
  BY <1>3, <1>4, <1>5, <1>6, <1>7

\* Save: the journal is removed when its records are in the state file.
LEMMA SaveDoneKeeps ==
    ASSUME Inv, SaveDone
    PROVE  Inv'
<1> USE DEF Inv
<1>1. /\ proc = "saved" /\ journal' = <<>> /\ proc' = IF starting THEN "journal" ELSE "exit"
      /\ UNCHANGED <<now, disk, state, starting, img, mem, lready, targets, clean, loaded, jopen,
                     op, known, made, lastOk, dropped>>
  BY DEF SaveDone, fileVars, memVars, histVars
<1>2. Base' = Base /\ Base = img /\ Base.ok /\ state = img
  BY <1>1, FsStateAssumption DEF Base, TypeOK, CtlInv
<1>3. TypeOK'
  BY <1>1 DEF TypeOK
<1>4. CtlInv' /\ OpInv' /\ ReadyInv'
  BY <1>1, <1>2 DEF CtlInv, OpInv, ReadyInv
<1>5. HeldInv'
  <2>1. \A f \in Generated : DiskStep(f) /\ \A e \in Entry : Held(f, e)' => Held(f, e)
    BY <1>1, <1>2 DEF DiskStep, Held, InJournal
  <2> QED
    BY <1>1, <2>1, HeldKeeps
<1>6. SurviveInv'
  BY <1>1, <1>2, JournaledEmpty DEF SurviveInv, SurvivesAt
<1>7. PersistInv'
  BY <1>1, <1>2 DEF PersistInv, PersistsAt
<1> QED
  BY <1>3, <1>4, <1>5, <1>6, <1>7

\* Save fails: New goes on and drops the journal, Close removes the state file.
LEMMA SaveFailKeeps ==
    ASSUME Inv, SaveFail
    PROVE  Inv'
<1> USE DEF Inv
<1>1. /\ proc \in {"save", "rename"}
      /\ UNCHANGED <<now, disk, journal, starting, img, mem, lready, targets, clean, loaded, jopen,
                     op, made, lastOk>>
  BY DEF SaveFail, fileVars, memVars
<1>2. CASE starting
  <2>1. proc' = "journal" /\ dropped' = TRUE /\ UNCHANGED <<state, known>> /\ Base' = Base
    BY <1>2 DEF SaveFail, Base
  <2>2. TypeOK' /\ CtlInv' /\ OpInv' /\ ReadyInv' /\ SurviveInv' /\ PersistInv'
    BY <1>1, <1>2, <2>1 DEF TypeOK, CtlInv, OpInv, ReadyInv, SurviveInv, PersistInv
  <2>3. HeldInv'
    <3>1. \A f \in Generated : DiskStep(f) /\ \A e \in Entry : Held(f, e)' => Held(f, e)
      BY <1>1, <2>1, SameHeld DEF DiskStep
    <3> QED
      BY <1>1, <3>1, HeldKeeps
  <2> QED
    BY <2>2, <2>3
<1>3. CASE ~starting
  <2>1. /\ proc' = "exit" /\ state' = NoFile /\ dropped' = dropped
        /\ known' = [f \in File |-> known[f] \cup {NoEntry}]
    BY <1>3 DEF SaveFail
  <2>2. /\ Base' = EmptyState /\ Base'.ok /\ \A f \in File : Base'.entries[f] = NoEntry
        /\ Base.ok /\ Generated \subseteq File /\ NoEntry \notin Entry
    BY <1>1, <2>1, TypeFacts DEF Base, EmptyState, NoEntries, CtlInv
  <2>3. TypeOK'
    BY <1>1, <2>1 DEF TypeOK
  <2>4. CtlInv' /\ OpInv' /\ ReadyInv'
    BY <1>1, <1>3, <2>1, <2>2 DEF CtlInv, OpInv, ReadyInv
  <2>5. HeldInv'
    <3>1. \A f \in Generated : DiskStep(f) /\ \A e \in Entry : Held(f, e)' => Held(f, e)
      BY <1>1, <2>2 DEF DiskStep, Held, InJournal
    <3> QED
      BY <1>1, <3>1, HeldKeeps
  <2>6. SurviveInv'
    <3>1. \A f \in Generated : known[f] \subseteq known'[f] /\ NoEntry \in known'[f]
      BY <2>1, <2>2
    <3> QED
      BY <1>1, <2>1, <2>2, <3>1 DEF SurviveInv, SurvivesAt
  <2>7. PersistInv'
    BY <1>1, <1>3, <2>1 DEF PersistInv, PersistsAt
  <2> QED
    BY <2>3, <2>4, <2>5, <2>6, <2>7
<1> QED
  BY <1>2, <1>3

\* SetState has stored the entries; a source is read.
LEMMA StoreAndReadKeep ==
    ASSUME Inv, StoreDone \/ \E f \in Source : ReadSource(f)
    PROVE  Inv'
<1> USE DEF Inv
<1>1. /\ proc = "up" /\ (loaded' = loaded \/ (loaded' = TRUE /\ Base.ok))
      /\ mem' \in [File -> Entry \cup {NoEntry}] /\ lready' \subseteq File
      /\ \A g \in Generated : mem'[g] = mem[g] /\ (g \in lready' <=> g \in lready)
      /\ UNCHANGED <<now, disk, state, journal, proc, starting, img, targets, clean, jopen,
                     op, known, made, lastOk, dropped>>
  <2>1. CASE StoreDone
    BY <2>1 DEF StoreDone, TypeOK, fileVars, histVars
  <2>2. ASSUME NEW f \in Source, ReadSource(f)
        PROVE  /\ proc = "up" /\ (loaded' = loaded \/ (loaded' = TRUE /\ Base.ok))
               /\ mem' \in [File -> Entry \cup {NoEntry}] /\ lready' \subseteq File
               /\ \A g \in Generated : mem'[g] = mem[g] /\ (g \in lready' <=> g \in lready)
               /\ UNCHANGED <<now, disk, state, journal, proc, starting, img, targets, clean, jopen,
                              op, known, made, lastOk, dropped>>
    <3>1. /\ proc = "up" /\ loaded' = loaded /\ f \in File /\ disk[f] # NoFile
          /\ mem' = [mem EXCEPT ![f] = [mtime |-> disk[f].mtime, digest |-> disk[f].content,
                                        cmd |-> NoCmd]]
          /\ lready' = lready \cup {f}
          /\ UNCHANGED <<now, disk, state, journal, proc, starting, img, targets, clean, jopen,
                         op, known, made, lastOk, dropped>>
      BY <2>2 DEF ReadSource, Ready, fileVars, histVars, File
    <3>2. [mtime |-> disk[f].mtime, digest |-> disk[f].content, cmd |-> NoCmd] \in Entry
      BY <3>1, TypeFacts DEF DiskFile, Entry
    <3>3. f \notin Generated /\ Generated \subseteq File
      BY FsStateAssumption DEF File
    <3>4. mem' \in [File -> Entry \cup {NoEntry}] /\ lready' \subseteq File
      BY <3>1, <3>2 DEF TypeOK
    <3>5. \A g \in Generated : mem'[g] = mem[g] /\ (g \in lready' <=> g \in lready)
      BY <3>1, <3>3 DEF TypeOK
    <3> QED
      BY <3>1, <3>4, <3>5
  <2> QED
    BY <2>1, <2>2
<1>2. Base' = Base
  BY <1>1 DEF Base
<1>3. TypeOK'
  BY <1>1 DEF TypeOK
<1>4. CtlInv' /\ OpInv' /\ ReadyInv'
  BY <1>1, <1>2 DEF CtlInv, OpInv, ReadyInv
<1>5. HeldInv'
  <2>1. \A f \in Generated : DiskStep(f) /\ \A e \in Entry : Held(f, e)' => Held(f, e)
    BY <1>1, SameHeld DEF DiskStep
  <2> QED
    BY <1>1, <2>1, HeldKeeps
<1>6. SurviveInv'
  BY <1>1, <1>2 DEF SurviveInv, SurvivesAt
<1>7. PersistInv'
  BY <1>1, <1>2 DEF PersistInv, PersistsAt
<1> QED
  BY <1>3, <1>4, <1>5, <1>6, <1>7

\* A local command writes its output.
LEMMA RunLocalKeeps ==
    ASSUME Inv, NEW f \in Generated, NEW c \in Cmd, NEW d \in Content, RunLocal(f, c, d)
    PROVE  Inv'
<1> USE DEF Inv
<1> DEFINE w == [mtime |-> now + 1, content |-> d]
           o == [pc |-> "ran", ent |-> [mtime |-> now + 1, digest |-> d, cmd |-> c]]
<1>1. /\ proc = "up" /\ now' = now + 1 /\ f \in File /\ now \in Nat
      /\ disk' = [disk EXCEPT ![f] = w] /\ op' = [op EXCEPT ![f] = o]
      /\ UNCHANGED <<state, journal, proc, starting, img, mem, lready, targets, clean, loaded, jopen,
                     known, made, lastOk, dropped>>
  BY DEF RunLocal, Ready, memVars, histVars, File, TypeOK
<1>2. /\ w \in DiskFile /\ w.mtime = now + 1 /\ w.content = d /\ w # NoFile
      /\ o \in Op /\ o.pc = "ran" /\ o.ent \in Entry /\ o.ent.digest = d /\ o.ent.cmd = c
  BY <1>1, FsStateAssumption DEF DiskFile, Op, Entry
<1> HIDE DEF w, o
<1>3. /\ \A g \in File : /\ disk'[g] = IF g = f THEN w ELSE disk[g]
                         /\ op'[g] = IF g = f THEN o ELSE op[g]
      /\ disk' \in [File -> DiskFile \cup {NoFile}] /\ op' \in [File -> Op]
      /\ Base' = Base /\ Generated \subseteq File
  BY <1>1, <1>2, TypeFacts DEF TypeOK, Base
<1>4. TypeOK'
  BY <1>1, <1>3 DEF TypeOK
<1>5. CtlInv' /\ OpInv' /\ ReadyInv'
  BY <1>1, <1>2, <1>3 DEF CtlInv, OpInv, ReadyInv
<1>6. HeldInv'
  <2>1. \A g \in Generated : DiskStep(g) /\ \A e \in Entry : Held(g, e)' => Held(g, e)
    BY <1>1, <1>2, <1>3, SameHeld DEF DiskStep
  <2> QED
    BY <1>1, <2>1, HeldKeeps
<1>7. SurviveInv'
  BY <1>1, <1>3 DEF SurviveInv, SurvivesAt
<1>8. PersistInv'
  BY <1>1, <1>3 DEF PersistInv, PersistsAt
<1> QED
  BY <1>4, <1>5, <1>6, <1>7, <1>8

\* Update, after a local or a remote run: the entry is stored.
LEMMA StoreEntryKeeps ==
    ASSUME Inv, NEW f \in Generated, NEW e \in Entry, NEW o \in Op,
           e.mtime = now + 1, e.cmd \in Cmd, o.ent = e,
           proc # "down", ~starting,
           op[f].pc = "ran" \/ proc = "up",
           \/ /\ o.pc = "journal" /\ lready' = lready \cup {f}
              /\ disk[f] # NoFile /\ disk[f].content = e.digest
           \/ o.pc = "journal.remote" /\ lready' = lready \ {f},
           now' = now + 1, mem' = [mem EXCEPT ![f] = e], clean' = FALSE,
           op' = [op EXCEPT ![f] = o],
           made' = made \cup {MadeBy(f, e)},
           known' = [known EXCEPT ![f] = @ \cup {e}],
           UNCHANGED <<disk, state, journal, proc, starting, img, targets, loaded, jopen,
                       lastOk, dropped>>
    PROVE  Inv'
<1> USE DEF Inv
<1>1. /\ \A g \in File : /\ mem'[g] = IF g = f THEN e ELSE mem[g]
                         /\ op'[g] = IF g = f THEN o ELSE op[g]
                         /\ known'[g] = IF g = f THEN known[g] \cup {e} ELSE known[g]
      /\ Base' = Base /\ Generated \subseteq File /\ NoEntry \notin Entry /\ f \in File
  BY TypeFacts DEF TypeOK, Base
<1>2. TypeOK'
  <2>1. /\ mem' \in [File -> Entry \cup {NoEntry}] /\ op' \in [File -> Op]
        /\ known' \in [File -> SUBSET (Entry \cup {NoEntry})]
        /\ lready' \subseteq File /\ now' \in Nat
    BY <1>1 DEF TypeOK
  <2> QED
    BY <2>1 DEF TypeOK
<1>3. CtlInv'
  BY <1>1 DEF CtlInv
<1>4. OpInv' /\ ReadyInv'
  <2>1. \A g \in Generated : g # f =>
           /\ mem'[g] = mem[g] /\ op'[g] = op[g] /\ disk'[g] = disk[g]
           /\ g \in lready' <=> g \in lready
    BY <1>1
  <2>2. mem'[f] = e /\ op'[f] = o /\ disk'[f] = disk[f] /\ o.ent = e
    BY <1>1
  <2>3. \/ /\ o.pc = "journal" /\ f \in lready'
           /\ disk[f] # NoFile /\ disk[f].content = e.digest
        \/ o.pc = "journal.remote" /\ f \notin lready'
    OBVIOUS
  <2>4. OpInv'
    BY <2>1, <2>2, <2>3 DEF OpInv
  <2>5. ReadyInv'
    BY <2>1, <2>2, <2>3 DEF ReadyInv
  <2> QED
    BY <2>4, <2>5
<1>5. HeldInv'
  <2>1. \A g \in Generated : \A d \in Entry : Held(g, d)' => Held(g, d) \/ (g = f /\ d = e)
    BY <1>1 DEF Held, InJournal
  <2> QED
    BY <2>1, HeldGrows
<1>6. SurviveInv'
  BY <1>1 DEF SurviveInv, SurvivesAt
<1>7. PersistInv'
  <2> SUFFICES ASSUME ~dropped, NEW g \in Generated PROVE PersistsAt(g)'
    BY DEF PersistInv
  <2>1. PersistsAt(g) /\ PersistsAt(f)
    BY DEF PersistInv
  <2> QED
    BY <1>1, <2>1 DEF PersistsAt
<1> QED
  BY <1>2, <1>3, <1>4, <1>5, <1>6, <1>7

\* Update after a local run, and after a remote run.
LEMMA UpdateKeeps ==
    ASSUME Inv, NEW f \in Generated,
           UpdateLocal(f) \/ \E c \in Cmd, d \in Content : UpdateRemote(f, c, d)
    PROVE  Inv'
<1>1. f \in File /\ now \in Nat
  BY TypeFacts DEF Inv, TypeOK
<1>2. CASE UpdateLocal(f)
  <2> DEFINE e == [op[f].ent EXCEPT !.mtime = now + 1]
             o == [pc |-> "journal", ent |-> e]
  <2>1. op[f].pc = "ran" /\ proc # "down" /\ ~starting
    BY <1>2 DEF UpdateLocal, Running
  <2>2. /\ op[f].ent \in Entry /\ op[f].ent.cmd \in Cmd
        /\ disk[f] # NoFile /\ disk[f].content = op[f].ent.digest
    BY <2>1 DEF Inv, OpInv
  <2>3. /\ e \in Entry /\ e.mtime = now + 1 /\ e.cmd \in Cmd /\ e.digest = op[f].ent.digest
        /\ o \in Op /\ o.ent = e /\ o.pc = "journal"
    BY <1>1, <2>2 DEF Entry, Op
  <2>4. /\ now' = now + 1 /\ mem' = [mem EXCEPT ![f] = e] /\ clean' = FALSE
        /\ lready' = lready \cup {f}
        /\ op' = [op EXCEPT ![f] = o]
        /\ made' = made \cup {MadeBy(f, e)}
        /\ known' = [known EXCEPT ![f] = @ \cup {e}]
        /\ UNCHANGED <<disk, state, journal, proc, starting, img, targets, loaded, jopen,
                       lastOk, dropped>>
    BY <1>2 DEF UpdateLocal, NotClean, MadeBy
  <2> HIDE DEF e, o
  <2> QED
    BY <2>1, <2>2, <2>3, <2>4, StoreEntryKeeps
<1>3. ASSUME NEW c \in Cmd, NEW d \in Content, UpdateRemote(f, c, d) PROVE Inv'
  <2> DEFINE e == [mtime |-> now + 1, digest |-> d, cmd |-> c]
             o == [pc |-> "journal.remote", ent |-> e]
  <2>1. proc = "up"
    BY <1>3 DEF UpdateRemote, Ready
  <2>2. ~starting
    BY <2>1 DEF Inv, CtlInv
  <2>3. /\ e \in Entry /\ e.mtime = now + 1 /\ e.cmd \in Cmd
        /\ o \in Op /\ o.ent = e /\ o.pc = "journal.remote"
    BY <1>1 DEF Entry, Op
  <2>4. /\ now' = now + 1 /\ mem' = [mem EXCEPT ![f] = e] /\ clean' = FALSE
        /\ lready' = lready \ {f}
        /\ op' = [op EXCEPT ![f] = o]
        /\ made' = made \cup {MadeBy(f, e)}
        /\ known' = [known EXCEPT ![f] = @ \cup {e}]
        /\ UNCHANGED <<disk, state, journal, proc, starting, img, targets, loaded, jopen,
                       lastOk, dropped>>
    BY <1>3 DEF UpdateRemote, NotClean, MadeBy
  <2> HIDE DEF e, o
  <2> QED
    BY <2>1, <2>2, <2>3, <2>4, StoreEntryKeeps
<1> QED
  BY <1>2, <1>3

\* The journal gets the entry, a torn record, or nothing when it is not open.
LEMMA JournalEntryKeeps ==
    ASSUME Inv, NEW f \in Generated, JournalEntry(f)
    PROVE  Inv'
<1> USE DEF Inv
<1>1. /\ proc # "down" /\ ~starting /\ op[f].pc \in {"journal", "journal.remote"}
      /\ UNCHANGED <<now, disk, state, proc, starting, img, mem, lready, targets, clean, loaded, jopen,
                     made, lastOk, dropped>>
  BY DEF JournalEntry, Running, fileVars, memVars
<1>2. /\ Base' = Base /\ Generated \subseteq File /\ f \in File /\ NoEntry \notin Entry
      /\ op[f].ent \in Entry /\ mem[f] = op[f].ent /\ op[f] \in Op
  BY <1>1, TypeFacts DEF Base, OpInv
<1> DEFINE r == [file |-> f, ent |-> op[f].ent]
<1>3. r \in Rec /\ r.file = f /\ r.ent = op[f].ent
  BY <1>2 DEF Rec
<1>4. \/ /\ jopen /\ journal' = Append(journal, r)
         /\ known' = [known EXCEPT ![f] = IF Undamaged THEN {op[f].ent} ELSE @]
      \/ jopen /\ journal' = Append(journal, Torn) /\ UNCHANGED known
      \/ UNCHANGED <<journal, known>>
  BY <1>1 DEF JournalEntry, Journals
<1> HIDE DEF r
<1>5. PICK o \in Op :
         /\ op' = [op EXCEPT ![f] = o]
         /\ o.pc = "idle" \/ (op[f].pc = "journal" /\ o.pc = "chtimes" /\ o.ent = op[f].ent)
  <2> DEFINE c == [op[f] EXCEPT !.pc = "chtimes"]
  <2>1. c \in Op /\ c.pc = "chtimes" /\ c.ent = op[f].ent
    BY <1>2 DEF Op
  <2>2. Idle \in Op /\ Idle.pc = "idle"
    BY DEF Idle, Op
  <2>3. op' = [op EXCEPT ![f] = IF op[f].pc = "journal" THEN c ELSE Idle]
    BY <1>2 DEF JournalEntry, TypeOK
  <2> HIDE DEF c
  <2>4. CASE op[f].pc = "journal"
    BY <2>1, <2>3, <2>4
  <2>5. CASE op[f].pc # "journal"
    BY <2>2, <2>3, <2>5
  <2> QED
    BY <2>4, <2>5
<1>6. \A g \in File : op'[g] = IF g = f THEN o ELSE op[g]
  BY <1>2, <1>5 DEF TypeOK
<1>7. journal \in Seq(Rec \cup {Torn}) /\ r \in Rec \cup {Torn} /\ Torn \in Rec \cup {Torn}
  BY <1>3 DEF TypeOK
<1>8. TypeOK'
  <2>1. op' \in [File -> Op]
    BY <1>5 DEF TypeOK
  <2>2. journal' \in Seq(Rec \cup {Torn})
    BY <1>4, <1>7, AppendProperties
  <2>3. known' \in [File -> SUBSET (Entry \cup {NoEntry})]
    BY <1>2, <1>4 DEF TypeOK
  <2> QED
    BY <1>1, <2>1, <2>2, <2>3 DEF TypeOK
<1>9. CtlInv'
  BY <1>1, <1>2 DEF CtlInv
<1>10. OpInv' /\ ReadyInv'
  <2>1. \A g \in Generated : g # f => op'[g] = op[g]
    BY <1>2, <1>6
  <2>2. op'[f] = o
    BY <1>2, <1>6
  <2>3. OpInv'
    BY <1>1, <1>2, <1>5, <2>1, <2>2 DEF OpInv
  <2>4. ReadyInv'
    BY <1>1, <1>5, <2>1, <2>2 DEF ReadyInv
  <2> QED
    BY <2>3, <2>4
<1>11. HeldInv'
  <2>1. ASSUME NEW g \in Generated, NEW e \in Entry, InJournal(g, e)'
        PROVE  InJournal(g, e) \/ e = mem[g]
    <3>1. PICK i \in DOMAIN journal' : journal'[i].file = g /\ journal'[i].ent = e
      BY <2>1 DEF InJournal
    <3>2. CASE journal' = journal
      BY <3>1, <3>2 DEF InJournal
    <3>3. ASSUME NEW x \in Rec \cup {Torn}, journal' = Append(journal, x)
          PROVE  InJournal(g, e) \/ (x.file = g /\ x.ent = e)
      <4>1. /\ DOMAIN journal = 1..Len(journal) /\ Len(journal) \in Nat
            /\ DOMAIN journal' = 1..(Len(journal) + 1)
            /\ \A k \in 1..Len(journal) : journal'[k] = journal[k]
            /\ journal'[Len(journal) + 1] = x
        BY <1>7, <3>3
      <4>2. i \in 1..Len(journal) \/ i = Len(journal) + 1
        BY <3>1, <4>1
      <4> QED
        BY <3>1, <4>1, <4>2 DEF InJournal
    <3>4. Torn.ent = NoEntry
      BY DEF Torn
    <3>5. CASE journal' = Append(journal, r)
      BY <1>2, <1>3, <1>7, <3>3, <3>5
    <3>6. CASE journal' = Append(journal, Torn)
      BY <1>2, <1>7, <3>3, <3>4, <3>6
    <3> QED
      BY <1>4, <3>2, <3>5, <3>6
  <2>2. \A g \in Generated : DiskStep(g) /\ \A e \in Entry : Held(g, e)' => Held(g, e)
    BY <1>1, <1>2, <2>1 DEF DiskStep, Held
  <2> QED
    BY <1>1, <2>2, HeldKeeps
<1>12. SurviveInv'
  <2> SUFFICES ASSUME ~dropped PROVE \A g \in Generated : SurvivesAt(g)'
    BY <1>1 DEF SurviveInv, CtlInv
  <2>1. \A g \in Generated : SurvivesAt(g) /\ g \in File
    BY <1>2 DEF SurviveInv
  <2>2. CASE UNCHANGED <<journal, known>>
    BY <1>1, <1>2, <2>1, <2>2 DEF SurvivesAt
  <2>3. CASE /\ jopen /\ UNCHANGED known
             /\ ~Base.ok \/ \A g \in Generated : Journaled(journal', g) = Journaled(journal, g)
    BY <1>1, <1>2, <2>1, <2>3 DEF SurvivesAt
  <2>4. CASE jopen /\ journal' = Append(journal, Torn) /\ UNCHANGED known
    <3>1. \A g \in Generated : Journaled(journal', g) = Journaled(journal, g)
      BY <1>7, <2>4, JournaledTorn
    <3> QED
      BY <2>3, <2>4, <3>1
  <2>5. CASE jopen /\ journal' = Append(journal, r) /\ ~Undamaged
             /\ known' = [known EXCEPT ![f] = IF Undamaged THEN {op[f].ent} ELSE @]
    <3>1. UNCHANGED known
      BY <1>2, <2>5 DEF TypeOK
    <3>2. Base.ok => \A g \in Generated : Journaled(journal', g) = Journaled(journal, g)
      BY <1>7, <2>5, JournaledTorn DEF Undamaged
    <3> QED
      BY <2>3, <2>5, <3>1, <3>2
  <2>6. CASE jopen /\ journal' = Append(journal, r) /\ Undamaged
             /\ known' = [known EXCEPT ![f] = IF Undamaged THEN {op[f].ent} ELSE @]
    <3>1. \A g \in File : known'[g] = IF g = f THEN {op[f].ent} ELSE known[g]
      BY <1>2, <2>6 DEF TypeOK
    <3>2. \A g \in Generated :
             Journaled(journal', g) = IF g = f THEN op[f].ent ELSE Journaled(journal, g)
      BY <1>3, <1>7, <2>6, JournaledAppend DEF Undamaged
    <3>3. proc = "up" /\ Base.ok
      BY <2>6 DEF CtlInv, Undamaged
    <3>4. SurvivesAt(f)'
      BY <1>1, <1>2, <3>1, <3>2, <3>3 DEF SurvivesAt
    <3>5. ASSUME NEW g \in Generated, g # f PROVE SurvivesAt(g)'
      BY <1>1, <1>2, <2>1, <3>1, <3>2, <3>3, <3>5 DEF SurvivesAt
    <3> QED
      BY <3>4, <3>5
  <2> QED
    BY <1>4, <2>2, <2>4, <2>5, <2>6
<1>13. PersistInv'
  <2> SUFFICES ASSUME ~dropped, NEW g \in Generated PROVE PersistsAt(g)'
    BY <1>1 DEF PersistInv
  <2>1. PersistsAt(g) /\ PersistsAt(f)
    BY DEF PersistInv
  <2> QED
    BY <1>1, <1>2, <1>6, <2>1 DEF PersistsAt
<1> QED
  BY <1>8, <1>9, <1>10, <1>11, <1>12, <1>13

\* flush writes the file, unless its contents are there already.
LEMMA FlushWriteKeeps ==
    ASSUME Inv, NEW f \in Generated, FlushWrite(f)
    PROVE  Inv'
<1> USE DEF Inv
<1> DEFINE w == [mtime |-> now + 1, content |-> mem[f].digest]
           o == [pc |-> "chtimes", ent |-> mem[f]]
<1>1. /\ proc = "up" /\ mem[f] # NoEntry /\ f \in File /\ now \in Nat /\ op[f].pc = "idle"
      /\ f \notin lready
      /\ op' = [op EXCEPT ![f] = o]
      /\ UNCHANGED <<state, journal, proc, starting, img, mem, lready, targets, clean, loaded, jopen,
                     known, made, lastOk, dropped>>
  BY DEF FlushWrite, Ready, memVars, histVars, File, TypeOK
<1>2. \/ (EqLocal(f, mem[f]) \/ SameContent(f, mem[f])) /\ UNCHANGED <<disk, now>>
      \/ now' = now + 1 /\ disk' = [disk EXCEPT ![f] = w]
  BY DEF FlushWrite, fileVars
<1>3. /\ mem[f] \in Entry /\ Held(f, mem[f]) /\ mem[f].cmd \in Cmd /\ Generated \subseteq File
      /\ NoEntry \notin Entry
  <2>1. mem[f] \in Entry /\ Generated \subseteq File /\ NoEntry \notin Entry
    BY <1>1, TypeFacts
  <2>2. Held(f, mem[f])
    BY <2>1 DEF Held
  <2> QED
    BY <2>1, <2>2 DEF HeldInv
<1>4. /\ w \in DiskFile /\ w.mtime = now + 1 /\ w.content = mem[f].digest /\ w # NoFile
      /\ o \in Op /\ o.pc = "chtimes" /\ o.ent = mem[f]
  BY <1>1, <1>3, FsStateAssumption DEF DiskFile, Op, Entry
<1> HIDE DEF w, o
<1>5. /\ disk'[f] # NoFile /\ disk'[f].content = mem[f].digest /\ DiskStep(f)
      /\ \A g \in File : g # f => disk'[g] = disk[g]
      /\ disk' \in [File -> DiskFile \cup {NoFile}]
      /\ now' = now \/ now' = now + 1
  <2>1. CASE (EqLocal(f, mem[f]) \/ SameContent(f, mem[f])) /\ UNCHANGED <<disk, now>>
    <3>1. disk[f] # NoFile /\ disk[f].content = mem[f].digest
      BY <1>3, <2>1 DEF EqLocal, SameContent, HeldInv
    <3> QED
      BY <2>1, <3>1 DEF DiskStep, TypeOK
  <2>2. CASE now' = now + 1 /\ disk' = [disk EXCEPT ![f] = w]
    <3>1. /\ disk'[f] = w /\ \A g \in File : g # f => disk'[g] = disk[g]
          /\ disk' \in [File -> DiskFile \cup {NoFile}]
      BY <1>1, <1>4, <2>2 DEF TypeOK
    <3> QED
      BY <1>4, <2>2, <3>1 DEF DiskStep
  <2> QED
    BY <1>2, <2>1, <2>2
<1>6. /\ \A g \in File : op'[g] = IF g = f THEN o ELSE op[g]
      /\ op' \in [File -> Op] /\ Base' = Base
  BY <1>1, <1>4 DEF TypeOK, Base
<1>7. TypeOK'
  <2>1. now' \in Nat
    BY <1>1, <1>5
  <2> QED
    BY <1>1, <1>5, <1>6, <2>1 DEF TypeOK
<1>8. CtlInv'
  BY <1>1, <1>6 DEF CtlInv
<1>9. OpInv' /\ ReadyInv'
  BY <1>1, <1>3, <1>4, <1>5, <1>6 DEF OpInv, ReadyInv
<1>10. HeldInv'
  <2>1. \A g \in Generated : DiskStep(g) /\ \A e \in Entry : Held(g, e)' => Held(g, e)
    BY <1>1, <1>3, <1>5, SameHeld DEF DiskStep
  <2> QED
    BY <1>1, <1>5, <2>1, HeldKeeps
<1>11. SurviveInv'
  BY <1>1, <1>6 DEF SurviveInv, SurvivesAt
<1>12. PersistInv'
  BY <1>1, <1>6 DEF PersistInv, PersistsAt
<1> QED
  BY <1>7, <1>8, <1>9, <1>10, <1>11, <1>12

\* The file gets the mtime of its entry.
LEMMA ChtimesKeeps ==
    ASSUME Inv, NEW f \in Generated, Chtimes(f)
    PROVE  Inv'
<1> USE DEF Inv
<1> DEFINE w == [disk[f] EXCEPT !.mtime = op[f].ent.mtime]
<1>1. /\ proc # "down" /\ ~starting /\ op[f].pc = "chtimes" /\ f \in File
      /\ disk' = [disk EXCEPT ![f] = w]
      /\ lready' = lready \cup {f} /\ op' = [op EXCEPT ![f] = Idle]
      /\ UNCHANGED <<now, state, journal, proc, starting, img, mem, targets, clean, loaded, jopen,
                     known, made, lastOk, dropped>>
  BY DEF Chtimes, SetMtime, Running, histVars, File
<1>2. /\ op[f].ent \in Entry /\ mem[f] = op[f].ent /\ disk[f] # NoFile
      /\ disk[f].content = mem[f].digest /\ Held(f, mem[f])
  BY <1>1 DEF OpInv, Held
<1>3. w \in DiskFile /\ w # NoFile /\ w.mtime = mem[f].mtime /\ w.content = mem[f].digest
  <2>1. disk[f] \in DiskFile /\ mem[f].mtime \in Nat
    BY <1>1, <1>2, TypeFacts DEF Entry
  <2> QED
    BY <1>2, <2>1, FsStateAssumption DEF DiskFile
<1>4. Idle \in Op /\ Idle.pc = "idle"
  BY DEF Idle, Op
<1> HIDE DEF w
<1>5. /\ \A g \in File : /\ disk'[g] = IF g = f THEN w ELSE disk[g]
                         /\ op'[g] = IF g = f THEN Idle ELSE op[g]
      /\ disk' \in [File -> DiskFile \cup {NoFile}] /\ op' \in [File -> Op]
      /\ Base' = Base /\ Generated \subseteq File
  BY <1>1, <1>3, <1>4, TypeFacts DEF TypeOK, Base
<1>6. TypeOK'
  BY <1>1, <1>5 DEF TypeOK
<1>7. CtlInv'
  BY <1>1, <1>5 DEF CtlInv
<1>8. OpInv' /\ ReadyInv'
  BY <1>1, <1>2, <1>3, <1>4, <1>5 DEF OpInv, ReadyInv
<1>9. HeldInv'
  <2>1. \A g \in Generated : DiskStep(g) /\ \A e \in Entry : Held(g, e)' => Held(g, e)
    BY <1>1, <1>2, <1>3, <1>5, SameHeld DEF DiskStep
  <2> QED
    BY <1>1, <2>1, HeldKeeps
<1>10. SurviveInv'
  BY <1>1, <1>5 DEF SurviveInv, SurvivesAt
<1>11. PersistInv'
  <2> SUFFICES ASSUME ~dropped, NEW g \in Generated PROVE PersistsAt(g)'
    BY <1>1 DEF PersistInv
  <2>1. PersistsAt(g) /\ PersistsAt(f)
    BY DEF PersistInv
  <2> QED
    BY <1>1, <1>4, <1>5, <2>1 DEF PersistsAt
<1> QED
  BY <1>6, <1>7, <1>8, <1>9, <1>10, <1>11

\* Close: the state of hashfs is saved, or the state file says the same.
LEMMA CloseKeeps ==
    ASSUME Inv, NEW ok \in BOOLEAN, Close(ok)
    PROVE  Inv'
<1> USE DEF Inv
<1> DEFINE new == [ok |-> TRUE, entries |-> mem, targets |-> ok]
<1>1. /\ proc = "up" /\ lastOk' = ok /\ targets' = ok /\ jopen' = FALSE
      /\ ok => (loaded \/ ~Base.ok) /\ \A f \in File : op[f] = Idle
      /\ UNCHANGED <<now, disk, state, journal, starting, mem, lready, clean, loaded, op, known,
                     made, dropped>>
  BY DEF Close, Ready, fileVars
<1>2. \/ ~clean /\ loaded /\ proc' = "save" /\ img' = new
      \/ ~(~clean /\ loaded) /\ proc' = "exit" /\ img' = img
  BY DEF Close, CloseSaves
<1>3. new \in StateFile /\ new.ok /\ new.entries = mem
  BY DEF StateFile, TypeOK
<1> HIDE DEF new
<1>4. /\ Base' = Base /\ Generated \subseteq File /\ NoEntry \notin Entry /\ ~starting
      /\ loaded => Base.ok
      /\ Idle.pc = "idle"
  BY <1>1, TypeFacts DEF Base, CtlInv, Idle
<1>5. TypeOK'
  BY <1>1, <1>2, <1>3 DEF TypeOK
<1>6. CtlInv' /\ OpInv' /\ ReadyInv'
  BY <1>1, <1>2, <1>4 DEF CtlInv, OpInv, ReadyInv
<1>7. HeldInv'
  <2>1. \A f \in Generated : DiskStep(f) /\ \A e \in Entry : Held(f, e)' => Held(f, e)
    BY <1>1, <1>2, <1>3, <1>4 DEF DiskStep, Held, InJournal
  <2> QED
    BY <1>1, <2>1, HeldKeeps
<1>8. SurviveInv'
  BY <1>1, <1>2, <1>3, <1>4 DEF SurviveInv, SurvivesAt
<1>9. PersistInv'
  <2> SUFFICES ASSUME ~dropped, NEW f \in Generated PROVE PersistsAt(f)'
    BY <1>1 DEF PersistInv
  <2>1. PersistsAt(f) /\ f \in File
    BY <1>4 DEF PersistInv
  <2>2. state # NoFile => Base = state
    BY DEF Base
  <2>3. CASE ~clean /\ loaded /\ proc' = "save" /\ img' = new
    BY <1>1, <1>3, <1>4, <2>1, <2>3 DEF PersistsAt
  <2>4. CASE ~(~clean /\ loaded) /\ proc' = "exit" /\ img' = img
    BY <1>1, <1>4, <2>1, <2>2, <2>4 DEF PersistsAt
  <2> QED
    BY <1>2, <2>3, <2>4
<1> QED
  BY <1>5, <1>6, <1>7, <1>8, <1>9

\* The run ends, by itself or killed: state file and journal remain.
LEMMA DownKeeps ==
    ASSUME Inv, Exit \/ Crash
    PROVE  Inv'
<1> USE DEF Inv
<1>1. /\ proc # "down" /\ proc' = "down" /\ starting' = FALSE /\ img' = EmptyState
      /\ mem' = NoEntries /\ lready' = {} /\ targets' = FALSE
      /\ clean' = FALSE /\ loaded' = FALSE /\ jopen' = FALSE
      /\ op' = [f \in File |-> Idle]
      /\ UNCHANGED <<now, disk, state, journal, made, lastOk, dropped>>
  BY DEF Exit, Crash, Down, fileVars, histVars
<1>2. /\ Base' = Base /\ Generated \subseteq File /\ NoEntry \notin Entry
      /\ \A f \in File : /\ op'[f].pc = "idle" /\ mem'[f] = NoEntry
                         /\ img'.entries[f] = NoEntry
      /\ EmptyState.ok /\ EmptyState \in StateFile /\ Idle \in Op
  BY <1>1, TypeFacts DEF Base, Idle, NoEntries, EmptyState, StateFile, Op
<1>3. /\ known' \in [File -> SUBSET (Entry \cup {NoEntry})]
      /\ \A f \in File : /\ known[f] \subseteq known'[f]
                         /\ proc = "rename" /\ Journaled(journal, f) = NoEntry => NoEntry \in known'[f]
  <2>1. CASE proc # "rename"
    <3>1. known' = known
      BY <2>1 DEF Exit, Crash, histVars
    <3> QED
      BY <2>1, <3>1 DEF TypeOK
  <2>2. CASE proc = "rename"
    <3>1. known' = [f \in File |-> IF Journaled(journal, f) = NoEntry
                                   THEN known[f] \cup {NoEntry} ELSE known[f]]
      BY <2>2 DEF Exit, Crash
    <3> QED
      BY <3>1 DEF TypeOK
  <2> QED
    BY <2>1, <2>2
<1>4. TypeOK'
  BY <1>1, <1>2, <1>3 DEF TypeOK, NoEntries
<1>5. CtlInv' /\ OpInv' /\ ReadyInv'
  BY <1>1, <1>2 DEF CtlInv, OpInv, ReadyInv
<1>6. HeldInv'
  <2>1. \A f \in Generated : DiskStep(f) /\ \A e \in Entry : Held(f, e)' => Held(f, e)
    BY <1>1, <1>2 DEF DiskStep, Held, InJournal
  <2> QED
    BY <1>1, <2>1, HeldKeeps
<1>7. SurviveInv'
  <2> SUFFICES ASSUME ~dropped, NEW f \in Generated PROVE SurvivesAt(f)'
    BY <1>1 DEF SurviveInv
  <2>1. SurvivesAt(f) /\ f \in File
    BY <1>2 DEF SurviveInv
  <2>2. proc = "rename" => Base.entries[f] = NoEntry
    BY <2>1 DEF CtlInv, Base, EmptyState, NoEntries
  <2> QED
    BY <1>1, <1>2, <1>3, <2>1, <2>2 DEF SurvivesAt
<1>8. PersistInv'
  BY <1>1 DEF PersistInv, PersistsAt
<1> QED
  BY <1>4, <1>5, <1>6, <1>7, <1>8

\* Between runs the user writes or deletes a file, or the state file is damaged.
LEMMA BetweenKeeps ==
    ASSUME Inv, Corrupt \/ \E f \in File : Edit(f)
    PROVE  Inv'
<1> USE DEF Inv
<1>1. /\ proc = "down"
      /\ UNCHANGED <<journal, proc, starting, img, mem, lready, targets, clean, loaded, jopen, op,
                     made, lastOk, dropped>>
  BY DEF Corrupt, Edit, memVars, histVars
<1>2. /\ Generated \subseteq File /\ NoEntry \notin Entry
      /\ ~starting /\ ~jopen /\ \A f \in File : op[f].pc = "idle" /\ mem[f] = NoEntry
  BY <1>1, TypeFacts DEF CtlInv
<1>3. CASE Corrupt
  <2>1. /\ state' = Damaged /\ known' = [f \in File |-> known[f] \cup {NoEntry}]
        /\ UNCHANGED <<now, disk>>
    BY <1>3 DEF Corrupt, fileVars
  <2>2. Damaged \in StateFile /\ ~Damaged.ok /\ \A f \in File : Damaged.entries[f] = NoEntry
    BY DEF Damaged, EmptyState, StateFile, NoEntries
  <2>3. Base' = Damaged
    BY <2>1, <2>2, FsStateAssumption DEF Base
  <2>4. TypeOK'
    BY <1>1, <2>1, <2>2 DEF TypeOK
  <2>5. CtlInv' /\ OpInv' /\ ReadyInv'
    BY <1>1, <1>2, <2>1 DEF CtlInv, OpInv, ReadyInv
  <2>6. HeldInv'
    <3>1. \A f \in Generated : DiskStep(f) /\ \A e \in Entry : Held(f, e)' => Held(f, e)
      BY <1>1, <1>2, <2>1, <2>2, <2>3 DEF DiskStep, Held, InJournal
    <3> QED
      BY <1>1, <2>1, <3>1, HeldKeeps
  <2>7. SurviveInv'
    BY <1>1, <1>2, <2>1, <2>2, <2>3 DEF SurviveInv, SurvivesAt
  <2>8. PersistInv'
    BY <1>1, <1>2 DEF PersistInv, PersistsAt
  <2> QED
    BY <2>4, <2>5, <2>6, <2>7, <2>8
<1>4. ASSUME NEW f \in File, Edit(f) PROVE Inv'
  <2>1. Base' = Base /\ UNCHANGED <<state, known>>
    BY <1>4 DEF Edit, Base, histVars
  <2>2. now \in Nat /\ disk \in [File -> DiskFile \cup {NoFile}]
    BY DEF TypeOK
  <2>3. /\ now' \in Nat /\ (now' = now \/ now' = now + 1)
        /\ disk' \in [File -> DiskFile \cup {NoFile}]
        /\ \A g \in File : DiskStep(g)
    <3>1. CASE \E d \in Content :
                  now' = now + 1 /\ disk' = [disk EXCEPT ![f] = [mtime |-> now', content |-> d]]
      <4>1. PICK d \in Content :
                  now' = now + 1 /\ disk' = [disk EXCEPT ![f] = [mtime |-> now', content |-> d]]
        BY <3>1
      <4> DEFINE w == [mtime |-> now + 1, content |-> d]
      <4>2. w \in DiskFile /\ w.mtime = now + 1 /\ disk' = [disk EXCEPT ![f] = w]
        BY <2>2, <4>1 DEF DiskFile
      <4> HIDE DEF w
      <4>3. \A g \in File : disk'[g] = IF g = f THEN w ELSE disk[g]
        BY <2>2, <4>2
      <4> QED
        BY <2>2, <4>1, <4>2, <4>3 DEF DiskStep
    <3>2. CASE disk' = [disk EXCEPT ![f] = NoFile] /\ now' = now
      BY <2>2, <3>2 DEF DiskStep
    <3> QED
      BY <1>4, <3>1, <3>2 DEF Edit
  <2>4. TypeOK'
    BY <1>1, <2>1, <2>3 DEF TypeOK
  <2>5. CtlInv' /\ OpInv' /\ ReadyInv'
    BY <1>1, <1>2, <2>1 DEF CtlInv, OpInv, ReadyInv
  <2>6. HeldInv'
    <3>1. \A g \in Generated : DiskStep(g) /\ \A e \in Entry : Held(g, e)' => Held(g, e)
      BY <1>1, <1>2, <2>1, <2>3, SameHeld
    <3> QED
      BY <1>1, <2>3, <3>1, HeldKeeps
  <2>7. SurviveInv' /\ PersistInv'
    BY <1>1, <2>1 DEF SurviveInv, SurvivesAt, PersistInv, PersistsAt
  <2> QED
    BY <2>4, <2>5, <2>6, <2>7
<1> QED
  BY <1>3, <1>4

-----------------------------------------------------------------------------
\* The first run finds no state file, no journal and no generated file.
LEMMA InitInv == Init => Inv
<1> SUFFICES ASSUME Init PROVE Inv
  OBVIOUS
<1>1. /\ now = 1 /\ state = NoFile /\ journal = <<>>
      /\ proc = "down" /\ starting = FALSE /\ img = EmptyState
      /\ mem = NoEntries /\ lready = {} /\ targets = FALSE
      /\ clean = FALSE /\ loaded = FALSE /\ jopen = FALSE
      /\ op = [f \in File |-> Idle]
      /\ known = [f \in File |-> {NoEntry}] /\ lastOk = FALSE /\ dropped = FALSE
  BY DEF Init
<1>2. PICK c \in Content :
         disk = [f \in File |-> IF f \in Source THEN [mtime |-> 1, content |-> c] ELSE NoFile]
  BY DEF Init
<1>3. [mtime |-> 1, content |-> c] \in DiskFile /\ <<>> \in Seq(Rec \cup {Torn}) /\ Idle \in Op
  BY DEF DiskFile, Idle, Op
<1>4. EmptyState \in StateFile /\ EmptyState.ok /\ \A f \in File : EmptyState.entries[f] = NoEntry
  BY DEF EmptyState, StateFile, NoEntries
<1>5. TypeOK
  <2>1. disk \in [File -> DiskFile \cup {NoFile}]
    BY <1>2, <1>3
  <2> QED
    BY <1>1, <1>3, <1>4, <2>1 DEF TypeOK, NoEntries
<1>6. /\ Base = EmptyState /\ Generated \subseteq File /\ NoEntry \notin Entry
      /\ \A f \in File : op[f].pc = "idle" /\ mem[f] = NoEntry
  BY <1>1, <1>5, TypeFacts DEF Base, NoEntries, Idle
<1>7. CtlInv /\ OpInv /\ ReadyInv
  BY <1>1, <1>6 DEF CtlInv, OpInv, ReadyInv
<1>8. HeldInv
  <2>1. \A f \in Generated : disk[f] = NoFile
    BY <1>2, <1>6, FsStateAssumption
  <2>2. \A f \in Generated : \A e \in Entry : ~Held(f, e)
    BY <1>1, <1>4, <1>6 DEF Held, InJournal
  <2> QED
    BY <2>1, <2>2 DEF HeldInv
<1>9. SurviveInv /\ PersistInv
  BY <1>1, <1>4, <1>6, JournaledEmpty DEF SurviveInv, SurvivesAt, PersistInv, PersistsAt
<1> QED
  BY <1>5, <1>7, <1>8, <1>9 DEF Inv

\* A step that changes nothing.
LEMMA StutterKeeps ==
    ASSUME Inv, UNCHANGED vars
    PROVE  Inv'
<1>1. UNCHANGED <<disk, now, state, journal, proc, starting, img, mem, lready, targets, clean,
                  loaded, jopen, op, known, made, lastOk, dropped>>
  BY DEF vars, fileVars, memVars, histVars
<1>2. Base' = Base /\ \A f, e : Held(f, e)' <=> Held(f, e)
  BY <1>1 DEF Base, Held, InJournal
<1>3. TypeOK' /\ CtlInv' /\ OpInv' /\ ReadyInv'
  BY <1>1, <1>2 DEF Inv, TypeOK, CtlInv, OpInv, ReadyInv
<1>4. HeldInv'
  BY <1>1, <1>2 DEF Inv, HeldInv, MadeBy
<1>5. SurviveInv' /\ PersistInv'
  BY <1>1, <1>2 DEF Inv, SurviveInv, SurvivesAt, PersistInv, PersistsAt
<1> QED
  BY <1>3, <1>4, <1>5 DEF Inv

\* Every step keeps the invariant.
LEMMA NextKeeps ==
    ASSUME Inv, [Next]_vars
    PROVE  Inv'
<1>1. CASE New \/ NewLoadErr \/ CreateJournal
  BY <1>1, NewKeeps, NewLoadErrKeeps, CreateJournalKeeps
<1>2. CASE SaveBackup \/ SaveRename \/ SaveDone \/ SaveFail
  BY <1>2, SaveBackupKeeps, SaveRenameKeeps, SaveDoneKeeps, SaveFailKeeps
<1>3. CASE StoreDone \/ \E f \in Source : ReadSource(f)
  BY <1>3, StoreAndReadKeep
<1>4. ASSUME NEW f \in Generated, NEW c \in Cmd, NEW d \in Content,
             RunLocal(f, c, d) \/ UpdateRemote(f, c, d)
      PROVE  Inv'
  BY <1>4, RunLocalKeeps, UpdateKeeps
<1>5. ASSUME NEW f \in Generated,
             UpdateLocal(f) \/ JournalEntry(f) \/ FlushWrite(f) \/ Chtimes(f)
      PROVE  Inv'
  BY <1>5, UpdateKeeps, JournalEntryKeeps, FlushWriteKeeps, ChtimesKeeps
<1>6. CASE \E ok \in BOOLEAN : Close(ok)
  BY <1>6, CloseKeeps
<1>7. CASE Exit \/ Crash
  BY <1>7, DownKeeps
<1>8. CASE Corrupt \/ \E f \in File : Edit(f)
  BY <1>8, BetweenKeeps
<1>9. CASE Finished \/ UNCHANGED vars
  BY <1>9, StutterKeeps DEF Finished
<1> QED
  BY <1>1, <1>2, <1>3, <1>4, <1>5, <1>6, <1>7, <1>8, <1>9 DEF Next

\* The inductive invariant holds in every run of siso, after any crashes of the
\* runs before.
THEOREM InvCorrect == Spec => []Inv
<1>1. Inv /\ [Next]_vars => Inv'
  BY NextKeeps
<1> QED
  BY <1>1, InitInv, PTL DEF Spec

\* What hashfs says of a generated file is true: SetState after a crash, an edit or
\* a damaged state file, Update, Flush and the mtimes they set never let an entry
\* stand for contents or a command that are not its own.
THEOREM ClaimsAreTrueCorrect == Spec => []ClaimsAreTrue
<1>1. Inv => ClaimsAreTrue
  <2> SUFFICES ASSUME Inv, NEW f \in Generated, mem[f] # NoEntry
               PROVE  /\ [file |-> f, digest |-> mem[f].digest, cmd |-> mem[f].cmd] \in made
                      /\ f \in lready /\ op[f].pc # "ran" =>
                            disk[f] # NoFile /\ disk[f].content = mem[f].digest
    BY DEF ClaimsAreTrue
  <2>1. mem[f] \in Entry
    BY TypeFacts DEF Inv
  <2>2. Held(f, mem[f])
    BY <2>1 DEF Held
  <2> QED
    BY <2>1, <2>2 DEF Inv, HeldInv, MadeBy, ReadyInv
<1> QED
  BY <1>1, InvCorrect, PTL

\* No journaled update is lost to a later run: the order in which Save replaces the
\* state file and removes the journal, and loadJournal, keep what was recorded.
THEOREM RecordsSurviveCorrect == Spec => []RecordsSurvive
<1>1. Inv => RecordsSurvive
  BY DEF Inv, SurviveInv, SurvivesAt, RecordsSurvive
<1> QED
  BY <1>1, InvCorrect, PTL

\* The flags clean and loaded never make Close keep an older state file in place
\* after a successful build.
THEOREM ClosePersistsCorrect == Spec => []ClosePersists
<1>1. Inv => ClosePersists
  BY DEF Inv, PersistInv, PersistsAt, ClosePersists
<1> QED
  BY <1>1, InvCorrect, PTL
=============================================================================
