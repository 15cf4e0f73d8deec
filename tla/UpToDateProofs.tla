--------------------------- MODULE UpToDateProofs ---------------------------
(***************************************************************************)
(* Proofs about UpToDate, for every list of steps, every command, every    *)
(* number of builds, edits and faults.                                     *)
(*                                                                         *)
(* mtimes tell contents only in one direction: what is not newer than an   *)
(* output, and was there when the output was made, is what the output was  *)
(* made of.  The invariant says this of every output on the disk or in     *)
(* hashfs and of every record of the deps log (MadeInv), and of the build  *)
(* that runs what is known of the steps behind it (DoneInv) and of the     *)
(* step it is at (RecordInv).  From it follows that a successful build     *)
(* leaves nothing out of date.  A second invariant on top of it (NInv)     *)
(* gives the converse, that no step is run without a reason.               *)
(***************************************************************************)
EXTENDS UpToDate, WellFoundedInduction, TLAPS

-----------------------------------------------------------------------------
(* The order of the steps, and what a command reads *)

\* Outputs have one producer, and inputs are there before the step.
LEMMA OrderFacts ==
    /\ Index = 1 .. Len(Steps) /\ Len(Steps) \in Nat
    /\ \A n \in Index : /\ Outs(n) \subseteq File /\ Outs(n) # {}
                        /\ Steps[n].outs[1] \in Outs(n)
                        /\ Steps[n].ins \subseteq Before(n)
                        /\ Steps[n].phony \in BOOLEAN /\ Steps[n].remote \in BOOLEAN
                        /\ Steps[n].restat \in {"no", "mtime", "content"}
    /\ \A n \in 1 .. (Len(Steps) + 1) :
          /\ Before(n) \subseteq File
          /\ \A m \in Index : m < n <=> Outs(m) \cap Before(n) # {}
          /\ \A m \in Index : m < n => Outs(m) \subseteq Before(n) /\ Before(m) \subseteq Before(n)
          /\ n \in Index => Before(n + 1) = Before(n) \cup Outs(n)
<1> DEFINE R == [outs : Seq(File), ins : SUBSET File, phony : BOOLEAN,
                 restat : {"no", "mtime", "content"}, remote : BOOLEAN,
                 gcc : BOOLEAN, generator : BOOLEAN]
<1>a. Steps \in Seq(R)
  BY UpToDateAssumption
<1>b. \A m, n \in Index : m # n => Outs(m) \cap Outs(n) = {}
  BY UpToDateAssumption
<1>1. /\ Index = 1 .. Len(Steps) /\ Len(Steps) \in Nat
      /\ \A n \in Index : Steps[n] \in R
  <2> HIDE DEF R
  <2> QED BY <1>a DEF Index
<1>2. ASSUME NEW n \in Index
      PROVE  Outs(n) \subseteq File /\ Steps[n].outs[1] \in Outs(n)
  <2>1. Steps[n].outs \in Seq(File) /\ Steps[n].outs # <<>>
    BY <1>1, UpToDateAssumption
  <2>2. 1 \in DOMAIN Steps[n].outs /\ \A i \in DOMAIN Steps[n].outs : Steps[n].outs[i] \in File
    BY <2>1
  <2> QED BY <2>2 DEF Outs, Range
<1>3. ASSUME NEW n \in Index
      PROVE  /\ Steps[n].ins \subseteq Before(n)
             /\ Steps[n].phony \in BOOLEAN /\ Steps[n].remote \in BOOLEAN
             /\ Steps[n].restat \in {"no", "mtime", "content"}
  BY <1>1, UpToDateAssumption
<1>4. ASSUME NEW n \in 1 .. (Len(Steps) + 1)
      PROVE  /\ Before(n) \subseteq File
             /\ \A m \in Index : m < n => Outs(m) \subseteq Before(n) /\ Before(m) \subseteq Before(n)
             /\ n \in Index => Before(n + 1) = Before(n) \cup Outs(n)
  <2>1. \A m \in 1 .. (n - 1) : m \in Index
    BY <1>1
  <2>2. Before(n) \subseteq File
    BY <1>2, <2>1 DEF Before, Source
  <2>3. ASSUME NEW m \in Index, m < n
        PROVE  Outs(m) \subseteq Before(n) /\ Before(m) \subseteq Before(n)
    <3>1. m \in 1 .. (n - 1) /\ 1 .. (m - 1) \subseteq 1 .. (n - 1)
      BY <1>1, <2>3
    <3> QED BY <3>1 DEF Before
  <2>4. ASSUME n \in Index PROVE Before(n + 1) = Before(n) \cup Outs(n)
    <3>1. 1 .. ((n + 1) - 1) = (1 .. (n - 1)) \cup {n}
      BY <1>1
    <3> QED BY <3>1 DEF Before
  <2> QED BY <2>2, <2>3, <2>4
<1>5. ASSUME NEW n \in 1 .. (Len(Steps) + 1), NEW m \in Index, Outs(m) \cap Before(n) # {}
      PROVE  m < n
  <2>1. PICK f : f \in Outs(m) /\ f \in Before(n)
    BY <1>5
  <2>2. f \notin Source
    BY <2>1 DEF Source, Generated
  <2>3. PICK k \in 1 .. (n - 1) : f \in Outs(k)
    BY <2>1, <2>2 DEF Before
  <2>4. k = m
    <3>1. k \in Index
      BY <1>1, <2>3
    <3> QED BY <1>b, <2>1, <2>3, <3>1
  <2> QED BY <1>1, <2>3, <2>4
<1>6. ASSUME NEW n \in 1 .. (Len(Steps) + 1), NEW m \in Index, m < n
      PROVE  Outs(m) \cap Before(n) # {}
  BY <1>2, <1>4, <1>6
<1> QED BY <1>1, <1>2, <1>3, <1>4, <1>5, <1>6

\* Sources, outputs and phony names.
LEMMA KindFacts ==
    /\ Source \subseteq File /\ Generated \subseteq File /\ Source \cap Generated = {}
    /\ Virtual \subseteq Generated
    /\ \A n \in Index : /\ Outs(n) \subseteq Generated
                        /\ Steps[n].phony => Outs(n) \subseteq Virtual
                        /\ ~Steps[n].phony => Outs(n) \cap Virtual = {}
    /\ \A n \in 1 .. (Len(Steps) + 1) : \A f \in Before(n) :
          f \in Source \/ \E m \in Index : m < n /\ f \in Outs(m)
<1>1. \A n \in Index : Outs(n) \subseteq File
  BY OrderFacts
<1>2. \A m, n \in Index : m # n => Outs(m) \cap Outs(n) = {}
  BY UpToDateAssumption
<1>3. \A n \in 1 .. (Len(Steps) + 1) : \A m \in 1 .. (n - 1) : m \in Index /\ m < n
  BY OrderFacts
<1> QED BY <1>1, <1>2, <1>3 DEF Source, Generated, Virtual, Before

\* The same for one step that is no phony.
LEMMA StepFacts ==
    ASSUME NEW n \in Index, ~Steps[n].phony
    PROVE  /\ n \in 1 .. (Len(Steps) + 1) /\ n + 1 \in 1 .. (Len(Steps) + 1)
           /\ Before(n) \subseteq File /\ Outs(n) \subseteq File
           /\ Before(n + 1) = Before(n) \cup Outs(n)
           /\ Outs(n) \cap Before(n) = {} /\ Outs(n) \cap Virtual = {} /\ Outs(n) \cap Source = {}
           /\ \A m \in Index : m < n => Before(m) \cup Outs(m) \subseteq Before(n)
           /\ \A m \in Index : m # n => Outs(m) \cap Outs(n) = {}
           /\ \A m \in Index : m <= n => Outs(n) \cap Before(m) = {}
<1>1. n \in 1 .. (Len(Steps) + 1) /\ n + 1 \in 1 .. (Len(Steps) + 1)
  BY OrderFacts
<1>2. /\ Before(n) \subseteq File /\ Outs(n) \subseteq File
      /\ Before(n + 1) = Before(n) \cup Outs(n)
      /\ \A m \in Index : m < n => Before(m) \cup Outs(m) \subseteq Before(n)
  BY <1>1, OrderFacts
<1>3. \A m \in Index : m <= n => Outs(n) \cap Before(m) = {}
  <2> SUFFICES ASSUME NEW m \in Index, m <= n PROVE Outs(n) \cap Before(m) = {}
    OBVIOUS
  <2>1. m \in 1 .. (Len(Steps) + 1) /\ ~(n < m)
    BY <1>1, OrderFacts
  <2> QED BY <2>1, OrderFacts
<1>4. Outs(n) \cap Before(n) = {}
  BY <1>1, <1>3
<1>5. Outs(n) \cap Virtual = {} /\ Outs(n) \cap Source = {}
  BY KindFacts
<1>6. \A m \in Index : m # n => Outs(m) \cap Outs(n) = {}
  BY UpToDateAssumption
<1> QED BY <1>1, <1>2, <1>3, <1>4, <1>5, <1>6

\* What is behind the inputs of a step was made before it.
LEMMA InputsBefore ==
    ASSUME NEW n \in Index
    PROVE  Inputs[n] \subseteq Before(n) \ Virtual
<1>1. /\ Before(n) \in SUBSET File
      /\ Steps[n].ins \subseteq Before(n)
      /\ \A m \in Index : Outs(m) \cap Before(n) # {} => Steps[m].ins \subseteq Before(n)
  <2>1. n \in 1 .. (Len(Steps) + 1)
    BY OrderFacts
  <2> QED BY <2>1, OrderFacts
<1>2. Behind(n, Before(n))
  BY <1>1 DEF Behind
<1> QED BY <1>1, <1>2 DEF Inputs

\* What a command reads was made before its step, and are files.
LEMMA ReadsBefore ==
    ASSUME NEW n \in Index, NEW c
    PROVE  Reads(n, c) \subseteq Before(n) \ Virtual
<1>1. Before(n) \subseteq File
  BY OrderFacts
<1>2. Included(n, c, Before(n) \ Virtual)
  BY InputsBefore DEF Included
<1> QED BY <1>1, <1>2, InputsBefore DEF Reads

\* With deps=gcc, what a command reads is closed, and the least such set.
LEMMA ReadsClosed ==
    ASSUME NEW n \in Index, NEW c, Steps[n].gcc
    PROVE  /\ Included(n, c, Reads(n, c))
           /\ \A fs \in SUBSET (Before(n) \ Virtual) : Included(n, c, fs) => Reads(n, c) \subseteq fs
<1>1. Before(n) \subseteq File
  BY OrderFacts
<1>2. Inputs[n] \subseteq Reads(n, c)
  BY <1>1, InputsBefore DEF Reads, Included
<1>3. ASSUME NEW f \in Reads(n, c)
      PROVE  Includes(f, c[f]) \cap (Before(n) \ Virtual) \subseteq Reads(n, c)
  <2> SUFFICES ASSUME NEW g \in Includes(f, c[f]) \cap (Before(n) \ Virtual),
                      NEW fs \in SUBSET (Before(n) \ Virtual), Included(n, c, fs)
               PROVE  g \in fs
    BY <1>1 DEF Reads
  <2>1. f \in fs
    BY <1>3 DEF Reads
  <2> QED BY <2>1 DEF Included
<1> QED BY <1>2, <1>3 DEF Reads, Included

\* What a command reads, and what it makes of it, depends on what it reads only.
LEMMA ReadsSame ==
    ASSUME NEW n \in Index, NEW c, NEW d, \A g \in Reads(n, c) : c[g] = d[g]
    PROVE  /\ Reads(n, d) = Reads(n, c)
           /\ \A v, f : Makes(n, v, d, f) = Makes(n, v, c, f)
<1>1. Reads(n, d) = Reads(n, c)
  <2>1. CASE ~Steps[n].gcc
    BY <2>1 DEF Reads
  <2>2. CASE Steps[n].gcc
    <3>1. Included(n, d, Reads(n, c))
      BY <2>2, ReadsClosed DEF Included
    <3>2. Reads(n, d) \subseteq Reads(n, c)
      BY <2>2, <3>1, ReadsBefore, ReadsClosed
    <3>3. Included(n, c, Reads(n, d))
      BY <2>2, <3>2, ReadsClosed DEF Included
    <3>4. Reads(n, c) \subseteq Reads(n, d)
      BY <2>2, <3>3, ReadsBefore, ReadsClosed
    <3> QED BY <3>2, <3>4
  <2> QED BY <2>1, <2>2
<1>2. [g \in Reads(n, d) |-> d[g]] = [g \in Reads(n, c) |-> c[g]]
  BY <1>1
<1> QED BY <1>1, <1>2 DEF Makes

-----------------------------------------------------------------------------
(* The inductive invariant *)

\* A file or entry is not there, or newer than t, or has contents x.
Matches(v, x, t) == v.mtime = 0 \/ v.mtime > t \/ v.content = x

\* Everything before step n that is not newer than t, on disk d or in the entries
\* e of hashfs, has the contents c.
Based(d, e, n, c, t) ==
    \A g \in Before(n) : Matches(d[g], c[g], t) /\ Matches(e[g], c[g], t)

\* x is what version v of the command of n writes to f, from what there is up to t.
MadeBy(d, e, n, f, x, v, t) == \E c : x = Makes(n, v, c, f) /\ Based(d, e, n, c, t)

\* fs is what step n reads, of what there is up to t.
ReadBy(d, e, n, fs, t) == \E c : fs = Reads(n, c) /\ Based(d, e, n, c, t)

IsFile(v) == v = [content |-> v.content, mtime |-> v.mtime] /\ v.mtime \in Nat

IsEntry(e) ==
    /\ e = [content |-> e.content, mtime |-> e.mtime, updated |-> e.updated,
            cmdhash |-> e.cmdhash, changed |-> e.changed]
    /\ e.mtime \in Nat /\ e.updated \in Nat /\ e.mtime <= e.updated
    /\ e.cmdhash \in Command \cup {0} /\ e.changed \in BOOLEAN
    /\ e.cmdhash = 0 => e.updated = e.mtime
    /\ e.mtime = 0 => e.cmdhash = 0
    /\ e.cmdhash = 0 => e.changed = FALSE

TypeInv ==
    /\ clock \in Nat \ {0} /\ pos \in 1 .. (Len(Steps) + 1)
    /\ phase \in {"idle", "build", "ok"} /\ pc \in {"check", "run", "record", "flush"}
    /\ pc # "check" => pos \in Index /\ ~Steps[pos].phony
    /\ DOMAIN disk = File /\ \A f \in File : IsFile(disk[f])
    /\ DOMAIN ents = File /\ \A f \in File : IsEntry(ents[f])
    /\ cmd \in [Index -> Command]
    /\ DOMAIN deps = Index /\ \A n \in Index : deps[n].mtime \in Nat
    /\ phony \in [File -> [dirty : BOOLEAN, mtime : Nat, set : BOOLEAN]]

\* Sources are there and have no producer; a phony has no file and no deps.
KindInv ==
    /\ \A f \in Source : disk[f].mtime # 0 /\ ents[f].cmdhash = 0
    /\ \A f \in Virtual : disk[f].mtime = 0 /\ ents[f].mtime = 0
    /\ \A n \in Index : Steps[n].phony => deps[n].mtime = 0
    /\ \A n \in Index : deps[n].mtime = 0 => deps[n].ins = {}

\* No time is in the future; while outputs are recorded, those of the other steps
\* are in the past.
TimeInv ==
    /\ \A f \in File : disk[f].mtime <= clock /\ ents[f].updated <= clock
    /\ \A n \in Index : deps[n].mtime <= clock
    /\ phase = "build" => \A f \in File : phony[f].mtime <= clock
    /\ In("record") =>
          /\ \A f \in File \ Outs(pos) : disk[f].mtime < clock /\ ents[f].updated < clock
          /\ \A n \in Index \ {pos} : deps[n].mtime < clock

\* Outputs were made, and deps recorded, of what is there unless it is newer.
MadeOf(n) ==
    /\ \A f \in Outs(n) : ents[f].cmdhash # 0 =>
          MadeBy(disk, ents, n, f, ents[f].content, ents[f].cmdhash, ents[f].updated)
    /\ \A f \in Outs(n) : disk[f].mtime # 0 =>
          \/ disk[f].content = Rubbish
          \/ \E v \in Command : MadeBy(disk, ents, n, f, disk[f].content, v, disk[f].mtime)
    /\ deps[n].mtime # 0 => ReadBy(disk, ents, n, deps[n].ins, deps[n].mtime)

MadeInv == \A n \in Index : ~Steps[n].phony => MadeOf(n)

\* hashfs and disk have the same: of what is before the step the build is at, and
\* of what hashfs has from the disk.
Agree(f) == ents[f].content = disk[f].content /\ ents[f].mtime = disk[f].mtime

AgreeInv ==
    /\ phase = "build" =>
          \A f \in File :
             /\ ents[f].mtime # 0
             /\ \/ f \in Before(pos)
                \/ ents[f].cmdhash = 0 /\ ~(pc = "record" /\ f \in Outs(pos))
             => Agree(f)
    /\ In("run") => \A f \in Outs(pos) : ents[f].mtime # 0 \/ disk[f].mtime = 0

\* A step with deps=gcc and restat.  If siso is killed after its outputs are recorded
\* and before its deps are, restat may have kept the mtime of the output, and the
\* deps of the run before pass for those of the last one.
Restatted(n) == Steps[n].gcc /\ Steps[n].restat = "mtime"

FileTime(f) == IF f \in Virtual THEN phony[f].mtime ELSE disk[f].mtime

\* What is known of a step the build has gone past.
Done(n) ==
    IF Steps[n].phony
    THEN \A p \in Outs(n) : /\ phony[p].set
                             /\ \A g \in Steps[n].ins : FileTime(g) <= phony[p].mtime
    ELSE /\ \A f \in Outs(n) : disk[f].mtime # 0
         /\ Restatted(n) \/ Fresh(n)

DoneInv ==
    /\ phase = "build" => \A n \in Index : n < pos => Done(n)
    /\ phase = "build" => \A f \in File : phony[f].set => f \in Virtual
    /\ phase = "ok" => \A n \in Index : Steps[n].phony \/ Restatted(n) \/ Fresh(n)

\* What is known of a step that was run.
Made(f) == Makes(pos, cmd[pos], Contents, f)

RecordInv ==
    phase = "build" /\ pc \in {"record", "flush"} =>
       /\ todo \subseteq Outs(pos) /\ (pc = "flush" => todo = {})
       /\ depfile = Reads(pos, Contents)
       /\ \A f \in todo :
             IF Step.remote
             THEN result[f] = Made(f) /\ (pre[f] = ents[f] \/ pre[f].mtime = 0)
             ELSE disk[f].mtime # 0 /\ disk[f].content = Made(f)
       /\ \A f \in Outs(pos) \ todo : ents[f].cmdhash = cmd[pos] /\ ents[f].content = Made(f)

IInv ==
    TypeInv /\ KindInv /\ TimeInv /\ MadeInv /\ AgreeInv /\ DoneInv /\ RecordInv

-----------------------------------------------------------------------------
(* How the parts of the invariant are kept *)

\* v is not there, newer than t, or what disk or hashfs have of g.
From(d, e, g, v, t) ==
    \/ v.mtime = 0 \/ v.mtime > t
    \/ v.mtime = d[g].mtime /\ v.content = d[g].content
    \/ v.mtime = e[g].mtime /\ v.content = e[g].content

\* Old contents do not come back with another time.
LEMMA BasedKept ==
    ASSUME NEW d, NEW e, NEW d1, NEW e1, NEW n, NEW c, NEW t \in Nat, NEW u \in Nat, t <= u,
           \A g \in Before(n) : /\ d[g].mtime \in Nat /\ e[g].mtime \in Nat
                                 /\ d1[g].mtime \in Nat /\ e1[g].mtime \in Nat
                                 /\ From(d, e, g, d1[g], u) /\ From(d, e, g, e1[g], u),
           Based(d, e, n, c, t)
    PROVE  Based(d1, e1, n, c, t)
BY DEF Based, Matches, From

\* Older contents are those there were at an earlier time, too.
LEMMA BasedEarlier ==
    ASSUME NEW d, NEW e, NEW n, NEW c, NEW t \in Nat, NEW u \in Nat, t <= u,
           \A g \in Before(n) : d[g].mtime \in Nat /\ e[g].mtime \in Nat,
           Based(d, e, n, c, u)
    PROVE  Based(d, e, n, c, t)
BY DEF Based, Matches

\* What an action has to show of a step for MadeInv.
LEMMA MadeKept ==
    ASSUME NEW n \in Index, MadeOf(n), NEW u \in Nat,
           \A g \in File : /\ disk[g].mtime \in Nat /\ ents[g].mtime \in Nat
                           /\ disk'[g].mtime \in Nat /\ ents'[g].mtime \in Nat
                           /\ ents[g].updated \in Nat /\ ents[g].mtime <= ents[g].updated,
           \A g \in Before(n) : From(disk, ents, g, disk'[g], u) /\ From(disk, ents, g, ents'[g], u),
           \A f \in Outs(n) : ents[f].updated <= u /\ disk[f].mtime <= u,
           \A f \in Outs(n) : ents[f].cmdhash \in Command \cup {0},
           deps[n].mtime \in Nat, deps[n].mtime <= u,
           \A f \in Outs(n) :
              \/ ents'[f].cmdhash = 0
              \/ /\ ents'[f].content = ents[f].content /\ ents'[f].updated = ents[f].updated
                 /\ ents'[f].cmdhash = ents[f].cmdhash
              \/ MadeBy(disk', ents', n, f, ents'[f].content, ents'[f].cmdhash, ents'[f].updated),
           \A f \in Outs(n) :
              \/ disk'[f].mtime = 0
              \/ disk'[f].content = Rubbish
              \/ disk'[f].content = disk[f].content /\ disk'[f].mtime = disk[f].mtime
              \/ /\ disk'[f].content = ents[f].content /\ disk'[f].mtime = ents[f].mtime
                 /\ ents[f].cmdhash # 0
              \/ \E v \in Command :
                    MadeBy(disk', ents', n, f, disk'[f].content, v, disk'[f].mtime),
           \/ deps'[n] = deps[n]
           \/ ReadBy(disk', ents', n, deps'[n].ins, deps'[n].mtime)
    PROVE  MadeOf(n)'
<1>f. Before(n) \subseteq File /\ Outs(n) \subseteq File
  BY OrderFacts
<1>1. ASSUME NEW t \in Nat, t <= u, NEW c, Based(disk, ents, n, c, t)
      PROVE  Based(disk', ents', n, c, t)
  BY <1>1, <1>f, BasedKept
<1>2. ASSUME NEW t \in Nat, t <= u, NEW f, NEW x, NEW v, MadeBy(disk, ents, n, f, x, v, t)
      PROVE  MadeBy(disk', ents', n, f, x, v, t)
  BY <1>1, <1>2 DEF MadeBy
<1>3. ASSUME NEW f \in Outs(n), ents'[f].cmdhash # 0
      PROVE  MadeBy(disk', ents', n, f, ents'[f].content, ents'[f].cmdhash, ents'[f].updated)
  BY <1>f, <1>2, <1>3 DEF MadeOf
<1>4. ASSUME NEW f \in Outs(n), disk'[f].mtime # 0, disk'[f].content # Rubbish
      PROVE  \E v \in Command : MadeBy(disk', ents', n, f, disk'[f].content, v, disk'[f].mtime)
  <2>1. CASE disk'[f].content = disk[f].content /\ disk'[f].mtime = disk[f].mtime
    BY <1>f, <1>2, <1>4, <2>1 DEF MadeOf
  <2>2. CASE /\ disk'[f].content = ents[f].content /\ disk'[f].mtime = ents[f].mtime
             /\ ents[f].cmdhash # 0
    <3>1. PICK c : /\ ents[f].content = Makes(n, ents[f].cmdhash, c, f)
                   /\ Based(disk, ents, n, c, ents[f].updated)
      BY <2>2 DEF MadeOf, MadeBy
    <3>2. Based(disk, ents, n, c, ents[f].mtime)
      BY <1>f, <3>1, BasedEarlier
    <3>3. MadeBy(disk', ents', n, f, ents[f].content, ents[f].cmdhash, ents[f].mtime)
      BY <1>f, <1>1, <3>1, <3>2 DEF MadeBy
    <3> QED BY <2>2, <3>3
  <2> QED BY <1>4, <2>1, <2>2
<1>5. ASSUME deps'[n].mtime # 0
      PROVE  ReadBy(disk', ents', n, deps'[n].ins, deps'[n].mtime)
  <2>1. CASE deps'[n] = deps[n]
    BY <1>1, <1>5, <2>1 DEF MadeOf, ReadBy
  <2> QED BY <2>1
<1> QED BY <1>3, <1>4, <1>5 DEF MadeOf
\* Contents that hashfs and disk agree on are those of any time.
LEMMA BasedNow ==
    ASSUME NEW d, NEW e, NEW n \in Index, NEW t,
           \A g \in Before(n) : e[g].mtime = 0 \/ e[g].content = d[g].content
    PROVE  Based(d, e, n, ContentsOf(d), t)
<1>1. Before(n) \subseteq File
  BY OrderFacts
<1> QED BY <1>1 DEF Based, Matches, ContentsOf

\* What a step would read and make stays the same while its inputs do.
LEMMA MakesKept ==
    ASSUME NEW n \in Index, \A g \in Before(n) : disk'[g].content = disk[g].content
    PROVE  /\ Reads(n, Contents') = Reads(n, Contents)
           /\ \A v, f : Makes(n, v, Contents', f) = Makes(n, v, Contents, f)
           /\ cmd' = cmd => \A f : Good(n, f)' = Good(n, f)
<1>1. \A g \in Reads(n, Contents) : Contents[g] = Contents'[g]
  BY ReadsBefore, OrderFacts DEF Contents, ContentsOf
<1>2. /\ Reads(n, Contents') = Reads(n, Contents)
      /\ \A v, f : Makes(n, v, Contents', f) = Makes(n, v, Contents, f)
  BY <1>1, ReadsSame
<1>3. cmd' = cmd => \A f : Good(n, f)' = Good(n, f)
  BY <1>2 DEF Good
<1> QED BY <1>2, <1>3

\* A step stays fresh while its inputs and outputs are not written.
LEMMA FreshKept ==
    ASSUME NEW n \in Index, cmd' = cmd,
           \A g \in Before(n) \cup Outs(n) : disk'[g].content = disk[g].content
    PROVE  Fresh(n) => Fresh(n)'
BY MakesKept DEF Fresh

\* The same for all that is known of a step the build has gone past.
LEMMA DoneKept ==
    ASSUME NEW n \in Index, cmd' = cmd, Done(n),
           \A g \in Before(n) \cup Outs(n) : /\ disk'[g].content = disk[g].content
                                             /\ disk'[g].mtime = disk[g].mtime
                                             /\ phony'[g] = phony[g]
    PROVE  Done(n)'
<1>1. Fresh(n) => Fresh(n)'
  BY FreshKept
<1>2. Steps[n].ins \subseteq Before(n)
  BY OrderFacts
<1>3. \A g \in Before(n) \cup Outs(n) : FileTime(g)' = FileTime(g)
  BY DEF FileTime
<1>4. CASE Steps[n].phony
  BY <1>2, <1>3, <1>4 DEF Done
<1>5. CASE ~Steps[n].phony
  BY <1>1, <1>5 DEF Done, Restatted
<1> QED BY <1>4, <1>5

\* An action that makes nothing: what is on disk and in hashfs was there before, or is
\* a source or rubbish.
LEMMA QuietMade ==
    ASSUME TypeInv, TimeInv, MadeInv, TypeInv', deps' = deps,
           \A g \in File : From(disk, ents, g, disk'[g], clock) /\ From(disk, ents, g, ents'[g], clock),
           \A f \in File :
              \/ ents'[f].cmdhash = 0
              \/ /\ ents'[f].content = ents[f].content /\ ents'[f].updated = ents[f].updated
                 /\ ents'[f].cmdhash = ents[f].cmdhash,
           \A f \in File :
              \/ disk'[f].mtime = 0 \/ f \in Source
              \/ disk'[f].content = Rubbish
              \/ disk'[f].content = disk[f].content /\ disk'[f].mtime = disk[f].mtime
              \/ /\ disk'[f].content = ents[f].content /\ disk'[f].mtime = ents[f].mtime
                 /\ ents[f].cmdhash # 0
    PROVE  MadeInv'
<1> SUFFICES ASSUME NEW n \in Index, ~Steps[n].phony PROVE MadeOf(n)'
  BY DEF MadeInv
<1>1. MadeOf(n)
  BY DEF MadeInv
<1>2. Before(n) \subseteq File /\ Outs(n) \subseteq File /\ Outs(n) \cap Source = {}
  BY OrderFacts DEF Source, Generated
<1>3. \A g \in File : /\ disk[g].mtime \in Nat /\ ents[g].mtime \in Nat
                      /\ disk'[g].mtime \in Nat /\ ents'[g].mtime \in Nat
                      /\ ents[g].updated \in Nat /\ ents[g].mtime <= ents[g].updated
                      /\ ents[g].cmdhash \in Command \cup {0}
  BY DEF TypeInv, IsFile, IsEntry
<1>4. clock \in Nat /\ deps[n].mtime \in Nat
  BY DEF TypeInv
<1>5. /\ deps[n].mtime <= clock
      /\ \A f \in File : disk[f].mtime <= clock /\ ents[f].updated <= clock
  BY DEF TimeInv
<1> QED BY <1>1, <1>2, <1>3, <1>4, <1>5, MadeKept

-----------------------------------------------------------------------------
(* The initial state, and what happens between builds *)

\* The initial state.
LEMMA InitInv == Init => IInv
<1> SUFFICES ASSUME Init PROVE IInv
  OBVIOUS
<1>0. /\ \A f \in File : disk[f].mtime = IF f \in Source THEN 1 ELSE 0
      /\ \A f \in File : ents[f] = NoEntry
      /\ \A n \in Index : deps[n] = NoDeps
      /\ \A n \in Index : Outs(n) \subseteq File /\ Outs(n) \cap Source = {}
      /\ Virtual \subseteq File /\ Virtual \cap Source = {} /\ Source \subseteq File
  <2>1. \A n \in Index : Outs(n) \subseteq File
    BY OrderFacts
  <2>2. /\ \A n \in Index : Outs(n) \cap Source = {}
        /\ Virtual \subseteq File /\ Virtual \cap Source = {} /\ Source \subseteq File
    BY <2>1 DEF Source, Generated, Virtual
  <2>3. \A f \in File : disk[f].mtime = IF f \in Source THEN 1 ELSE 0
    BY DEF Init, NoFile
  <2> QED BY <2>1, <2>2, <2>3 DEF Init
<1>1. TypeInv
  <2>1. (CHOOSE v \in Command : TRUE) \in Command
    BY UpToDateAssumption
  <2>2. cmd \in [Index -> Command]
    BY <2>1 DEF Init
  <2>3. DOMAIN disk = File /\ \A f \in File : IsFile(disk[f])
    BY DEF Init, IsFile, NoFile
  <2>4. DOMAIN ents = File /\ \A f \in File : IsEntry(ents[f])
    <3>1. DOMAIN ents = File
      BY DEF Init
    <3>2. IsEntry(NoEntry)
      BY DEF IsEntry, NoEntry
    <3> QED BY <1>0, <3>1, <3>2
  <2> QED BY <2>2, <2>3, <2>4, OrderFacts DEF Init, TypeInv, NoDeps, NoPhony
<1>2. KindInv
  BY <1>0 DEF KindInv, NoEntry, NoDeps
<1>3. TimeInv
  BY <1>0 DEF Init, TimeInv, NoEntry, NoDeps, In
<1>4. MadeInv
  BY <1>0 DEF MadeInv, MadeOf, NoEntry, NoDeps
<1>5. AgreeInv /\ DoneInv /\ RecordInv
  BY DEF Init, AgreeInv, DoneInv, RecordInv, In
<1> QED BY <1>1, <1>2, <1>3, <1>4, <1>5 DEF IInv

\* A source is edited: it is newer than everything.
LEMMA EditKeeps ==
    ASSUME IInv, NEW f \in File, NEW c \in Content, Edit(f, c)
    PROVE  IInv'
<1>1. /\ f \in Source /\ phase' = "idle" /\ clock' = clock + 1
      /\ disk' = [disk EXCEPT ![f] = [content |-> c, mtime |-> clock + 1]]
      /\ UNCHANGED <<cmd, ents, deps, pos, pc, phony>>
  BY DEF Edit, stepVars
<1>2. TypeInv /\ KindInv /\ TimeInv /\ MadeInv /\ clock \in Nat
  BY DEF IInv, TypeInv
<1>3. \A g \in File : \/ disk'[g] = disk[g]
                      \/ g = f /\ disk'[g].mtime = clock + 1
  BY <1>1, <1>2 DEF TypeInv
<1>4. TypeInv'
  <2>1. DOMAIN disk' = File /\ \A g \in File : IsFile(disk'[g])
    BY <1>1, <1>2 DEF TypeInv, IsFile
  <2> QED BY <1>1, <1>2, <2>1 DEF TypeInv
<1>5. KindInv'
  <2>1. Virtual \subseteq File \ Source /\ Source \subseteq File
    BY OrderFacts DEF Virtual, Source, Generated
  <2> QED BY <1>1, <1>2, <1>3, <2>1 DEF KindInv
<1>6. TimeInv'
  BY <1>1, <1>2, <1>3 DEF TimeInv, TypeInv, IsEntry, IsFile, In
<1>7. MadeInv'
  <2>1. \A g \in File : From(disk, ents, g, disk'[g], clock) /\ From(disk, ents, g, ents'[g], clock)
    BY <1>1, <1>2, <1>3 DEF From
  <2> QED BY <1>1, <1>2, <1>3, <1>4, <2>1, QuietMade
<1>8. AgreeInv' /\ DoneInv' /\ RecordInv'
  BY <1>1 DEF AgreeInv, DoneInv, RecordInv, In
<1> QED BY <1>4, <1>5, <1>6, <1>7, <1>8 DEF IInv

\* Outputs are deleted between builds.
LEMMA DeleteKeeps ==
    ASSUME IInv, NEW f \in File, Delete(f)
    PROVE  IInv'
<1>1. /\ f \in Generated /\ phase' = "idle"
      /\ disk' = [disk EXCEPT ![f] = NoFile]
      /\ UNCHANGED <<clock, cmd, ents, deps, pos, pc, phony>>
  BY DEF Delete, stepVars
<1>2. TypeInv /\ KindInv /\ TimeInv /\ MadeInv
  BY DEF IInv
<1>3. \A g \in File : \/ disk'[g] = disk[g]
                      \/ g = f /\ disk'[g].mtime = 0
  BY <1>1, <1>2 DEF TypeInv, NoFile
<1>4. TypeInv'
  <2>1. DOMAIN disk' = File /\ \A g \in File : IsFile(disk'[g])
    BY <1>1, <1>2 DEF TypeInv, IsFile, NoFile
  <2> QED BY <1>1, <1>2, <2>1 DEF TypeInv
<1>5. KindInv'
  BY <1>1, <1>2, <1>3, KindFacts DEF KindInv
<1>6. TimeInv'
  BY <1>1, <1>2, <1>3 DEF TimeInv, TypeInv, IsEntry, IsFile, In
<1>7. MadeInv'
  <2>1. \A g \in File : From(disk, ents, g, disk'[g], clock) /\ From(disk, ents, g, ents'[g], clock)
    BY <1>1, <1>2, <1>3 DEF From
  <2> QED BY <1>1, <1>2, <1>3, <1>4, <2>1, QuietMade
<1>8. AgreeInv' /\ DoneInv' /\ RecordInv'
  BY <1>1 DEF AgreeInv, DoneInv, RecordInv, In
<1> QED BY <1>4, <1>5, <1>6, <1>7, <1>8 DEF IInv

\* The manifest has another command, or the build ends: disk and hashfs are kept.
LEMMA IdleKeeps ==
    ASSUME IInv, phase' = "idle", cmd' \in [Index -> Command],
           UNCHANGED <<clock, disk, ents, deps, pos, pc, phony>>
    PROVE  IInv'
<1>1. TypeInv /\ KindInv /\ TimeInv /\ MadeInv
  BY DEF IInv
<1>2. TypeInv' /\ KindInv' /\ TimeInv'
  BY <1>1 DEF TypeInv, KindInv, TimeInv, In
<1>3. MadeInv'
  BY <1>1 DEF MadeInv, MadeOf
<1>4. AgreeInv' /\ DoneInv' /\ RecordInv'
  BY DEF AgreeInv, DoneInv, RecordInv, In
<1> QED BY <1>2, <1>3, <1>4 DEF IInv

\* A command fails: what it has written is rubbish, newer than everything.
LEMMA CommandFailsKeeps ==
    ASSUME IInv, NEW fs \in SUBSET Outs(pos), CommandFails(fs)
    PROVE  IInv'
<1>1. /\ phase' = "idle" /\ clock' = clock + 1 /\ pc = "run"
      /\ disk' = [f \in File |-> IF f \in fs THEN [content |-> Rubbish, mtime |-> clock + 1]
                                             ELSE disk[f]]
      /\ UNCHANGED <<cmd, ents, deps, pos, pc, phony>>
  BY DEF CommandFails, stepVars, In
<1>2. TypeInv /\ KindInv /\ TimeInv /\ MadeInv /\ clock \in Nat
  BY DEF IInv, TypeInv
<1>3. \A g \in File : \/ disk'[g] = disk[g]
                      \/ /\ g \in fs /\ disk'[g].mtime = clock + 1
                         /\ disk'[g].content = Rubbish
  BY <1>1, <1>2
<1>4. TypeInv'
  <2>1. DOMAIN disk' = File /\ \A g \in File : IsFile(disk'[g])
    BY <1>1, <1>2 DEF TypeInv, IsFile
  <2> QED BY <1>1, <1>2, <2>1 DEF TypeInv
<1>5. KindInv'
  <2>1. pos \in Index /\ ~Steps[pos].phony
    BY <1>1, <1>2 DEF TypeInv
  <2>2. fs \cap Source = {} /\ fs \cap Virtual = {}
    BY <2>1, KindFacts
  <2> QED BY <1>1, <1>2, <1>3, <2>2, KindFacts DEF KindInv
<1>6. TimeInv'
  BY <1>1, <1>2, <1>3 DEF TimeInv, TypeInv, IsEntry, IsFile, In
<1>7. MadeInv'
  <2>1. \A g \in File : From(disk, ents, g, disk'[g], clock) /\ From(disk, ents, g, ents'[g], clock)
    BY <1>1, <1>2, <1>3 DEF From
  <2> QED BY <1>1, <1>2, <1>3, <1>4, <2>1, QuietMade
<1>8. AgreeInv' /\ DoneInv' /\ RecordInv'
  BY <1>1 DEF AgreeInv, DoneInv, RecordInv, In
<1> QED BY <1>4, <1>5, <1>6, <1>7, <1>8 DEF IInv

\* A new process loads the state: an entry is kept or forgotten, and a file is
\* given the mtime of its entry only if it has the entry's contents.
LEMMA StartBuildKeeps ==
    ASSUME IInv, NEW rs \in SUBSET {f \in File : Reconcilable(f)}, StartBuild(rs)
    PROVE  IInv'
<1>1. /\ ents' = [f \in File |-> Reloaded(f, rs)]
      /\ disk' = [f \in File |-> IF f \in rs THEN [disk[f] EXCEPT !.mtime = ents[f].mtime]
                                             ELSE disk[f]]
      /\ phase' = "build" /\ pos' = 1 /\ pc' = "check"
      /\ phony' = [f \in File |-> NoPhony]
      /\ UNCHANGED <<clock, cmd, deps>>
  BY DEF StartBuild
<1>2. TypeInv /\ KindInv /\ TimeInv /\ MadeInv
  BY DEF IInv
<1>3. ASSUME NEW g \in File
      PROVE  /\ IsFile(disk'[g])
             /\ \/ disk'[g] = disk[g]
                \/ /\ disk'[g].mtime = ents[g].mtime /\ disk'[g].content = ents[g].content
                   /\ ents[g].cmdhash # 0
  <2>1. IsFile(disk[g]) /\ IsEntry(ents[g])
    BY <1>2 DEF TypeInv
  <2>2. CASE g \in rs
    <3>1. ents[g].cmdhash # 0 /\ ents[g].content = disk[g].content
      BY <2>2 DEF Reconcilable
    <3>2. /\ disk'[g] = [disk[g] EXCEPT !.mtime = ents[g].mtime]
          /\ disk[g] = [content |-> disk[g].content, mtime |-> disk[g].mtime]
      BY <1>1, <2>1, <2>2 DEF IsFile
    <3>3. disk'[g] = [content |-> disk[g].content, mtime |-> ents[g].mtime]
      BY <3>2
    <3> QED BY <2>1, <3>1, <3>3 DEF IsFile, IsEntry
  <2>3. CASE g \notin rs
    BY <1>1, <2>1, <2>3
  <2> QED BY <2>2, <2>3
<1>4. ASSUME NEW g \in File
      PROVE  /\ IsEntry(ents'[g])
             /\ \/ ents'[g] = NoEntry
                \/ /\ ents'[g].cmdhash = ents[g].cmdhash /\ ents'[g].content = ents[g].content
                   /\ ents'[g].mtime = ents[g].mtime /\ ents'[g].updated = ents[g].updated
                   /\ ents[g].cmdhash # 0
  <2>1. IsEntry(ents[g])
    BY <1>2 DEF TypeInv
  <2>2. IsEntry(NoEntry)
    BY DEF IsEntry, NoEntry
  <2>3. CASE ents'[g] = [ents[g] EXCEPT !.changed = FALSE] /\ ents[g].cmdhash # 0
    <3>1. ents'[g] = [content |-> ents[g].content, mtime |-> ents[g].mtime,
              updated |-> ents[g].updated, cmdhash |-> ents[g].cmdhash, changed |-> FALSE]
      BY <2>1, <2>3 DEF IsEntry
    <3> QED BY <2>1, <2>3, <3>1 DEF IsEntry
  <2> QED BY <1>1, <2>2, <2>3 DEF Reloaded
<1>5. TypeInv'
  <2>1. DOMAIN disk' = File /\ \A g \in File : IsFile(disk'[g])
    BY <1>1, <1>3
  <2>2. DOMAIN ents' = File /\ \A g \in File : IsEntry(ents'[g])
    BY <1>1, <1>4
  <2>3. phony' \in [File -> [dirty : BOOLEAN, mtime : Nat, set : BOOLEAN]]
    BY <1>1 DEF NoPhony
  <2> QED BY <1>1, <1>2, <2>1, <2>2, <2>3, OrderFacts DEF TypeInv
<1>6. KindInv'
  <2>1. \A f \in Source : disk'[f].mtime # 0 /\ ents'[f].cmdhash = 0
    BY <1>2, <1>3, <1>4, KindFacts DEF KindInv, NoEntry
  <2>2. \A f \in Virtual : disk'[f].mtime = 0 /\ ents'[f].mtime = 0
    BY <1>2, <1>3, <1>4, KindFacts DEF KindInv, NoEntry
  <2> QED BY <1>1, <1>2, <2>1, <2>2 DEF KindInv
<1>7. TimeInv'
  <2>1. \A f \in File : disk'[f].mtime <= clock /\ ents'[f].updated <= clock
    <3> SUFFICES ASSUME NEW f \in File PROVE disk'[f].mtime <= clock /\ ents'[f].updated <= clock
      OBVIOUS
    <3>1. /\ disk[f].mtime <= clock /\ ents[f].updated <= clock /\ clock \in Nat
          /\ ents[f].mtime \in Nat /\ ents[f].updated \in Nat
          /\ ents[f].mtime <= ents[f].updated
      BY <1>2 DEF TimeInv, TypeInv, IsEntry
    <3>2. NoEntry.updated = 0
      BY DEF NoEntry
    <3> QED BY <1>3, <1>4, <3>1, <3>2
  <2>2. \A f \in File : phony'[f].mtime <= clock
    BY <1>1, <1>2 DEF NoPhony, TypeInv
  <2> QED BY <1>1, <1>2, <2>1, <2>2 DEF TimeInv, In
<1>8. MadeInv'
  <2>1. \A g \in File : From(disk, ents, g, disk'[g], clock) /\ From(disk, ents, g, ents'[g], clock)
    BY <1>3, <1>4 DEF From, NoEntry
  <2>2. \A g \in File : \/ ents'[g].cmdhash = 0
                        \/ /\ ents'[g].content = ents[g].content
                           /\ ents'[g].updated = ents[g].updated
                           /\ ents'[g].cmdhash = ents[g].cmdhash
    BY <1>4 DEF NoEntry
  <2> QED BY <1>1, <1>2, <1>3, <1>5, <2>1, <2>2, QuietMade
<1>9. AgreeInv'
  <2>1. Before(1) = Source
    BY DEF Before
  <2>2. \A f \in File : ents'[f].cmdhash = 0 => ents'[f].mtime = 0
    BY <1>4 DEF NoEntry
  <2> QED BY <1>1, <1>6, <2>1, <2>2 DEF AgreeInv, KindInv, In
<1>10. DoneInv' /\ RecordInv'
  BY <1>1, OrderFacts DEF DoneInv, RecordInv, NoPhony
<1> QED BY <1>5, <1>6, <1>7, <1>8, <1>9, <1>10 DEF IInv

-----------------------------------------------------------------------------
(* The check *)

\* A set of naturals has a least member, and a greatest if it is bounded.
LEMMA Extremes ==
    ASSUME NEW S \in SUBSET Nat, S # {}
    PROVE  /\ Min(S) \in S /\ \A x \in S : Min(S) <= x
           /\ \A b \in Nat : (\A x \in S : x <= b) => Max(S) \in S /\ \A x \in S : x <= Max(S)
<1>1. ASSUME NEW U \in SUBSET Nat, U # {}
      PROVE  \E x \in U : \A y \in U : x <= y
  <2> DEFINE R == {ss \in Nat \X Nat : ss[1] < ss[2]}
  <2>1. IsWellFoundedOn(R, Nat)
    BY NatLessThanWellFounded DEF OpToRel
  <2>2. \A y, x \in Nat : <<y, x>> \in R <=> y < x
    OBVIOUS
  <2> HIDE DEF R
  <2>3. PICK x \in U : \A y \in U : ~(<<y, x>> \in R)
    BY <1>1, <2>1, WFMin
  <2>4. \A y \in U : ~(y < x) /\ y \in Nat /\ x \in Nat
    BY <2>2, <2>3
  <2> QED BY <2>4
<1>2. Min(S) \in S /\ \A x \in S : Min(S) <= x
  <2>1. \E x \in S : \A y \in S : x <= y
    BY <1>1
  <2> QED BY <2>1 DEF Min
<1>3. ASSUME NEW b \in Nat, \A x \in S : x <= b
      PROVE  Max(S) \in S /\ \A x \in S : x <= Max(S)
  <2> DEFINE U == {u \in Nat : \A x \in S : x <= u}
  <2>1. b \in U
    BY <1>3
  <2>2. PICK u \in U : \A y \in U : u <= y
    BY <1>1, <2>1
  <2>3. u \in S
    <3> SUFFICES ASSUME u \notin S PROVE FALSE
      OBVIOUS
    <3>1. u \in Nat /\ \A x \in S : x \in Nat /\ x < u
      BY <2>2
    <3>2. u # 0
      <4>1. PICK x : x \in S
        OBVIOUS
      <4> QED BY <3>1, <4>1
    <3>3. u - 1 \in Nat /\ \A x \in S : x <= u - 1
      BY <3>1, <3>2
    <3>4. u - 1 \in U
      BY <3>3
    <3> QED BY <2>2, <3>2, <3>4
  <2>4. \E x \in S : \A y \in S : x >= y
    BY <2>2, <2>3
  <2> QED BY <2>4 DEF Max
<1> QED BY <1>2, <1>3

\* Stat gives the entry of hashfs, or one made of the file.
LEMMA StatFacts ==
    ASSUME TypeInv, NEW f \in File
    PROVE  /\ IsEntry(Stat(f))
           /\ \/ Stat(f) = ents[f] /\ (ents[f].mtime # 0 \/ disk[f].mtime = 0)
              \/ /\ ents[f].mtime = 0 /\ disk[f].mtime # 0
                 /\ Stat(f).content = disk[f].content /\ Stat(f).mtime = disk[f].mtime
                 /\ Stat(f).updated = disk[f].mtime /\ Stat(f).cmdhash = 0
                 /\ Stat(f).changed = FALSE
<1>1. IsFile(disk[f]) /\ IsEntry(ents[f])
  BY DEF TypeInv
<1>2. CASE ents[f].mtime # 0 \/ disk[f].mtime = 0
  BY <1>1, <1>2 DEF Stat
<1>3. CASE ents[f].mtime = 0 /\ disk[f].mtime # 0
  <2>1. Stat(f) = [content |-> disk[f].content, mtime |-> disk[f].mtime,
                   updated |-> disk[f].mtime, cmdhash |-> 0, changed |-> FALSE]
    BY <1>3 DEF Stat
  <2> QED BY <1>1, <1>3, <2>1 DEF IsFile, IsEntry
<1> QED BY <1>1, <1>2, <1>3 DEF IsEntry

\* What is before the step the build is at: hashfs shows what is on the disk, files
\* are there, and the time that counts is that of the file or its phony.
LEMMA StatBefore ==
    ASSUME IInv, phase = "build", NEW g \in Before(pos)
    PROVE  /\ Stat(g).mtime = disk[g].mtime
           /\ disk[g].mtime # 0 => Stat(g).content = disk[g].content
           /\ InMtime(g) = FileTime(g)
           /\ g \in Virtual <=> phony[g].set
           /\ g \notin Virtual => disk[g].mtime # 0
           /\ FileTime(g) \in Nat /\ FileTime(g) <= clock
<1>1. TypeInv /\ KindInv /\ TimeInv /\ AgreeInv /\ DoneInv /\ pos \in 1 .. (Len(Steps) + 1)
  BY DEF IInv, TypeInv
<1>2. g \in File
  BY <1>1, OrderFacts
<1>3. /\ Stat(g).mtime = disk[g].mtime
      /\ disk[g].mtime # 0 => Stat(g).content = disk[g].content
  BY <1>1, <1>2, StatFacts DEF AgreeInv, Agree
<1>4. g \in Virtual => phony[g].set
  BY <1>1, KindFacts DEF DoneInv, Done
<1>5. phony[g].set => g \in Virtual
  BY <1>1, <1>2 DEF DoneInv
<1>6. g \notin Virtual => disk[g].mtime # 0
  BY <1>1, KindFacts DEF DoneInv, Done, KindInv
<1>7. disk[g].mtime \in Nat /\ disk[g].mtime <= clock /\ phony[g].mtime \in Nat /\ phony[g].mtime <= clock
  BY <1>1, <1>2 DEF TypeInv, IsFile, TimeInv
<1> QED BY <1>3, <1>4, <1>5, <1>6, <1>7 DEF InMtime, FileTime

\* The newest input, and the inputs the check looks at, of a step the build is at.
LEMMA NewestFacts ==
    ASSUME IInv, phase = "build", pos \in Index, CheckedInputs(pos) \subseteq Before(pos)
    PROVE  /\ NewestInput(pos) \in Nat /\ NewestInput(pos) <= clock
           /\ \A g \in CheckedInputs(pos) : FileTime(g) <= NewestInput(pos)
           /\ \/ NewestInput(pos) = 0
              \/ \E g \in CheckedInputs(pos) : NewestInput(pos) = FileTime(g)
<1> DEFINE S == {0} \cup {InMtime(f) : f \in CheckedInputs(pos)}
<1>1. \A g \in CheckedInputs(pos) : /\ InMtime(g) = FileTime(g)
                                    /\ FileTime(g) \in Nat /\ FileTime(g) <= clock
  BY StatBefore
<1>2. clock \in Nat
  BY DEF IInv, TypeInv
<1>3. S \in SUBSET Nat /\ S # {} /\ \A x \in S : x <= clock
  BY <1>1, <1>2
<1>4. Max(S) \in S /\ \A x \in S : x <= Max(S)
  <2> HIDE DEF S
  <2> QED BY <1>2, <1>3, Extremes
<1>5. NewestInput(pos) = Max(S)
  BY DEF NewestInput
<1> QED BY <1>1, <1>3, <1>4, <1>5

\* What the deps log has for a step was there before it.
LEMMA CheckedBefore ==
    ASSUME IInv, NEW n \in Index
    PROVE  CheckedInputs(n) \subseteq Before(n)
<1>1. CASE deps[n].mtime # 0
  <2>1. ReadBy(disk, ents, n, deps[n].ins, deps[n].mtime)
    BY <1>1 DEF IInv, KindInv, MadeInv, MadeOf
  <2>2. deps[n].ins \subseteq Before(n)
    BY <2>1, ReadsBefore DEF ReadBy
  <2> QED BY <2>2, OrderFacts DEF CheckedInputs, DepInputs
<1>2. CASE deps[n].mtime = 0
  BY <1>2, OrderFacts DEF IInv, KindInv, CheckedInputs, DepInputs
<1> QED BY <1>1, <1>2

\* The outputs of a step the check finds up to date: they are there, made by the
\* command or a generator, and not older than any input.
LEMMA OutputFacts ==
    ASSUME IInv, Checking, CheckUpToDate(pos), NEW f \in Outs(pos)
    PROVE  /\ OutTime(pos, f) \in Nat
           /\ \A g \in CheckedInputs(pos) : FileTime(g) <= OutTime(pos, f)
           /\ ents[f].cmdhash # 0 => OutTime(pos, f) <= ents[f].updated
           /\ ents[f].cmdhash = 0 => disk[f].mtime = OutTime(pos, f) /\ disk[f].mtime # 0
           /\ Steps[pos].generator \/ ents[f].cmdhash = cmd[pos]
<1>1. /\ TypeInv /\ AgreeInv /\ phase = "build" /\ pc = "check" /\ pos \in Index
      /\ Outs(pos) \subseteq File /\ cmd[pos] \in Command /\ 0 \notin Command
  BY OrderFacts, UpToDateAssumption DEF IInv, Checking, TypeInv
<1>2. \A h \in Outs(pos) : OutTime(pos, h) \in Nat
  BY <1>1, StatFacts DEF OutTime, IsEntry
<1>3. OldestOutput(pos) <= OutTime(pos, f) /\ OldestOutput(pos) \in Nat
  <2> DEFINE S == {OutTime(pos, h) : h \in Outs(pos)}
  <2>1. S \in SUBSET Nat /\ OutTime(pos, f) \in S /\ S # {}
    BY <1>2
  <2>2. OldestOutput(pos) = Min(S)
    BY DEF OldestOutput
  <2> HIDE DEF S
  <2>3. Min(S) \in S /\ \A x \in S : Min(S) <= x
    BY <2>1, Extremes
  <2> QED BY <2>1, <2>2, <2>3
<1>4. \A g \in CheckedInputs(pos) : FileTime(g) <= OutTime(pos, f)
  <2>1. CheckedInputs(pos) \subseteq Before(pos)
    BY <1>1, CheckedBefore
  <2>2. NewestInput(pos) <= OldestOutput(pos)
    BY DEF CheckUpToDate
  <2>3. \A g \in CheckedInputs(pos) : FileTime(g) \in Nat
    BY <1>1, <2>1, StatBefore
  <2>4. NewestInput(pos) \in Nat /\ \A g \in CheckedInputs(pos) : FileTime(g) <= NewestInput(pos)
    BY <1>1, <2>1, NewestFacts
  <2> QED BY <1>2, <1>3, <2>2, <2>3, <2>4
<1>5. Stat(f).mtime # 0 /\ (Steps[pos].generator \/ Stat(f).cmdhash = cmd[pos])
  BY DEF CheckUpToDate, Exists, SameCommand
<1>6. IsEntry(ents[f]) /\ IsEntry(Stat(f)) /\ f \in File
  BY <1>1, StatFacts DEF TypeInv
<1>7. ASSUME ents[f].cmdhash # 0 PROVE Stat(f) = ents[f]
  BY <1>6, <1>7, <1>1, StatFacts DEF IsEntry
<1>8. ASSUME ents[f].cmdhash = 0
      PROVE  disk[f].mtime = Stat(f).mtime /\ Stat(f).updated = Stat(f).mtime /\ Stat(f).cmdhash = 0
  <2>1. CASE Stat(f) = ents[f]
    <3>1. Agree(f)
      BY <1>1, <1>5, <1>6, <1>8, <2>1 DEF AgreeInv
    <3> QED BY <1>6, <1>8, <2>1, <3>1 DEF Agree, IsEntry
  <2>2. CASE Stat(f) # ents[f]
    BY <1>1, <1>6, <2>2, StatFacts
  <2> QED BY <2>1, <2>2
<1>9. ents[f].cmdhash # 0 => OutTime(pos, f) <= ents[f].updated
  <2>1. /\ ents[f].mtime \in Nat /\ ents[f].updated \in Nat
        /\ ents[f].mtime <= ents[f].updated /\ ents[f].updated <= ents[f].updated
    BY <1>6 DEF IsEntry
  <2> QED BY <1>7, <2>1 DEF OutTime
<1>10. ents[f].cmdhash = 0 => disk[f].mtime = OutTime(pos, f) /\ disk[f].mtime # 0
  BY <1>5, <1>8 DEF OutTime
<1>11. Steps[pos].generator \/ ents[f].cmdhash = cmd[pos]
  BY <1>1, <1>5, <1>7, <1>8
<1> QED BY <1>2, <1>4, <1>9, <1>10, <1>11

\* What such a step would read now is not newer than its outputs.
LEMMA ReadsOlder ==
    ASSUME IInv, Checking, ~Step.phony, CheckUpToDate(pos), ~Restatted(pos), NEW f \in Outs(pos)
    PROVE  \A g \in Reads(pos, Contents) : disk[g].mtime <= OutTime(pos, f)
<1>1. /\ TypeInv /\ DoneInv /\ phase = "build" /\ pos \in Index
      /\ pos \in 1 .. (Len(Steps) + 1) /\ Before(pos) \subseteq File
  BY OrderFacts DEF IInv, Checking, TypeInv
<1>2. \A g \in Before(pos) : FileTime(g) \in Nat
  BY <1>1, StatBefore
<1>3. OutTime(pos, f) \in Nat /\ \A g \in CheckedInputs(pos) : FileTime(g) <= OutTime(pos, f)
  BY OutputFacts
<1>4. \A g \in Reads(pos, Contents) : g \in Before(pos) /\ FileTime(g) = disk[g].mtime
  BY <1>1, ReadsBefore DEF FileTime
<1>5. CASE ~Steps[pos].gcc
  <2> DEFINE S == {g \in Before(pos) : FileTime(g) <= OutTime(pos, f)}
  <2>1. Steps[pos].ins \subseteq S
    BY <1>1, <1>3, OrderFacts DEF CheckedInputs
  <2>2. ASSUME NEW m \in Index, Steps[m].phony, Outs(m) \cap S # {}
        PROVE  Steps[m].ins \subseteq S
    <3>1. PICK p \in Outs(m) : p \in S
      BY <2>2
    <3>2. m < pos /\ Before(m) \subseteq Before(pos) /\ Steps[m].ins \subseteq Before(m)
      BY <1>1, <3>1, OrderFacts
    <3>3. \A g \in Steps[m].ins : FileTime(g) <= phony[p].mtime
      BY <1>1, <2>2, <3>2 DEF DoneInv, Done
    <3>4. phony[p].mtime = FileTime(p)
      BY <2>2, KindFacts DEF FileTime
    <3> QED BY <1>2, <1>3, <3>1, <3>2, <3>3, <3>4
  <2>3. Behind(pos, S) /\ S \in SUBSET File
    BY <1>1, <2>1, <2>2 DEF Behind
  <2>4. Inputs[pos] \subseteq S
    <3> HIDE DEF S
    <3> QED BY <1>1, <2>3 DEF Inputs
  <2> QED BY <1>4, <1>5, <2>4 DEF Reads
<1>6. CASE Steps[pos].gcc
  <2>1. deps[pos].mtime # 0 /\ Stat(Steps[pos].outs[1]).mtime <= deps[pos].mtime
    <3>1. ~DepsStale(pos)
      BY <1>6 DEF CheckUpToDate, InputError
    <3>2. Steps[pos].outs[1] \in File /\ deps[pos].mtime \in Nat
      BY <1>1, OrderFacts DEF TypeInv
    <3>3. Stat(Steps[pos].outs[1]).mtime \in Nat
      BY <1>1, <3>2, StatFacts DEF IsEntry
    <3> QED BY <3>1, <3>2, <3>3 DEF DepsStale
  <2>2. PICK d : deps[pos].ins = Reads(pos, d) /\ Based(disk, ents, pos, d, deps[pos].mtime)
    BY <1>1, <2>1 DEF IInv, MadeInv, MadeOf, ReadBy, Step
  <2>3. deps[pos].ins \subseteq CheckedInputs(pos)
    BY <1>6 DEF CheckedInputs, DepInputs
  <2>4. ASSUME NEW g \in Reads(pos, d)
        PROVE  d[g] = Contents[g] /\ disk[g].mtime <= OutTime(pos, f)
    <3>1. g \in Before(pos) /\ g \notin Virtual /\ g \in CheckedInputs(pos) /\ g \in File
      BY <1>1, <2>2, <2>3, <2>4, ReadsBefore
    <3>2. FileTime(g) = disk[g].mtime /\ disk[g].mtime # 0 /\ disk[g].mtime \in Nat
      BY <1>1, <3>1, StatBefore DEF FileTime
    <3>3. Steps[pos].outs[1] \in Outs(pos)
      BY <1>1, OrderFacts
    <3>4. /\ FileTime(g) <= OutTime(pos, Steps[pos].outs[1])
          /\ OutTime(pos, Steps[pos].outs[1]) \in Nat
      BY <3>1, <3>3, OutputFacts
    <3>5. OutTime(pos, Steps[pos].outs[1]) = Stat(Steps[pos].outs[1]).mtime
      BY <1>6 DEF OutTime, Restatted
    <3>6. disk[g].mtime <= deps[pos].mtime /\ deps[pos].mtime \in Nat
      BY <1>1, <2>1, <3>2, <3>4, <3>5 DEF TypeInv
    <3>7. disk[g].content = d[g]
      BY <2>2, <3>1, <3>2, <3>6 DEF Based, Matches
    <3> QED BY <1>3, <3>1, <3>2, <3>7 DEF Contents, ContentsOf
  <2>5. Reads(pos, Contents) = Reads(pos, d)
    BY <1>1, <2>4, ReadsSame
  <2> QED BY <2>4, <2>5
<1> QED BY <1>5, <1>6

\* The check is sound: what it finds up to date would be made again.
LEMMA CheckSound ==
    ASSUME IInv, Checking, ~Step.phony, CheckUpToDate(pos), ~Restatted(pos), NEW f \in Outs(pos)
    PROVE  (IF ents[f].cmdhash # 0 THEN ents[f].content ELSE disk[f].content) \in Good(pos, f)
<1>1. /\ TypeInv /\ MadeInv /\ phase = "build" /\ pos \in Index /\ f \in File
      /\ Before(pos) \subseteq File
  BY OrderFacts DEF IInv, Checking
<1>2. ASSUME NEW c, NEW t \in Nat, OutTime(pos, f) <= t, Based(disk, ents, pos, c, t), NEW v
      PROVE  Makes(pos, v, c, f) = Makes(pos, v, Contents, f)
  <2>1. ASSUME NEW g \in Reads(pos, Contents) PROVE Contents[g] = c[g]
    <3>1. g \in Before(pos) /\ g \notin Virtual /\ g \in File
      BY <1>1, <2>1, ReadsBefore
    <3>2. disk[g].mtime # 0 /\ disk[g].mtime \in Nat
      BY <1>1, <3>1, StatBefore DEF FileTime
    <3>3. disk[g].mtime <= OutTime(pos, f) /\ OutTime(pos, f) \in Nat
      BY <2>1, ReadsOlder, OutputFacts
    <3>4. disk[g].content = c[g]
      BY <1>2, <3>1, <3>2, <3>3 DEF Based, Matches
    <3> QED BY <3>1, <3>4 DEF Contents, ContentsOf
  <2> QED BY <1>1, <2>1, ReadsSame
<1>3. MadeOf(pos) /\ IsEntry(ents[f]) /\ IsFile(disk[f])
  BY <1>1 DEF MadeInv, Step, TypeInv
<1>4. CASE ents[f].cmdhash # 0
  <2>1. PICK c : /\ ents[f].content = Makes(pos, ents[f].cmdhash, c, f)
                 /\ Based(disk, ents, pos, c, ents[f].updated)
    BY <1>3, <1>4 DEF MadeOf, MadeBy
  <2>2. ents[f].updated \in Nat /\ OutTime(pos, f) <= ents[f].updated
    BY <1>3, <1>4, OutputFacts DEF IsEntry
  <2>3. ents[f].content = Makes(pos, ents[f].cmdhash, Contents, f)
    BY <1>2, <2>1, <2>2
  <2>4. ents[f].cmdhash \in Command
    BY <1>3, <1>4 DEF IsEntry
  <2> QED BY <1>4, <2>3, <2>4, OutputFacts DEF Good
<1>5. CASE ents[f].cmdhash = 0
  <2>1. disk[f].mtime = OutTime(pos, f) /\ disk[f].mtime # 0 /\ disk[f].mtime \in Nat
    BY <1>3, <1>5, OutputFacts DEF IsFile
  <2>2. Steps[pos].generator
    BY <1>1, <1>5, OutputFacts, UpToDateAssumption DEF TypeInv
  <2>3. CASE disk[f].content = Rubbish
    BY <1>5, <2>2, <2>3 DEF Good
  <2>4. CASE disk[f].content # Rubbish
    <3>1. PICK v \in Command : MadeBy(disk, ents, pos, f, disk[f].content, v, disk[f].mtime)
      BY <1>3, <2>1, <2>4 DEF MadeOf
    <3>2. disk[f].content = Makes(pos, v, Contents, f)
      BY <1>2, <2>1, <3>1 DEF MadeBy
    <3> QED BY <1>5, <2>2, <3>2 DEF Good
  <2> QED BY <2>3, <2>4
<1> QED BY <1>4, <1>5

\* What the check stats is in hashfs afterwards, as it is on the disk.
LEMMA Looks ==
    ASSUME TypeInv, NEW fs, ents' = StatAll(fs), NEW g \in File
    PROVE  /\ IsEntry(ents'[g])
           /\ \/ ents'[g] = ents[g]
              \/ /\ ents[g].mtime = 0 /\ disk[g].mtime # 0 /\ g \in fs
                 /\ ents'[g].content = disk[g].content /\ ents'[g].mtime = disk[g].mtime
                 /\ ents'[g].updated = disk[g].mtime /\ ents'[g].cmdhash = 0
                 /\ ents'[g].changed = FALSE
           /\ g \in fs => ents'[g].mtime # 0 \/ disk[g].mtime = 0
<1>1. ents'[g] = IF g \in fs THEN Stat(g) ELSE ents[g]
  BY DEF StatAll
<1>2. IsEntry(ents[g])
  BY DEF TypeInv
<1> QED BY <1>1, <1>2, StatFacts

\* The parts of the invariant that looking at files keeps whatever else is done.
LEMMA LookKeeps ==
    ASSUME IInv, NEW fs, ents' = StatAll(fs), phase = "build", pc = "check",
           UNCHANGED <<clock, cmd, deps>>, phase' = "build",
           DOMAIN disk' = File,
           \A g \in File :
              \/ disk'[g] = disk[g]
              \/ /\ disk'[g] = [content |-> ents[g].content, mtime |-> ents[g].mtime]
                 /\ ents[g].cmdhash # 0 /\ g \in Outs(pos) /\ g \notin Virtual,
           pos' \in 1 .. (Len(Steps) + 1), pc' \in {"check", "run"},
           pc' # "check" => pos' \in Index /\ ~Steps[pos'].phony,
           phony' \in [File -> [dirty : BOOLEAN, mtime : Nat, set : BOOLEAN]],
           \A g \in File : phony'[g].mtime <= clock
    PROVE  TypeInv' /\ KindInv' /\ TimeInv' /\ MadeInv' /\ RecordInv'
<1>1. TypeInv /\ KindInv /\ TimeInv /\ MadeInv
  BY DEF IInv
<1>2. \A g \in File : IsEntry(ents'[g]) /\ IsEntry(ents[g]) /\ IsFile(disk[g])
  BY <1>1, Looks DEF TypeInv
<1>3. \A g \in File : IsFile(disk'[g])
  <2> SUFFICES ASSUME NEW g \in File PROVE IsFile(disk'[g])
    OBVIOUS
  <2>1. CASE disk'[g] = disk[g]
    BY <1>2, <2>1
  <2>2. CASE disk'[g] = [content |-> ents[g].content, mtime |-> ents[g].mtime]
    <3>1. ents[g].mtime \in Nat
      BY <1>2 DEF IsEntry
    <3>2. disk'[g].content = ents[g].content /\ disk'[g].mtime = ents[g].mtime
      BY <2>2
    <3> QED BY <2>2, <3>1, <3>2 DEF IsFile
  <2> QED BY <2>1, <2>2
<1>4. TypeInv'
  <2>1. DOMAIN ents' = File
    BY DEF StatAll
  <2> QED BY <1>1, <1>2, <1>3, <2>1 DEF TypeInv
<1>5. KindInv'
  <2>1. ASSUME NEW f \in Source PROVE disk'[f].mtime # 0 /\ ents'[f].cmdhash = 0
    <3>1. f \in File /\ disk[f].mtime # 0 /\ ents[f].cmdhash = 0
      BY <1>1, KindFacts DEF KindInv
    <3>2. disk'[f] = disk[f]
      BY <3>1
    <3> QED BY <1>1, <3>1, <3>2, Looks
  <2>2. ASSUME NEW f \in Virtual PROVE disk'[f].mtime = 0 /\ ents'[f].mtime = 0
    <3>1. f \in File /\ disk[f].mtime = 0 /\ ents[f].mtime = 0
      BY <1>1, KindFacts DEF KindInv
    <3>2. disk'[f] = disk[f]
      BY <3>1
    <3> QED BY <1>1, <3>1, <3>2, Looks
  <2> QED BY <1>1, <2>1, <2>2 DEF KindInv
<1>6. TimeInv'
  <2>1. ASSUME NEW f \in File PROVE disk'[f].mtime <= clock /\ ents'[f].updated <= clock
    <3>1. /\ disk[f].mtime <= clock /\ ents[f].updated <= clock /\ clock \in Nat
          /\ ents[f].mtime \in Nat /\ ents[f].updated \in Nat
          /\ ents[f].mtime <= ents[f].updated
      BY <1>1 DEF TimeInv, TypeInv, IsEntry
    <3>2. disk'[f].mtime = disk[f].mtime \/ disk'[f].mtime = ents[f].mtime
      OBVIOUS
    <3>3. ents'[f].updated = ents[f].updated \/ ents'[f].updated = disk[f].mtime
      BY <1>1, Looks
    <3> QED BY <3>1, <3>2, <3>3
  <2> QED BY <1>1, <2>1 DEF TimeInv, In
<1>7. MadeInv'
  <2>1. \A g \in File : From(disk, ents, g, disk'[g], clock) /\ From(disk, ents, g, ents'[g], clock)
    <3>1. \A g \in File : \/ disk'[g] = disk[g]
                          \/ disk'[g].content = ents[g].content /\ disk'[g].mtime = ents[g].mtime
      OBVIOUS
    <3> QED BY <1>1, <3>1, Looks DEF From
  <2>2. \A g \in File : \/ ents'[g].cmdhash = 0
                        \/ /\ ents'[g].content = ents[g].content
                           /\ ents'[g].updated = ents[g].updated
                           /\ ents'[g].cmdhash = ents[g].cmdhash
    BY <1>1, Looks
  <2>3. \A g \in File : \/ disk'[g] = disk[g]
                        \/ /\ disk'[g].content = ents[g].content /\ disk'[g].mtime = ents[g].mtime
                           /\ ents[g].cmdhash # 0
    OBVIOUS
  <2> QED BY <1>1, <1>4, <2>1, <2>2, <2>3, QuietMade
<1>8. RecordInv'
  BY DEF RecordInv
<1> QED BY <1>4, <1>5, <1>6, <1>7, <1>8

\* A phony passes on the newest mtime of its inputs.
LEMMA CheckPhonyKeeps ==
    ASSUME IInv, CheckPhony
    PROVE  IInv'
<1>1. /\ phase = "build" /\ pc = "check" /\ pos \in Index /\ Steps[pos].phony
      /\ ents' = StatAll(Steps[pos].ins) /\ pos' = pos + 1 /\ pc' = "check"
      /\ UNCHANGED <<phase, disk, cmd, clock, deps>>
  BY DEF CheckPhony, Checking, Step, NextStep, userVars
<1>2. PICK b \in BOOLEAN :
         phony' = [f \in File |-> IF f \in Outs(pos)
                      THEN [dirty |-> b, mtime |-> NewestInput(pos), set |-> TRUE]
                      ELSE phony[f]]
  <2>1. (\E f \in Step.ins : Dirty(f)) \in BOOLEAN
    OBVIOUS
  <2> QED BY <2>1, Zenon DEF CheckPhony
<1>3. TypeInv /\ KindInv /\ TimeInv /\ AgreeInv /\ DoneInv /\ DOMAIN disk = File
  BY DEF IInv, TypeInv
<1>4. CheckedInputs(pos) = Steps[pos].ins /\ Steps[pos].ins \subseteq Before(pos)
  BY <1>1, <1>3, OrderFacts DEF CheckedInputs, DepInputs, KindInv
<1>5. /\ NewestInput(pos) \in Nat /\ NewestInput(pos) <= clock
      /\ \A g \in Steps[pos].ins : FileTime(g) <= NewestInput(pos)
  BY <1>1, <1>4, NewestFacts
<1>6. /\ pos' \in 1 .. (Len(Steps) + 1) /\ Outs(pos) \cap Before(pos) = {}
      /\ Before(pos') = Before(pos) \cup Outs(pos) /\ Before(pos') \subseteq File
      /\ Outs(pos) \subseteq Virtual /\ pos \in 1 .. (Len(Steps) + 1)
  BY <1>1, OrderFacts, KindFacts
<1>7. /\ phony' \in [File -> [dirty : BOOLEAN, mtime : Nat, set : BOOLEAN]]
      /\ \A g \in File : phony'[g].mtime <= clock
  BY <1>1, <1>2, <1>3, <1>5 DEF TypeInv, TimeInv
<1>8. TypeInv' /\ KindInv' /\ TimeInv' /\ MadeInv' /\ RecordInv'
  BY <1>1, <1>3, <1>6, <1>7, LookKeeps
<1>9. AgreeInv'
  <2> SUFFICES ASSUME NEW f \in File, ents'[f].mtime # 0,
                      f \in Before(pos') \/ ents'[f].cmdhash = 0
               PROVE  Agree(f)'
    BY <1>1 DEF AgreeInv, In
  <2>1. f \notin Virtual
    BY <1>8 DEF KindInv
  <2>2. CASE ents'[f] = ents[f]
    BY <1>1, <1>3, <1>6, <2>1, <2>2 DEF AgreeInv, Agree
  <2>3. CASE ents'[f] # ents[f]
    BY <1>1, <1>3, <2>3, Looks DEF Agree
  <2> QED BY <2>2, <2>3
<1>10. DoneInv'
  <2>1. ASSUME NEW n \in Index, n < pos PROVE Done(n)'
    <3>1. Before(n) \cup Outs(n) \subseteq Before(pos)
      BY <1>6, <2>1, OrderFacts
    <3>2. \A g \in Before(n) \cup Outs(n) : phony'[g] = phony[g]
      BY <1>2, <1>6, <3>1
    <3> QED BY <1>1, <1>3, <2>1, <3>2, DoneKept DEF DoneInv
  <2>2. ASSUME NEW n \in Index, n = pos PROVE Done(n)'
    <3>1. \A g \in Steps[pos].ins : FileTime(g)' = FileTime(g)
      BY <1>1, <1>2, <1>4, <1>6 DEF FileTime
    <3>2. \A p \in Outs(pos) : phony'[p].set /\ phony'[p].mtime = NewestInput(pos)
      BY <1>2, <1>6
    <3>3. \A p \in Outs(pos) : phony'[p].set /\ \A g \in Steps[pos].ins : FileTime(g)' <= phony'[p].mtime
      BY <1>5, <3>1, <3>2
    <3> QED BY <1>1, <2>2, <3>3 DEF Done
  <2>3. \A f \in File : phony'[f].set => f \in Virtual
    BY <1>1, <1>2, <1>3, <1>6 DEF DoneInv
  <2>4. \A n \in Index : n < pos' => n < pos \/ n = pos
    BY <1>1, OrderFacts
  <2> QED BY <1>1, <2>1, <2>2, <2>3, <2>4 DEF DoneInv
<1> QED BY <1>8, <1>9, <1>10 DEF IInv

\* Flush writes what hashfs has of an output.
LEMMA FlushFacts ==
    ASSUME TypeInv, NEW fs, disk' = Flushed(disk, fs)
    PROVE  /\ DOMAIN disk' = File
           /\ \A g \in File :
                 \/ disk'[g] = disk[g] /\ (g \notin fs \/ ents[g].cmdhash = 0)
                 \/ /\ disk'[g] = [content |-> ents[g].content, mtime |-> ents[g].mtime]
                    /\ ents[g].cmdhash # 0 /\ g \in fs
BY DEF Flushed

\* A step that is up to date is skipped: its outputs are flushed, and it is fresh.
LEMMA SkipStepKeeps ==
    ASSUME IInv, SkipStep
    PROVE  IInv'
<1>1. /\ phase = "build" /\ pc = "check" /\ pos \in Index /\ ~Steps[pos].phony
      /\ Checking /\ CheckUpToDate(pos)
      /\ ents' = StatAll(Looked(pos)) /\ pos' = pos + 1 /\ pc' = "check"
      /\ disk' = Flushed(disk, Outs(pos))
      /\ UNCHANGED <<phase, cmd, clock, deps, phony>>
  BY DEF SkipStep, Checking, Step, NextStep
<1>3. TypeInv /\ KindInv /\ TimeInv /\ AgreeInv /\ DoneInv
  BY DEF IInv
<1>6. /\ pos' \in 1 .. (Len(Steps) + 1) /\ Outs(pos) \cap Before(pos) = {}
      /\ Before(pos') = Before(pos) \cup Outs(pos) /\ Before(pos') \subseteq File
      /\ Outs(pos) \cap Virtual = {} /\ pos \in 1 .. (Len(Steps) + 1)
  BY <1>1, OrderFacts, KindFacts
<1>7. /\ DOMAIN disk' = File
      /\ \A g \in File :
            \/ disk'[g] = disk[g] /\ (g \notin Outs(pos) \/ ents[g].cmdhash = 0)
            \/ /\ disk'[g] = [content |-> ents[g].content, mtime |-> ents[g].mtime]
               /\ ents[g].cmdhash # 0 /\ g \in Outs(pos) /\ g \notin Virtual
  BY <1>1, <1>3, <1>6, FlushFacts
<1>8. TypeInv' /\ KindInv' /\ TimeInv' /\ MadeInv' /\ RecordInv'
  <2>1. /\ phony' \in [File -> [dirty : BOOLEAN, mtime : Nat, set : BOOLEAN]]
        /\ \A g \in File : phony'[g].mtime <= clock
    BY <1>1, <1>3 DEF TypeInv, TimeInv
  <2> QED BY <1>1, <1>6, <1>7, <2>1, LookKeeps
<1>9. AgreeInv'
  <2> SUFFICES ASSUME NEW f \in File, ents'[f].mtime # 0,
                      f \in Before(pos') \/ ents'[f].cmdhash = 0
               PROVE  Agree(f)'
    BY <1>1 DEF AgreeInv, In
  <2>1. CASE disk'[f] = disk[f] /\ (f \notin Outs(pos) \/ ents[f].cmdhash = 0)
    <3>1. CASE ents'[f] = ents[f]
      <4>1. f \in Before(pos) \/ ents[f].cmdhash = 0
        BY <1>6, <2>1, <3>1
      <4> QED BY <1>1, <1>3, <2>1, <3>1, <4>1 DEF AgreeInv, Agree
    <3>2. CASE ents'[f] # ents[f]
      BY <1>1, <1>3, <2>1, <3>2, Looks DEF Agree
    <3> QED BY <3>1, <3>2
  <2>2. CASE /\ disk'[f] = [content |-> ents[f].content, mtime |-> ents[f].mtime]
             /\ ents[f].cmdhash # 0
    <3>1. ents[f].mtime # 0
      BY <1>3, <2>2 DEF TypeInv, IsEntry
    <3>2. ents'[f] = ents[f]
      BY <1>1, <1>3, <3>1, Looks
    <3> QED BY <2>2, <3>2 DEF Agree
  <2> QED BY <1>7, <2>1, <2>2
<1>10. DoneInv'
  <2>1. ASSUME NEW n \in Index, n < pos PROVE Done(n)'
    <3>1. Before(n) \cup Outs(n) \subseteq Before(pos)
      BY <1>6, <2>1, OrderFacts
    <3>2. \A g \in Before(n) \cup Outs(n) : disk'[g] = disk[g]
      BY <1>6, <1>7, <3>1
    <3> QED BY <1>1, <1>3, <2>1, <3>2, DoneKept DEF DoneInv
  <2>2. ASSUME NEW n \in Index, n = pos PROVE Done(n)'
    <3>1. \A g \in Before(n) : disk'[g] = disk[g]
      BY <1>6, <1>7, <2>2
    <3>2. \A f : Good(n, f)' = Good(n, f)
      BY <1>1, <3>1, MakesKept
    <3>3. ASSUME NEW f \in Outs(n)
          PROVE  /\ disk'[f].mtime # 0
                 /\ disk'[f].content = IF ents[f].cmdhash # 0 THEN ents[f].content
                                                              ELSE disk[f].content
      <4>1. f \in File /\ f \in Outs(pos)
        BY <1>6, <2>2, <3>3
      <4>2. ents[f].cmdhash = 0 => disk[f].mtime # 0
        BY <1>1, <4>1, OutputFacts
      <4>3. ents[f].cmdhash # 0 => ents[f].mtime # 0
        BY <1>3, <4>1 DEF TypeInv, IsEntry
      <4> QED BY <1>7, <4>1, <4>2, <4>3
    <3>4. ASSUME ~Restatted(n) PROVE Fresh(n)'
      <4>1. \A f \in Outs(n) : disk'[f].content \in Good(n, f)
        BY <1>1, <2>2, <3>3, <3>4, CheckSound DEF Step
      <4> QED BY <3>2, <4>1 DEF Fresh
    <3> QED BY <1>1, <2>2, <3>3, <3>4 DEF Done, Restatted
  <2>4. \A n \in Index : n < pos' => n < pos \/ n = pos
    BY <1>1, OrderFacts
  <2> QED BY <1>1, <1>3, <2>1, <2>2, <2>4 DEF DoneInv
<1> QED BY <1>8, <1>9, <1>10 DEF IInv

\* A step is to be run: what the check looked at is in hashfs.
LEMMA ToRunKeeps ==
    ASSUME IInv, Checking, ~Step.phony, ents' = StatAll(Looked(pos)), pc' = "run",
           UNCHANGED <<disk, cmd, clock, deps, phase, pos, phony>>
    PROVE  IInv'
<1>1. phase = "build" /\ pc = "check" /\ pos \in Index /\ ~Steps[pos].phony
  BY DEF Checking, Step
<1>2. TypeInv /\ KindInv /\ TimeInv /\ AgreeInv /\ DoneInv
  BY DEF IInv
<1>3. TypeInv' /\ KindInv' /\ TimeInv' /\ MadeInv' /\ RecordInv'
  <2>1. /\ phony' \in [File -> [dirty : BOOLEAN, mtime : Nat, set : BOOLEAN]]
        /\ \A g \in File : phony'[g].mtime <= clock
        /\ pos' \in 1 .. (Len(Steps) + 1) /\ DOMAIN disk' = File
    BY <1>1, <1>2 DEF TypeInv, TimeInv
  <2> QED BY <1>1, <2>1, LookKeeps
<1>4. AgreeInv'
  <2>1. ASSUME NEW f \in File, ents'[f].mtime # 0, f \in Before(pos) \/ ents'[f].cmdhash = 0
        PROVE  Agree(f)'
    <3>1. CASE ents'[f] = ents[f]
      BY <1>1, <1>2, <2>1, <3>1 DEF AgreeInv, Agree
    <3>2. CASE ents'[f] # ents[f]
      BY <1>2, <3>2, Looks DEF Agree
    <3> QED BY <3>1, <3>2
  <2>2. \A f \in Outs(pos) : ents'[f].mtime # 0 \/ disk[f].mtime = 0
    <3>1. Outs(pos) \subseteq File /\ Outs(pos) \subseteq Looked(pos)
      BY <1>1, OrderFacts DEF Looked
    <3> QED BY <1>2, <3>1, Looks
  <2> QED BY <1>1, <2>1, <2>2 DEF AgreeInv, In
<1>5. DoneInv'
  <2>1. \A n \in Index : Fresh(n) => Fresh(n)'
    BY FreshKept
  <2> QED BY <1>1, <1>2, <2>1 DEF DoneInv, Done, FileTime, Restatted
<1> QED BY <1>3, <1>4, <1>5 DEF IInv

-----------------------------------------------------------------------------
(* Running a step *)

\* The inputs of a step are on the disk already; a local command writes what it
\* makes of them, except what restat lets it leave alone.
LEMMA RunLocalFacts ==
    ASSUME IInv, RunLocal
    PROVE  /\ DOMAIN disk' = File
           /\ \A f \in File :
                 \/ /\ disk'[f] = disk[f]
                    /\ \/ f \notin Outs(pos)
                       \/ /\ Steps[pos].restat = "mtime"
                          /\ disk[f].mtime # 0 /\ disk[f].content = Made(f)
                 \/ f \in Outs(pos) /\ disk'[f] = [content |-> Made(f), mtime |-> clock + 1]
           /\ depfile' = Reads(pos, Contents)
<1> DEFINE d == Flushed(disk, Step.ins)
<1>1. /\ TypeInv /\ AgreeInv /\ phase = "build" /\ pos \in Index
      /\ Step.ins \subseteq Before(pos)
  BY OrderFacts DEF IInv, RunLocal, In, TypeInv, Step
<1>2. ASSUME NEW g \in File PROVE d[g] = disk[g]
  <2>1. CASE g \in Step.ins /\ ents[g].cmdhash # 0
    <3>1. ents[g].mtime # 0
      BY <1>1, <2>1 DEF TypeInv, IsEntry
    <3>2. Agree(g)
      BY <1>1, <2>1, <3>1 DEF AgreeInv
    <3>3. disk[g] = [content |-> disk[g].content, mtime |-> disk[g].mtime]
      BY <1>1 DEF TypeInv, IsFile
    <3>4. d[g] = [content |-> ents[g].content, mtime |-> ents[g].mtime]
      BY <2>1 DEF Flushed
    <3> QED BY <3>2, <3>3, <3>4 DEF Agree
  <2>2. CASE ~(g \in Step.ins /\ ents[g].cmdhash # 0)
    BY <2>2 DEF Flushed
  <2> QED BY <2>1, <2>2
<1>3. ContentsOf(d) = Contents
  BY <1>2 DEF ContentsOf, Contents
<1> DEFINE New(f) == Makes(pos, cmd[pos], ContentsOf(d), f)
           Same(f) == d[f].mtime # 0 /\ d[f].content = New(f)
<1>4. /\ disk' = [f \in File |->
             IF f \in Outs(pos) /\ ~(Step.restat = "mtime" /\ Same(f))
             THEN [content |-> New(f), mtime |-> clock + 1]
             ELSE d[f]]
      /\ depfile' = Reads(pos, ContentsOf(d))
  BY DEF RunLocal
<1>5. \A f : New(f) = Made(f)
  BY <1>3 DEF Made
<1> HIDE DEF d
<1> QED BY <1>2, <1>3, <1>4, <1>5 DEF Step

\* What a step is made of is what hashfs and disk agree on.
LEMMA BasedHere ==
    ASSUME IInv, phase = "build", pos \in Index, NEW t,
           \A g \in Before(pos) : disk'[g] = disk[g] /\ ents'[g] = ents[g]
    PROVE  /\ Based(disk', ents', pos, Contents', t)
           /\ Reads(pos, Contents') = Reads(pos, Contents)
           /\ \A v, f : Makes(pos, v, Contents', f) = Makes(pos, v, Contents, f)
<1>1. \A g \in Before(pos) : ents'[g].mtime = 0 \/ ents'[g].content = disk'[g].content
  BY OrderFacts DEF IInv, AgreeInv, Agree
<1>2. Based(disk', ents', pos, ContentsOf(disk'), t)
  BY <1>1, BasedNow
<1>3. Contents' = ContentsOf(disk')
  BY DEF Contents, ContentsOf
<1> QED BY <1>2, <1>3, MakesKept

\* A local command has run.
LEMMA RunLocalKeeps ==
    ASSUME IInv, RunLocal
    PROVE  IInv'
<1>1. /\ phase = "build" /\ pc = "run" /\ pos \in Index /\ ~Steps[pos].phony /\ ~Step.remote
      /\ clock' = clock + 2 /\ pc' = "record" /\ todo' = Outs(pos)
      /\ UNCHANGED <<cmd, ents, deps, phase, pos, phony>>
  BY DEF RunLocal, In, IInv, TypeInv
<1>2. TypeInv /\ KindInv /\ TimeInv /\ MadeInv /\ AgreeInv /\ DoneInv /\ clock \in Nat
  BY DEF IInv, TypeInv
<1>3. /\ Outs(pos) \cap Before(pos) = {} /\ Before(pos) \subseteq File /\ Outs(pos) \subseteq File
      /\ Outs(pos) \cap Virtual = {} /\ pos \in 1 .. (Len(Steps) + 1)
  BY <1>1, StepFacts
<1>4. /\ DOMAIN disk' = File
      /\ \A f \in File :
            \/ disk'[f] = disk[f]
            \/ f \in Outs(pos) /\ disk'[f] = [content |-> Made(f), mtime |-> clock + 1]
  BY RunLocalFacts
<1>5. \A g \in Before(pos) : disk'[g] = disk[g] /\ ents'[g] = ents[g]
  BY <1>1, <1>3, <1>4
<1>6. \A f : Made(f)' = Made(f)
  <2>1. \A v, f : Makes(pos, v, Contents', f) = Makes(pos, v, Contents, f)
    BY <1>1, <1>5, BasedHere
  <2> QED BY <1>1, <2>1 DEF Made
<1>7. TypeInv'
  <2>1. \A g \in File : IsFile(disk'[g])
    BY <1>2, <1>4 DEF TypeInv, IsFile
  <2>2. clock' \in Nat \ {0} /\ pc' \in {"check", "run", "record", "flush"}
    BY <1>1, <1>2
  <2> QED BY <1>1, <1>2, <1>4, <2>1, <2>2 DEF TypeInv
<1>8. KindInv'
  BY <1>1, <1>2, <1>3, <1>4, KindFacts DEF KindInv
<1>9. TimeInv'
  <2>1. ASSUME NEW f \in File
        PROVE  /\ disk'[f].mtime <= clock' /\ ents'[f].updated <= clock'
               /\ f \notin Outs(pos) => disk'[f].mtime < clock' /\ ents'[f].updated < clock'
               /\ phony'[f].mtime <= clock'
    <3>1. /\ disk[f].mtime <= clock /\ ents[f].updated <= clock /\ phony[f].mtime <= clock
          /\ disk[f].mtime \in Nat /\ ents[f].updated \in Nat /\ phony[f].mtime \in Nat
      BY <1>1, <1>2 DEF TimeInv, TypeInv, IsFile, IsEntry
    <3> QED BY <1>1, <1>2, <1>4, <3>1
  <2>2. \A n \in Index : deps'[n].mtime < clock' /\ deps'[n].mtime <= clock'
    BY <1>1, <1>2 DEF TimeInv, TypeInv
  <2> QED BY <1>1, <2>1, <2>2 DEF TimeInv
<1>10. MadeInv'
  <2> SUFFICES ASSUME NEW n \in Index, ~Steps[n].phony PROVE MadeOf(n)'
    BY DEF MadeInv
  <2>1. MadeOf(n) /\ deps[n].mtime \in Nat /\ deps[n].mtime <= clock
    BY <1>2 DEF MadeInv, TypeInv, TimeInv
  <2>2. Before(n) \subseteq File /\ Outs(n) \subseteq File
    BY OrderFacts
  <2>3. \A g \in File : /\ disk[g].mtime \in Nat /\ ents[g].mtime \in Nat
                        /\ disk'[g].mtime \in Nat /\ ents'[g].mtime \in Nat
                        /\ ents[g].updated \in Nat /\ ents[g].mtime <= ents[g].updated
                        /\ ents[g].cmdhash \in Command \cup {0}
    BY <1>2, <1>7 DEF TypeInv, IsFile, IsEntry
  <2>4. \A f \in File : disk[f].mtime <= clock /\ ents[f].updated <= clock
    BY <1>2 DEF TimeInv
  <2>5. \A g \in File : From(disk, ents, g, disk'[g], clock) /\ From(disk, ents, g, ents'[g], clock)
    BY <1>1, <1>2, <1>4 DEF From
  <2>6. ASSUME NEW f \in Outs(n)
        PROVE  \/ disk'[f] = disk[f]
               \/ \E v \in Command : MadeBy(disk', ents', n, f, disk'[f].content, v, disk'[f].mtime)
    <3>1. CASE f \in Outs(pos) /\ disk'[f] = [content |-> Made(f), mtime |-> clock + 1]
      <4>1. n = pos
        BY <1>1, <3>1, UpToDateAssumption
      <4>2. Based(disk', ents', pos, Contents', clock + 1)
        BY <1>1, <1>5, BasedHere
      <4>3. Made(f) = Makes(pos, cmd[pos], Contents', f)
        BY <1>1, <1>5, BasedHere DEF Made
      <4>4. cmd[pos] \in Command
        BY <1>1, <1>2 DEF TypeInv
      <4>5. disk'[f].content = Made(f) /\ disk'[f].mtime = clock + 1
        BY <3>1
      <4>6. MadeBy(disk', ents', n, f, disk'[f].content, cmd[pos], disk'[f].mtime)
        BY <4>1, <4>2, <4>3, <4>5 DEF MadeBy
      <4> QED BY <4>4, <4>6
    <3> QED BY <1>4, <2>2, <3>1
  <2> QED BY <1>1, <1>2, <2>1, <2>2, <2>3, <2>4, <2>5, <2>6, MadeKept
<1>11. AgreeInv'
  BY <1>1, <1>2, <1>3, <1>4 DEF AgreeInv, Agree, In
<1>12. DoneInv'
  <2>1. ASSUME NEW n \in Index, n < pos PROVE Done(n)'
    <3>1. Before(n) \cup Outs(n) \subseteq Before(pos)
      BY <1>3, <2>1, OrderFacts
    <3> QED BY <1>1, <1>2, <1>5, <2>1, <3>1, DoneKept DEF DoneInv
  <2> QED BY <1>1, <1>2, <2>1 DEF DoneInv
<1>13. RecordInv'
  <2>1. depfile' = Reads(pos, Contents')
    BY <1>1, <1>5, BasedHere, RunLocalFacts
  <2>2. \A f \in Outs(pos) : disk'[f].mtime # 0 /\ disk'[f].content = Made(f)
    BY <1>2, <1>3, RunLocalFacts
  <2> QED BY <1>1, <1>6, <2>1, <2>2 DEF RecordInv, Step
<1> QED BY <1>7, <1>8, <1>9, <1>10, <1>11, <1>12, <1>13 DEF IInv

\* A remote action has run on what hashfs has, which is what is on the disk.
LEMMA RunRemoteKeeps ==
    ASSUME IInv, NEW cached \in BOOLEAN, RunRemote(cached)
    PROVE  IInv'
<1> DEFINE in == [f \in File |-> Stat(f).content]
<1>1. /\ phase = "build" /\ pc = "run" /\ pos \in Index /\ ~Steps[pos].phony /\ Step.remote
      /\ clock' = clock + 1 /\ pc' = "record" /\ todo' = Outs(pos)
      /\ pre' = (IF cached THEN [f \in File |-> NoEntry] ELSE PreOutputs)
      /\ result' = [f \in File |-> IF f \in Outs(pos) THEN Makes(pos, cmd[pos], in, f) ELSE 0]
      /\ depfile' = Reads(pos, in)
      /\ UNCHANGED <<disk, cmd, ents, deps, phase, pos, phony>>
  BY DEF RunRemote, In, IInv, TypeInv
<1>2. TypeInv /\ KindInv /\ TimeInv /\ MadeInv /\ AgreeInv /\ DoneInv /\ clock \in Nat
  BY DEF IInv, TypeInv
<1>3. Before(pos) \subseteq File /\ Outs(pos) \subseteq File
  BY <1>1, StepFacts
<1>4. /\ Reads(pos, in) = Reads(pos, Contents)
      /\ \A v, f : Makes(pos, v, in, f) = Makes(pos, v, Contents, f)
  <2>1. ASSUME NEW g \in Reads(pos, Contents) PROVE Contents[g] = in[g]
    <3>1. g \in Before(pos) /\ g \notin Virtual /\ g \in File
      BY <1>1, <1>3, <2>1, ReadsBefore
    <3>2. Stat(g).content = disk[g].content
      BY <1>1, <3>1, StatBefore
    <3> QED BY <3>1, <3>2 DEF Contents, ContentsOf
  <2> HIDE DEF in
  <2> QED BY <1>1, <2>1, ReadsSame
<1>5. TypeInv' /\ KindInv'
  BY <1>1, <1>2 DEF TypeInv, KindInv
<1>6. TimeInv'
  <2>1. ASSUME NEW f \in File
        PROVE  /\ disk'[f].mtime < clock' /\ ents'[f].updated < clock'
               /\ disk'[f].mtime <= clock' /\ ents'[f].updated <= clock' /\ phony'[f].mtime <= clock'
    <3>1. /\ disk[f].mtime <= clock /\ ents[f].updated <= clock /\ phony[f].mtime <= clock
          /\ disk[f].mtime \in Nat /\ ents[f].updated \in Nat /\ phony[f].mtime \in Nat
      BY <1>1, <1>2 DEF TimeInv, TypeInv, IsFile, IsEntry
    <3> QED BY <1>1, <1>2, <3>1
  <2>2. \A n \in Index : deps'[n].mtime < clock' /\ deps'[n].mtime <= clock'
    BY <1>1, <1>2 DEF TimeInv, TypeInv
  <2> QED BY <2>1, <2>2 DEF TimeInv
<1>7. MadeInv'
  BY <1>1, <1>2 DEF MadeInv, MadeOf
<1>8. AgreeInv'
  BY <1>1, <1>2 DEF AgreeInv, Agree, In
<1>9. DoneInv'
  <2>1. \A n \in Index : Fresh(n) => Fresh(n)'
    BY <1>1, FreshKept
  <2> QED BY <1>1, <1>2, <2>1 DEF DoneInv, Done, FileTime, Restatted
<1>10. RecordInv'
  <2>1. depfile' = Reads(pos, Contents') /\ \A f : Made(f)' = Made(f)
    BY <1>1, <1>4 DEF Contents, Made
  <2>2. ASSUME NEW f \in Outs(pos)
        PROVE  result'[f] = Made(f) /\ (pre'[f] = ents[f] \/ pre'[f].mtime = 0)
    <3>1. f \in File
      BY <1>3
    <3>2. result'[f] = Made(f)
      BY <1>1, <1>4, <3>1 DEF Made
    <3>3. Stat(f) = ents[f]
      BY <1>1, <1>2 DEF AgreeInv, In, Stat
    <3>4. pre'[f] = ents[f] \/ pre'[f] = NoEntry
      BY <1>1, <3>1, <3>3 DEF PreOutputs
    <3> QED BY <3>2, <3>4 DEF NoEntry
  <2> QED BY <1>1, <2>1, <2>2 DEF RecordInv, Step
<1> QED BY <1>5, <1>6, <1>7, <1>8, <1>9, <1>10 DEF IInv

\* The entry computeOutputEntries makes: of what the command wrote, with a time that
\* is new, or that of what disk or hashfs have with the same contents.
LEMMA RecordedFacts ==
    ASSUME IInv, In("record"), NEW f \in todo
    PROVE  /\ IsEntry(Recorded(f, clock)) /\ Recorded(f, clock).mtime # 0
           /\ Recorded(f, clock).content = Made(f) /\ Recorded(f, clock).cmdhash = cmd[pos]
           /\ Recorded(f, clock).updated = clock
           /\ ~Step.remote => disk[f].content = Made(f)
           /\ \/ Recorded(f, clock).mtime = clock
              \/ Recorded(f, clock).mtime = disk[f].mtime /\ disk[f].content = Made(f)
              \/ Recorded(f, clock).mtime = ents[f].mtime /\ ents[f].content = Made(f)
<1>1. /\ TypeInv /\ TimeInv /\ phase = "build" /\ pos \in Index /\ f \in File /\ f \in Outs(pos)
      /\ clock \in Nat /\ clock # 0 /\ cmd[pos] \in Command /\ 0 \notin Command
      /\ IF Step.remote
         THEN result[f] = Made(f) /\ (pre[f] = ents[f] \/ pre[f].mtime = 0)
         ELSE disk[f].mtime # 0 /\ disk[f].content = Made(f)
  BY OrderFacts, UpToDateAssumption DEF IInv, TypeInv, RecordInv, In
<1>2. /\ disk[f].mtime \in Nat /\ disk[f].mtime <= clock
      /\ ents[f].mtime \in Nat /\ ents[f].mtime <= clock
  BY <1>1 DEF TypeInv, TimeInv, IsFile, IsEntry
<1> DEFINE content == IF Step.remote THEN result[f] ELSE disk[f].content
           written == IF Step.remote THEN clock ELSE disk[f].mtime
           changed == CASE Step.restat = "content" -> ~SameContent(f)
                        [] Step.restat = "mtime" -> pre[f].mtime # written
                        [] OTHER -> TRUE
           mtime == CASE Step.restat = "content" -> IF changed THEN clock ELSE pre[f].mtime
                      [] Step.restat = "mtime" -> written
                      [] OTHER -> clock
<1>3. Recorded(f, clock) = [content |-> content, mtime |-> mtime, updated |-> clock,
                            cmdhash |-> cmd[pos], changed |-> changed]
  BY DEF Recorded
<1>4. content = Made(f)
  BY <1>1
<1>5. changed \in BOOLEAN
  BY DEF SameContent
<1>6. /\ \/ mtime = clock
         \/ mtime = disk[f].mtime /\ disk[f].content = Made(f) /\ mtime # 0
         \/ mtime = ents[f].mtime /\ ents[f].content = Made(f) /\ mtime # 0
  <2>1. CASE Step.restat = "content"
    <3>1. CASE changed
      BY <2>1, <3>1
    <3>2. CASE ~changed
      <4>1. SameContent(f) /\ mtime = pre[f].mtime
        BY <2>1, <3>2
      <4> HIDE DEF mtime
      <4> QED BY <1>1, <4>1 DEF SameContent
    <3> QED BY <3>1, <3>2
  <2>2. CASE Step.restat = "mtime"
    BY <1>1, <2>2
  <2>3. CASE Step.restat \notin {"content", "mtime"}
    BY <2>3
  <2> QED BY <2>1, <2>2, <2>3
<1> HIDE DEF content, written, changed, mtime
<1>7. mtime \in Nat /\ mtime <= clock /\ mtime # 0
  BY <1>1, <1>2, <1>6
<1> DEFINE E == Recorded(f, clock)
<1>8. /\ E.content = content /\ E.mtime = mtime /\ E.updated = clock
      /\ E.cmdhash = cmd[pos] /\ E.changed = changed
  BY <1>3
<1>9. E = [content |-> E.content, mtime |-> E.mtime, updated |-> E.updated,
           cmdhash |-> E.cmdhash, changed |-> E.changed]
  BY <1>3, <1>8
<1> HIDE DEF E
<1>10. IsEntry(E)
  BY <1>1, <1>5, <1>7, <1>8, <1>9 DEF IsEntry
<1>11. /\ \/ E.mtime = clock
          \/ E.mtime = disk[f].mtime /\ disk[f].content = Made(f)
          \/ E.mtime = ents[f].mtime /\ ents[f].content = Made(f)
  BY <1>6, <1>8
<1> QED BY <1>1, <1>4, <1>7, <1>8, <1>10, <1>11 DEF E

\* One output is recorded.
LEMMA RecordOutputKeeps ==
    ASSUME IInv, NEW f \in todo, RecordOutput(f)
    PROVE  IInv'
<1> DEFINE E == Recorded(f, clock)
<1>1. /\ phase = "build" /\ pc = "record" /\ pos \in Index /\ ~Steps[pos].phony
      /\ In("record") /\ todo' = todo \ {f} /\ ents' = [ents EXCEPT ![f] = E]
      /\ \/ Step.remote /\ disk' = disk
         \/ /\ ~Step.remote
            /\ disk' = [disk EXCEPT ![f] = [content |-> @.content, mtime |-> ents'[f].mtime]]
      /\ UNCHANGED <<clock, cmd, deps, phase, pos, pc, phony, pre, result, depfile>>
  BY DEF RecordOutput, In, IInv, TypeInv
<1>2. /\ TypeInv /\ KindInv /\ TimeInv /\ MadeInv /\ AgreeInv /\ DoneInv /\ RecordInv
      /\ clock \in Nat /\ clock # 0 /\ cmd[pos] \in Command /\ cmd[pos] # 0
  BY <1>1, UpToDateAssumption DEF IInv, TypeInv
<1>3. /\ Before(pos) \subseteq File /\ Outs(pos) \subseteq File /\ f \in Outs(pos) /\ f \in File
      /\ f \notin Before(pos) /\ f \notin Virtual /\ f \notin Source
  BY <1>1, <1>2, StepFacts DEF RecordInv
<1>4. /\ IsEntry(E) /\ E.mtime # 0 /\ E.content = Made(f) /\ E.cmdhash = cmd[pos] /\ E.updated = clock
      /\ ~Step.remote => disk[f].content = Made(f)
      /\ \/ E.mtime = clock
         \/ E.mtime = disk[f].mtime /\ disk[f].content = Made(f)
         \/ E.mtime = ents[f].mtime /\ ents[f].content = Made(f)
  BY <1>1, RecordedFacts
<1> HIDE DEF E
<1>5. /\ DOMAIN ents' = File /\ ents'[f] = E
      /\ \A g \in File \ {f} : ents'[g] = ents[g]
  BY <1>1, <1>2, <1>3 DEF TypeInv
<1>6. /\ DOMAIN disk' = File
      /\ \A g \in File \ {f} : disk'[g] = disk[g]
      /\ \/ disk'[f] = disk[f] /\ Step.remote
         \/ disk'[f] = [content |-> Made(f), mtime |-> E.mtime] /\ ~Step.remote
  BY <1>1, <1>2, <1>3, <1>4, <1>5 DEF TypeInv
<1>7. \A g \in Before(pos) : disk'[g] = disk[g] /\ ents'[g] = ents[g]
  BY <1>3, <1>5, <1>6
<1>8. \A h : Made(h)' = Made(h)
  <2>1. \A v, h : Makes(pos, v, Contents', h) = Makes(pos, v, Contents, h)
    BY <1>1, <1>7, BasedHere
  <2> QED BY <1>1, <2>1 DEF Made
<1>9. E.mtime \in Nat /\ E.mtime <= clock /\ disk[f].mtime \in Nat /\ disk[f].mtime <= clock
  BY <1>2, <1>3, <1>4 DEF IsEntry, TypeInv, IsFile, TimeInv
<1>10. TypeInv'
  <2>1. \A g \in File : IsEntry(ents'[g])
    BY <1>2, <1>4, <1>5 DEF TypeInv
  <2>2. IsFile(disk'[f])
    <3>1. CASE disk'[f] = disk[f]
      BY <1>2, <1>3, <3>1 DEF TypeInv
    <3>2. CASE disk'[f] = [content |-> Made(f), mtime |-> E.mtime]
      BY <1>9, <3>2 DEF IsFile
    <3> QED BY <1>6, <3>1, <3>2
  <2>3. \A g \in File : IsFile(disk'[g])
    BY <1>2, <1>6, <2>2 DEF TypeInv
  <2> QED BY <1>1, <1>2, <1>5, <1>6, <2>1, <2>3 DEF TypeInv
<1>11. KindInv'
  <2>1. \A g \in Source \cup Virtual : disk'[g] = disk[g] /\ ents'[g] = ents[g]
    BY <1>3, <1>5, <1>6, KindFacts
  <2> QED BY <1>1, <1>2, <2>1 DEF KindInv
<1>12. TimeInv'
  <2>1. disk'[f].mtime <= clock /\ ents'[f].updated <= clock
    BY <1>2, <1>4, <1>5, <1>6, <1>9
  <2> QED BY <1>1, <1>2, <1>3, <1>5, <1>6, <2>1 DEF TimeInv
<1>13. MadeInv'
  <2> SUFFICES ASSUME NEW n \in Index, ~Steps[n].phony PROVE MadeOf(n)'
    BY DEF MadeInv
  <2>1. MadeOf(n) /\ deps[n].mtime \in Nat /\ deps[n].mtime <= clock /\ deps'[n] = deps[n]
    BY <1>1, <1>2 DEF MadeInv, TypeInv, TimeInv
  <2>2. Before(n) \subseteq File /\ Outs(n) \subseteq File
    BY StepFacts
  <2>3. \A g \in File : /\ disk[g].mtime \in Nat /\ ents[g].mtime \in Nat
                        /\ disk'[g].mtime \in Nat /\ ents'[g].mtime \in Nat
                        /\ ents[g].updated \in Nat /\ ents[g].mtime <= ents[g].updated
                        /\ ents[g].cmdhash \in Command \cup {0}
    BY <1>2, <1>10 DEF TypeInv, IsFile, IsEntry
  <2>4. \A g \in File : disk[g].mtime <= clock /\ ents[g].updated <= clock
    BY <1>2 DEF TimeInv
  <2>5. CASE n <= pos
    <3>1. f \notin Before(n)
      BY <1>1, <1>3, <2>5, StepFacts
    <3>2. \A g \in Before(n) : From(disk, ents, g, disk'[g], clock) /\ From(disk, ents, g, ents'[g], clock)
      BY <1>5, <1>6, <2>2, <3>1 DEF From
    <3>3. ASSUME n = pos
          PROVE  /\ MadeBy(disk', ents', n, f, ents'[f].content, ents'[f].cmdhash, ents'[f].updated)
                 /\ \/ disk'[f] = disk[f]
                    \/ \E v \in Command :
                          MadeBy(disk', ents', n, f, disk'[f].content, v, disk'[f].mtime)
      <4>1. \A t : Based(disk', ents', pos, Contents', t)
        BY <1>1, <1>7, BasedHere
      <4>2. Made(f) = Makes(pos, cmd[pos], Contents', f)
        BY <1>1, <1>8 DEF Made
      <4>3. \A t : MadeBy(disk', ents', pos, f, Made(f), cmd[pos], t)
        BY <4>1, <4>2 DEF MadeBy
      <4>4. MadeBy(disk', ents', n, f, ents'[f].content, ents'[f].cmdhash, ents'[f].updated)
        BY <1>4, <1>5, <3>3, <4>3
      <4>5. CASE disk'[f] = [content |-> Made(f), mtime |-> E.mtime]
        <5>1. disk'[f].content = Made(f)
          BY <4>5
        <5>2. MadeBy(disk', ents', n, f, disk'[f].content, cmd[pos], disk'[f].mtime)
          BY <3>3, <4>3, <5>1
        <5> QED BY <1>2, <4>4, <5>2
      <4> QED BY <1>6, <4>4, <4>5
    <3>4. f \in Outs(n) => n = pos
      BY <1>1, <1>3, StepFacts
    <3>5. \A g \in Outs(n) :
              \/ ents'[g] = ents[g]
              \/ MadeBy(disk', ents', n, g, ents'[g].content, ents'[g].cmdhash, ents'[g].updated)
      BY <1>5, <2>2, <3>3, <3>4
    <3>6. \A g \in Outs(n) :
              \/ disk'[g] = disk[g]
              \/ \E v \in Command : MadeBy(disk', ents', n, g, disk'[g].content, v, disk'[g].mtime)
      BY <1>6, <2>2, <3>3, <3>4
    <3> QED BY <1>2, <2>1, <2>2, <2>3, <2>4, <3>2, <3>5, <3>6, MadeKept
  <2>6. CASE ~(n <= pos)
    <3>1. \A g \in Outs(n) : g # f /\ disk'[g] = disk[g] /\ ents'[g] = ents[g]
      <4>1. n # pos
        BY <1>1, <2>6, OrderFacts
      <4> QED BY <1>1, <1>3, <1>5, <1>6, <2>2, <4>1, StepFacts
    <3>2. clock - 1 \in Nat
      BY <1>2
    <3>3. /\ \A g \in Outs(n) : ents[g].updated <= clock - 1 /\ disk[g].mtime <= clock - 1
          /\ deps[n].mtime <= clock - 1
      <4>1. n # pos /\ \A g \in Outs(n) : g \in File \ Outs(pos)
        BY <1>1, <2>2, <2>6, OrderFacts, StepFacts
      <4>2. /\ \A g \in Outs(n) : ents[g].updated < clock /\ disk[g].mtime < clock
            /\ deps[n].mtime < clock
        BY <1>1, <1>2, <4>1 DEF TimeInv
      <4> QED BY <1>2, <2>1, <2>2, <2>3, <4>2
    <3>4. From(disk, ents, f, disk'[f], clock - 1) /\ From(disk, ents, f, ents'[f], clock - 1)
      <4>1. From(disk, ents, f, ents'[f], clock - 1)
        BY <1>2, <1>4, <1>5 DEF From
      <4>2. CASE disk'[f] = disk[f]
        BY <4>1, <4>2 DEF From
      <4>3. CASE disk'[f] = [content |-> Made(f), mtime |-> E.mtime]
        <5>1. disk'[f].content = ents'[f].content /\ disk'[f].mtime = ents'[f].mtime
          BY <1>4, <1>5, <4>3
        <5> QED BY <4>1, <5>1 DEF From
      <4> QED BY <1>6, <4>1, <4>2, <4>3
    <3>5. \A g \in Before(n) : From(disk, ents, g, disk'[g], clock - 1) /\ From(disk, ents, g, ents'[g], clock - 1)
      <4>1. \A g \in File \ {f} : From(disk, ents, g, disk'[g], clock - 1) /\ From(disk, ents, g, ents'[g], clock - 1)
        BY <1>5, <1>6 DEF From
      <4> QED BY <2>2, <3>4, <4>1
    <3> QED BY <2>1, <2>2, <2>3, <3>1, <3>2, <3>3, <3>5, MadeKept
  <2> QED BY <2>5, <2>6
<1>14. AgreeInv'
  <2>1. \A g \in File : g # f => (Agree(g)' <=> Agree(g))
    BY <1>5, <1>6 DEF Agree
  <2> QED BY <1>1, <1>2, <1>3, <1>5, <2>1 DEF AgreeInv, In
<1>15. DoneInv'
  <2>1. ASSUME NEW n \in Index, n < pos PROVE Done(n)'
    <3>1. Before(n) \cup Outs(n) \subseteq Before(pos)
      BY <1>1, <2>1, StepFacts
    <3> QED BY <1>1, <1>2, <1>7, <2>1, <3>1, DoneKept DEF DoneInv
  <2> QED BY <1>1, <1>2, <2>1 DEF DoneInv
<1>16. RecordInv'
  <2>1. depfile' = Reads(pos, Contents')
    BY <1>1, <1>2, <1>7, BasedHere DEF RecordInv
  <2>2. \A g \in todo' : g \in File /\ g # f /\ g \in todo
    BY <1>1, <1>2, <1>3 DEF RecordInv
  <2>3. \A g \in todo' :
           IF Step.remote
           THEN result'[g] = Made(g) /\ (pre'[g] = ents'[g] \/ pre'[g].mtime = 0)
           ELSE disk'[g].mtime # 0 /\ disk'[g].content = Made(g)
    BY <1>1, <1>2, <1>5, <1>6, <2>2 DEF RecordInv
  <2>4. ASSUME NEW g \in Outs(pos) \ todo'
        PROVE  ents'[g].cmdhash = cmd[pos] /\ ents'[g].content = Made(g)
    BY <1>1, <1>2, <1>3, <1>4, <1>5, <2>4 DEF RecordInv
  <2>5. todo' \subseteq Outs(pos) /\ Step' = Step
    BY <1>1, <1>2 DEF RecordInv, Step
  <2> QED BY <1>1, <1>8, <2>1, <2>3, <2>4, <2>5 DEF RecordInv
<1> QED BY <1>10, <1>11, <1>12, <1>13, <1>14, <1>15, <1>16 DEF IInv

\* The deps are recorded, or cannot be: the outputs are all recorded.
LEMMA DepsKeeps ==
    ASSUME IInv, Recording, pc' = "flush",
           \/ deps' = deps
           \/ deps' = [deps EXCEPT ![pos] = [mtime |-> ents[Step.outs[1]].mtime, ins |-> depfile]],
           UNCHANGED <<clock, disk, cmd, ents, phase, pos, phony, depfile, todo>>
    PROVE  IInv'
<1>1. /\ phase = "build" /\ pc = "record" /\ pos \in Index /\ ~Steps[pos].phony /\ todo = {}
      /\ In("record")
  BY DEF Recording, In, IInv, TypeInv
<1>2. /\ TypeInv /\ KindInv /\ TimeInv /\ MadeInv /\ AgreeInv /\ DoneInv /\ RecordInv
      /\ clock \in Nat /\ cmd[pos] \in Command /\ cmd[pos] # 0
  BY <1>1, UpToDateAssumption DEF IInv, TypeInv
<1>3. Outs(pos) \subseteq File /\ Steps[pos].outs[1] \in Outs(pos)
  BY <1>1, OrderFacts
<1>4. \A f \in Outs(pos) : ents[f].cmdhash # 0
  BY <1>1, <1>2 DEF RecordInv
<1> DEFINE t == ents[Steps[pos].outs[1]].mtime
<1>5. t \in Nat /\ t # 0 /\ t <= clock
  BY <1>2, <1>3, <1>4 DEF TypeInv, IsEntry, TimeInv
<1> HIDE DEF t
<1>6. /\ DOMAIN deps' = Index
      /\ \A n \in Index : \/ deps'[n] = deps[n]
                          \/ /\ n = pos /\ deps'[n].mtime = t /\ deps'[n].ins = depfile
  BY <1>2, <1>3 DEF TypeInv, Step, t
<1>7. TypeInv' /\ KindInv'
  BY <1>1, <1>2, <1>5, <1>6 DEF TypeInv, KindInv
<1>8. TimeInv'
  BY <1>1, <1>2, <1>5, <1>6 DEF TimeInv, In
<1>9. MadeInv'
  <2>1. ASSUME NEW n \in Index, ~Steps[n].phony PROVE MadeOf(n)'
    <3>1. CASE deps'[n] = deps[n]
      BY <1>2, <2>1, <3>1 DEF MadeInv, MadeOf
    <3>2. CASE n = pos /\ deps'[n].mtime = t /\ deps'[n].ins = depfile
      <4>1. Based(disk', ents', pos, Contents', t)
        BY <1>1, BasedHere
      <4>2. depfile = Reads(pos, Contents')
        BY <1>1, <1>2 DEF RecordInv, Contents
      <4>3. ReadBy(disk', ents', n, deps'[n].ins, deps'[n].mtime)
        BY <3>2, <4>1, <4>2 DEF ReadBy
      <4> QED BY <1>2, <2>1, <4>3 DEF MadeInv, MadeOf
    <3> QED BY <1>6, <3>1, <3>2
  <2> QED BY <2>1 DEF MadeInv
<1>10. AgreeInv'
  BY <1>1, <1>2, <1>4 DEF AgreeInv, Agree, In
<1>11. DoneInv'
  <2>1. \A n \in Index : Fresh(n) => Fresh(n)'
    BY FreshKept
  <2> QED BY <1>1, <1>2, <2>1 DEF DoneInv, Done, FileTime, Restatted
<1>12. RecordInv'
  BY <1>1, <1>2 DEF RecordInv, Made, Contents
<1> QED BY <1>7, <1>8, <1>9, <1>10, <1>11, <1>12 DEF IInv

\* The outputs are flushed, and the step is done: it is fresh.
LEMMA FinishStepKeeps ==
    ASSUME IInv, FinishStep
    PROVE  IInv'
<1>1. /\ phase = "build" /\ pc = "flush" /\ pos \in Index /\ ~Steps[pos].phony
      /\ pos' = pos + 1 /\ pc' = "check" /\ disk' = Flushed(disk, Outs(pos))
      /\ UNCHANGED <<phase, cmd, clock, deps, phony, ents>>
  BY DEF FinishStep, In, NextStep, IInv, TypeInv
<1>2. /\ TypeInv /\ KindInv /\ TimeInv /\ MadeInv /\ AgreeInv /\ DoneInv /\ RecordInv
      /\ clock \in Nat /\ cmd[pos] \in Command /\ cmd[pos] # 0
  BY <1>1, UpToDateAssumption DEF IInv, TypeInv
<1>3. /\ pos' \in 1 .. (Len(Steps) + 1) /\ Outs(pos) \cap Before(pos) = {}
      /\ Before(pos') = Before(pos) \cup Outs(pos) /\ Before(pos) \subseteq File
      /\ Outs(pos) \subseteq File /\ Outs(pos) \cap Virtual = {} /\ Outs(pos) \cap Source = {}
  BY <1>1, StepFacts
<1>4. \A f \in Outs(pos) : ents[f].cmdhash = cmd[pos] /\ ents[f].content = Made(f)
  BY <1>1, <1>2 DEF RecordInv
<1>5. /\ DOMAIN disk' = File
      /\ \A g \in File \ Outs(pos) : disk'[g] = disk[g]
      /\ \A g \in Outs(pos) : /\ disk'[g] = [content |-> ents[g].content, mtime |-> ents[g].mtime]
                              /\ ents[g].cmdhash # 0
  BY <1>1, <1>2, <1>3, <1>4, FlushFacts
<1>6. ASSUME NEW g \in File
      PROVE  /\ disk[g].mtime \in Nat /\ disk[g].mtime <= clock
             /\ ents[g].mtime \in Nat /\ ents[g].mtime <= clock
             /\ ents[g].cmdhash # 0 => ents[g].mtime # 0
  BY <1>2 DEF TypeInv, IsEntry, IsFile, TimeInv
<1>7. ASSUME NEW g \in Outs(pos)
      PROVE  /\ disk'[g].content = ents[g].content /\ disk'[g].mtime = ents[g].mtime
             /\ IsFile(disk'[g])
  <2>1. disk'[g] = [content |-> ents[g].content, mtime |-> ents[g].mtime]
    BY <1>5
  <2>2. disk'[g].content = ents[g].content /\ disk'[g].mtime = ents[g].mtime
    BY <2>1
  <2>3. ents[g].mtime \in Nat
    BY <1>3, <1>6
  <2> QED BY <2>1, <2>2, <2>3 DEF IsFile
<1>8. TypeInv'
  <2>1. \A g \in File : IsFile(disk'[g])
    BY <1>2, <1>5, <1>7 DEF TypeInv
  <2> QED BY <1>1, <1>2, <1>3, <1>5, <2>1 DEF TypeInv
<1>9. KindInv'
  <2>1. \A g \in Source \cup Virtual : disk'[g] = disk[g]
    BY <1>3, <1>5, KindFacts
  <2> QED BY <1>1, <1>2, <2>1 DEF KindInv
<1>10. TimeInv'
  <2>1. \A g \in File : disk'[g].mtime <= clock
    BY <1>3, <1>5, <1>6, <1>7
  <2> QED BY <1>1, <1>2, <2>1 DEF TimeInv, In
<1>11. MadeInv'
  <2>1. \A g \in File : From(disk, ents, g, disk'[g], clock) /\ From(disk, ents, g, ents'[g], clock)
    BY <1>1, <1>5, <1>7 DEF From
  <2>2. \A g \in File : \/ disk'[g] = disk[g]
                        \/ /\ disk'[g].content = ents[g].content /\ disk'[g].mtime = ents[g].mtime
                           /\ ents[g].cmdhash # 0
    BY <1>5, <1>7
  <2> QED BY <1>1, <1>2, <1>8, <2>1, <2>2, QuietMade
<1>12. AgreeInv'
  <2> SUFFICES ASSUME NEW f \in File, ents'[f].mtime # 0,
                      f \in Before(pos') \/ ents'[f].cmdhash = 0
               PROVE  Agree(f)'
    BY <1>1 DEF AgreeInv, In
  <2>1. CASE f \in Outs(pos)
    BY <1>1, <1>7, <2>1 DEF Agree
  <2>2. CASE f \notin Outs(pos)
    <3>1. Agree(f)
      BY <1>1, <1>2, <1>3, <2>2 DEF AgreeInv
    <3> QED BY <1>1, <1>5, <2>2, <3>1 DEF Agree
  <2> QED BY <2>1, <2>2
<1>13. DoneInv'
  <2>0. \A g \in Before(pos) : disk'[g] = disk[g]
    BY <1>3, <1>5
  <2>1. ASSUME NEW n \in Index, n < pos PROVE Done(n)'
    <3>1. Before(n) \cup Outs(n) \subseteq Before(pos)
      BY <1>1, <2>1, StepFacts
    <3> QED BY <1>1, <1>2, <2>0, <2>1, <3>1, DoneKept DEF DoneInv
  <2>2. ASSUME NEW n \in Index, n = pos PROVE Done(n)'
    <3>1. \A f : Good(n, f)' = Good(n, f)
      BY <1>1, <2>0, <2>2, MakesKept
    <3>2. \A f \in Outs(n) : Made(f) \in Good(n, f)
      BY <1>2, <2>2 DEF Good, Made
    <3>3. Fresh(n)'
      BY <1>4, <1>7, <2>2, <3>1, <3>2 DEF Fresh
    <3>4. \A f \in Outs(n) : disk'[f].mtime # 0
      BY <1>3, <1>5, <1>6, <1>7, <2>2
    <3> QED BY <1>1, <2>2, <3>3, <3>4 DEF Done
  <2>3. \A n \in Index : n < pos' => n < pos \/ n = pos
    BY <1>1, OrderFacts
  <2> QED BY <1>1, <1>2, <2>1, <2>2, <2>3 DEF DoneInv
<1>14. RecordInv'
  BY <1>1 DEF RecordInv
<1> QED BY <1>8, <1>9, <1>10, <1>11, <1>12, <1>13, <1>14 DEF IInv

\* Every step was gone past: the build succeeds.
LEMMA BuildSucceedsKeeps ==
    ASSUME IInv, BuildSucceeds
    PROVE  IInv'
<1>1. /\ phase = "build" /\ pos = Len(Steps) + 1 /\ phase' = "ok"
      /\ UNCHANGED <<clock, disk, cmd, ents, deps, pos, pc, phony>>
  BY DEF BuildSucceeds, In, userVars, stepVars
<1>2. TypeInv /\ KindInv /\ TimeInv /\ MadeInv /\ DoneInv
  BY DEF IInv
<1>3. TypeInv' /\ KindInv' /\ TimeInv'
  BY <1>1, <1>2 DEF TypeInv, KindInv, TimeInv, In
<1>4. MadeInv'
  BY <1>1, <1>2 DEF MadeInv, MadeOf
<1>5. AgreeInv' /\ RecordInv'
  BY <1>1 DEF AgreeInv, RecordInv, In
<1>6. DoneInv'
  <2>1. \A n \in Index : n < pos
    BY <1>1, OrderFacts
  <2>2. \A n \in Index : Steps[n].phony \/ Restatted(n) \/ Fresh(n)
    BY <1>1, <1>2, <2>1 DEF DoneInv, Done
  <2>3. \A n \in Index : Fresh(n) => Fresh(n)'
    BY <1>1, FreshKept
  <2> QED BY <1>1, <2>2, <2>3 DEF DoneInv, Restatted
<1> QED BY <1>3, <1>4, <1>5, <1>6 DEF IInv

\* Nothing happens.
LEMMA StutterKeeps ==
    ASSUME IInv, UNCHANGED vars
    PROVE  IInv'
<1>1. UNCHANGED <<clock, disk, cmd, ents, deps, phase, pos, pc, phony, pre, result, depfile, todo>>
  BY DEF vars
<1>2. TypeInv' /\ KindInv' /\ TimeInv'
  BY <1>1 DEF IInv, TypeInv, KindInv, TimeInv, In
<1>3. MadeInv'
  BY <1>1 DEF IInv, MadeInv, MadeOf
<1>4. AgreeInv'
  BY <1>1 DEF IInv, AgreeInv, Agree, In
<1>5. DoneInv'
  <2>1. \A n \in Index : Fresh(n) => Fresh(n)'
    BY <1>1, FreshKept
  <2> QED BY <1>1, <2>1 DEF IInv, DoneInv, Done, FileTime, Restatted
<1>6. RecordInv'
  BY <1>1 DEF IInv, RecordInv, Made, Contents, Step
<1> QED BY <1>2, <1>3, <1>4, <1>5, <1>6 DEF IInv

\* The invariant is inductive.
LEMMA NextKeeps ==
    ASSUME IInv, [Next]_vars
    PROVE  IInv'
<1>0. cmd \in [Index -> Command]
  BY DEF IInv, TypeInv
<1>1. ASSUME NEW f \in File, NEW c \in Content, Edit(f, c) PROVE IInv'
  BY <1>1, EditKeeps
<1>2. ASSUME NEW f \in File, Delete(f) PROVE IInv'
  BY <1>2, DeleteKeeps
<1>3. ASSUME NEW n \in Index, NEW v \in Command, ChangeCommand(n, v) PROVE IInv'
  <2>1. /\ phase' = "idle" /\ cmd' \in [Index -> Command]
        /\ UNCHANGED <<clock, disk, ents, deps, pos, pc, phony>>
    <3>1. cmd' = [cmd EXCEPT ![n] = v]
      BY <1>3 DEF ChangeCommand
    <3> QED BY <1>0, <1>3, <3>1 DEF ChangeCommand, stepVars
  <2> QED BY <2>1, IdleKeeps
<1>4. ASSUME NEW fs \in SUBSET {f \in File : Reconcilable(f)}, StartBuild(fs) PROVE IInv'
  BY <1>4, StartBuildKeeps
<1>5. CASE CheckPhony \/ SkipStep
  BY <1>5, CheckPhonyKeeps, SkipStepKeeps
<1>6. CASE NeedToRun \/ FlushFails
  BY <1>6, ToRunKeeps DEF NeedToRun, FlushFails, userVars
<1>7. CASE RunLocal
  BY <1>7, RunLocalKeeps
<1>8. ASSUME NEW cached \in BOOLEAN, RunRemote(cached) PROVE IInv'
  BY <1>8, RunRemoteKeeps
<1>9. ASSUME NEW f \in todo, RecordOutput(f) PROVE IInv'
  BY <1>9, RecordOutputKeeps
<1>10. CASE UpdateDeps \/ DepsNotRecorded
  <2>1. /\ Recording /\ pc' = "flush"
        /\ UNCHANGED <<clock, disk, cmd, ents, phase, pos, phony, depfile, todo>>
    BY <1>10 DEF UpdateDeps, DepsNotRecorded, userVars
  <2>2. \/ deps' = deps
        \/ deps' = [deps EXCEPT ![pos] = [mtime |-> ents[Step.outs[1]].mtime, ins |-> depfile]]
    BY <1>10 DEF UpdateDeps, DepsNotRecorded
  <2> QED BY <2>1, <2>2, DepsKeeps
<1>11. CASE FinishStep \/ BuildSucceeds
  BY <1>11, FinishStepKeeps, BuildSucceedsKeeps
<1>12. CASE Stop
  BY <1>0, <1>12, IdleKeeps DEF Stop, userVars, stepVars
<1>13. ASSUME NEW fs \in SUBSET Outs(pos), CommandFails(fs) PROVE IInv'
  BY <1>13, CommandFailsKeeps
<1>14. CASE Finished \/ UNCHANGED vars
  BY <1>14, StutterKeeps DEF Finished
<1> QED BY <1>1, <1>2, <1>3, <1>4, <1>5, <1>6, <1>7, <1>8, <1>9, <1>10, <1>11, <1>12, <1>13,
           <1>14 DEF Next

\* The invariant holds in every state of every behaviour.
LEMMA Invariance == Spec => []IInv
<1>1. IInv /\ [Next]_vars => IInv'
  BY NextKeeps
<1> QED BY <1>1, InitInv, PTL DEF Spec

-----------------------------------------------------------------------------
(* What a successful build means *)

\* After a build that succeeded every output on the disk is what its command makes of
\* the inputs that are there, whatever was edited, deleted or changed before and
\* however earlier builds ended (needToRun, checkUpToDate, updateDeps).  A step
\* with both deps=gcc and restat is left out, see Restatted.
FreshUnlessRestatted ==
    phase = "ok" => \A n \in Index : Steps[n].phony \/ Restatted(n) \/ Fresh(n)

THEOREM SuccessMeansFreshUnlessRestatted == Spec => []FreshUnlessRestatted
<1>1. IInv => FreshUnlessRestatted
  BY DEF IInv, DoneInv, FreshUnlessRestatted
<1> QED BY <1>1, Invariance, PTL

\* So if no step has both, needToRun never skips what is out of date.
THEOREM SuccessMeansFreshThm ==
    ASSUME \A n \in Index : ~Restatted(n)
    PROVE  Spec => []SuccessMeansFresh
<1>1. IInv => SuccessMeansFresh
  BY DEF IInv, DoneInv, SuccessMeansFresh
<1> QED BY <1>1, Invariance, PTL

-----------------------------------------------------------------------------
(* Why a step is run: as long as nothing has failed, hashfs and deps log are *)
(* what the last successful run of each step left.                           *)

\* The step that is run now.
Busy(n) == phase = "build" /\ n = pos /\ pc \in {"record", "flush"}

\* The time an entry counts with.
Counted(n, f) == IF Steps[n].restat = "mtime" THEN ents[f].updated ELSE ents[f].mtime

\* The outputs that are there were made by the command the step was last run with, and
\* are not older than what it read; the deps log has what it read.
SeenOf(n) ==
    /\ \A f \in Outs(n) : ents[f].cmdhash # 0 =>
          /\ ents[f].cmdhash = seen[n].cmd
          /\ Steps[n].restat # "content" =>
                \A g \in DOMAIN seen[n].in : seen[n].in[g][2] <= Counted(n, f)
    /\ Steps[n].gcc =>
          /\ deps[n].mtime # 0 /\ deps[n].ins = DOMAIN seen[n].in
          /\ LET out == Steps[n].outs[1]
             IN ents[out].cmdhash # 0 => ents[out].mtime <= deps[n].mtime

SeenInv == \A n \in Index : ~Steps[n].phony /\ ~Busy(n) /\ seen[n].cmd # 0 => SeenOf(n)

\* What steps have read is in the past.
PastInv ==
    \A n \in Index : \A g \in DOMAIN seen[n].in :
       /\ seen[n].in[g][2] \in Nat /\ seen[n].in[g][2] <= clock
       /\ In("record") => seen[n].in[g][2] < clock /\ (~Step.remote => seen[n].in[g][2] + 1 < clock)

\* An output that is there has the mtime hashfs knows.
SameInv ==
    \A f \in File :
       ents[f].cmdhash # 0 /\ disk[f].mtime # 0 /\ ~(\E n \in Index : Busy(n) /\ f \in Outs(n))
       => ents[f].mtime = disk[f].mtime

\* What was changed in this build is newer than what the steps to come have read.
ChangedInv ==
    phase = "build" =>
       \A f \in File : ents[f].changed =>
          \A n \in Index : pos <= n /\ f \in DOMAIN seen[n].in => seen[n].in[f][2] < ents[f].mtime

\* A phony is dirty because of a file behind it, and has the time of one.
PhonyOf(m) ==
    \A p \in Outs(m) :
       /\ phony[p].dirty => \E g \in Inputs[m] : ents[g].changed
       /\ phony[p].mtime = 0 \/ \E g \in Inputs[m] : phony[p].mtime = disk[g].mtime

PhonyInv == phase = "build" => \A m \in Index : Steps[m].phony /\ m < pos => PhonyOf(m)

\* The step that is run: a restat command has left an output alone or written it just
\* now; what is recorded counts with the time of recording.
RunInv ==
    /\ In("record") /\ ~Step.remote /\ Step.restat = "mtime" =>
          \A f \in todo : disk[f].mtime = pre[f].mtime \/ disk[f].mtime + 1 = clock
    /\ In("record") \/ In("flush") =>
          \A f \in Outs(pos) \ todo : Step.restat # "content" => Counted(pos, f) = clock
    /\ In("flush") /\ Step.gcc =>
          deps[pos].ins = Reads(pos, Contents) /\ deps[pos].mtime = ents[Step.outs[1]].mtime

Why == SeenInv /\ PastInv /\ SameInv /\ ChangedInv /\ PhonyInv /\ RunInv

NInv ==
    /\ faults \in Nat /\ DOMAIN seen = Index
    /\ faults = 0 => Why /\ RunsOnlyIfNeeded

\* What is known of the last run of a step stays true if its outputs stay as they are,
\* or are forgotten.
LEMMA SeenOfKept ==
    ASSUME NEW n \in Index, SeenOf(n), seen'[n] = seen[n], deps'[n] = deps[n],
           \A f \in Outs(n) : ents'[f].cmdhash # 0 =>
              /\ ents'[f].cmdhash = ents[f].cmdhash
              /\ ents'[f].mtime = ents[f].mtime /\ ents'[f].updated = ents[f].updated
    PROVE  SeenOf(n)'
<1>1. Steps[n].outs[1] \in Outs(n)
  BY OrderFacts
<1> QED BY <1>1 DEF SeenOf, Counted

\* The same for all steps.
LEMMA SeenKept ==
    ASSUME Why, seen' = seen, deps' = deps, \A n \in Index : Busy(n) => Busy(n)',
           \A f \in File : ents'[f].cmdhash # 0 =>
              /\ ents'[f].cmdhash = ents[f].cmdhash
              /\ ents'[f].mtime = ents[f].mtime /\ ents'[f].updated = ents[f].updated
    PROVE  SeenInv'
<1> SUFFICES ASSUME NEW n \in Index, ~Steps[n].phony, ~Busy(n)', seen[n].cmd # 0
             PROVE  SeenOf(n)'
  BY DEF SeenInv
<1>1. SeenOf(n) /\ Outs(n) \subseteq File
  BY OrderFacts DEF Why, SeenInv
<1> QED BY <1>1, SeenOfKept

\* No step is being run before or afterwards: files may be edited or deleted.
LEMMA IdleWhy ==
    ASSUME TypeInv, Why, \A n \in Index : ~Busy(n), phase' # "build",
           UNCHANGED <<ents, deps, seen>>, clock' \in Nat, clock <= clock',
           \A f \in File : disk'[f] = disk[f] \/ disk'[f].mtime = 0 \/ ents[f].cmdhash = 0
    PROVE  Why'
<1>1. SeenInv'
  BY SeenKept
<1>2. PastInv'
  <2>1. \A n \in Index : \A g \in DOMAIN seen[n].in :
           seen[n].in[g][2] \in Nat /\ seen[n].in[g][2] <= clock
    BY DEF Why, PastInv
  <2> QED BY <2>1 DEF PastInv, In, TypeInv
<1>3. SameInv'
  BY DEF Why, SameInv
<1>4. ChangedInv' /\ PhonyInv' /\ RunInv'
  BY DEF ChangedInv, PhonyInv, RunInv, In
<1> QED BY <1>1, <1>2, <1>3, <1>4 DEF Why

\* A new process reads what siso remembers, and takes nothing for changed.
LEMMA StartBuildWhy ==
    ASSUME IInv, Why, NEW fs \in SUBSET {f \in File : Reconcilable(f)}, StartBuild(fs)
    PROVE  Why'
<1>1. /\ phase # "build" /\ phase' = "build" /\ pos' = 1 /\ pc' = "check"
      /\ UNCHANGED <<clock, deps, seen>> /\ TypeInv
      /\ ents' = [f \in File |-> Reloaded(f, fs)]
      /\ disk' = [f \in File |-> IF f \in fs THEN [disk[f] EXCEPT !.mtime = ents[f].mtime]
                                            ELSE disk[f]]
  BY DEF StartBuild, IInv
<1>2. \A n \in Index : ~Busy(n) /\ ~Busy(n)'
  BY <1>1 DEF Busy
<1>3. ASSUME NEW f \in File
      PROVE  /\ ents'[f].changed = FALSE
             /\ ents'[f].cmdhash # 0 =>
                   /\ ents'[f].cmdhash = ents[f].cmdhash
                   /\ ents'[f].mtime = ents[f].mtime /\ ents'[f].updated = ents[f].updated
  <2>1. IsEntry(ents[f])
    BY <1>1 DEF TypeInv
  <2>2. ents'[f] = NoEntry \/ ents'[f] = [ents[f] EXCEPT !.changed = FALSE]
    BY <1>1 DEF Reloaded
  <2>3. CASE ents'[f] = NoEntry
    BY <2>3 DEF NoEntry
  <2>4. CASE ents'[f] = [ents[f] EXCEPT !.changed = FALSE]
    BY <2>1, <2>4 DEF IsEntry
  <2> QED BY <2>2, <2>3, <2>4
<1>4. SeenInv'
  BY <1>1, <1>2, <1>3, SeenKept
<1>5. PastInv'
  BY <1>1 DEF Why, PastInv, In
<1>6. SameInv'
  <2> SUFFICES ASSUME NEW f \in File, ents'[f].cmdhash # 0, disk'[f].mtime # 0
               PROVE  ents'[f].mtime = disk'[f].mtime
    BY DEF SameInv
  <2>1. CASE f \in fs
    <3>1. disk'[f] = [disk[f] EXCEPT !.mtime = ents[f].mtime] /\ IsFile(disk[f])
      BY <1>1, <2>1 DEF TypeInv
    <3> QED BY <1>3, <3>1 DEF IsFile
  <2>2. CASE f \notin fs
    BY <1>1, <1>2, <1>3, <2>2 DEF Why, SameInv
  <2> QED BY <2>1, <2>2
<1>7. ChangedInv' /\ RunInv'
  BY <1>1, <1>3 DEF ChangedInv, RunInv, In
<1>8. PhonyInv'
  BY <1>1, OrderFacts DEF PhonyInv
<1> QED BY <1>4, <1>5, <1>6, <1>7, <1>8 DEF Why

\* The parts that looking at files keeps whatever else is done.
LEMMA LookWhy ==
    ASSUME IInv, Why, NEW fs, ents' = StatAll(fs), phase = "build", pc = "check",
           UNCHANGED <<clock, deps, seen>>, pc' \in {"check", "run"}, pos' \in Nat, pos <= pos'
    PROVE  SeenInv' /\ PastInv' /\ ChangedInv' /\ RunInv'
<1>1. TypeInv /\ (\A n \in Index : ~Busy(n)) /\ pos \in Nat /\ \A n \in Index : n \in Nat
  BY OrderFacts DEF IInv, TypeInv, Busy
<1>2. ASSUME NEW f \in File
      PROVE  /\ ents'[f].cmdhash # 0 \/ ents'[f].changed => ents'[f] = ents[f]
             /\ IsEntry(ents'[f])
  BY <1>1, Looks
<1>3. SeenInv'
  BY <1>1, <1>2, SeenKept
<1>4. PastInv'
  BY DEF Why, PastInv, In
<1>5. ChangedInv'
  <2> SUFFICES ASSUME NEW f \in File, ents'[f].changed,
                      NEW n \in Index, pos' <= n, f \in DOMAIN seen[n].in
               PROVE  seen[n].in[f][2] < ents'[f].mtime
    BY DEF ChangedInv
  <2>1. ents'[f] = ents[f]
    BY <1>2
  <2>2. pos <= n
    BY <1>1
  <2> QED BY <2>1, <2>2 DEF Why, ChangedInv
<1> QED BY <1>3, <1>4, <1>5 DEF RunInv, In

\* What is behind a phony is behind every step that has it for an input.
LEMMA InputsBehind ==
    ASSUME NEW n \in Index, NEW f \in Steps[n].ins
    PROVE  /\ f \notin Virtual => f \in Inputs[n]
           /\ \A m \in Index : Steps[m].phony /\ f \in Outs(m) => Inputs[m] \subseteq Inputs[n]
<1>1. f \in File
  BY OrderFacts
<1>2. f \notin Virtual => f \in Inputs[n]
  BY <1>1 DEF Inputs, Behind
<1>3. ASSUME NEW m \in Index, Steps[m].phony, f \in Outs(m)
      PROVE  Inputs[m] \subseteq Inputs[n]
  <2>1. \A fs \in SUBSET File : Behind(n, fs) => Behind(m, fs)
    BY <1>3 DEF Behind
  <2> QED BY <2>1 DEF Inputs
<1> QED BY <1>2, <1>3

\* Why an input of the step the build is at is dirty, and which time it has.
LEMMA InputReason ==
    ASSUME IInv, Why, phase = "build", pos \in Index, NEW f \in Steps[pos].ins
    PROVE  /\ Dirty(f) => \E g \in Inputs[pos] : ents[g].changed
           /\ FileTime(f) = 0 \/ \E g \in Inputs[pos] : FileTime(f) = disk[g].mtime
<1>1. TypeInv /\ f \in Before(pos) /\ f \in File
  BY OrderFacts DEF IInv
<1>2. f \in Virtual <=> phony[f].set
  BY <1>1, StatBefore
<1>3. CASE f \in Virtual
  <2>1. PICK m \in Index : m < pos /\ f \in Outs(m)
    BY <1>1, <1>3, KindFacts, OrderFacts
  <2>2. Steps[m].phony
    BY <1>3, <2>1, KindFacts, OrderFacts
  <2>3. PhonyOf(m) /\ Inputs[m] \subseteq Inputs[pos]
    BY <2>1, <2>2, InputsBehind DEF Why, PhonyInv
  <2> QED BY <1>2, <1>3, <2>1, <2>3 DEF PhonyOf, Dirty, FileTime
<1>4. CASE f \notin Virtual
  <2>1. f \in Inputs[pos]
    BY <1>4, InputsBehind
  <2>2. Stat(f).changed => ents[f].changed
    BY <1>1, StatFacts
  <2> QED BY <1>2, <1>4, <2>1, <2>2 DEF Dirty, FileTime
<1> QED BY <1>3, <1>4

\* What is known of a phony stays true as long as what is behind it does.
LEMMA PhonyKept ==
    ASSUME IInv, Why, phase = "build", NEW m \in Index, Steps[m].phony, m < pos,
           \A p \in Outs(m) : phony'[p] = phony[p],
           \A g \in Before(pos) : /\ disk'[g].mtime = disk[g].mtime
                                  /\ ents[g].changed => ents'[g].changed
    PROVE  PhonyOf(m)'
<1>1. PhonyOf(m) /\ pos \in 1 .. (Len(Steps) + 1)
  BY DEF Why, PhonyInv, IInv, TypeInv
<1>2. Inputs[m] \subseteq Before(pos)
  BY <1>1, InputsBefore, OrderFacts
<1> QED BY <1>1, <1>2 DEF PhonyOf

\* Looking at a file forgets no change.
LEMMA LookChanged ==
    ASSUME TypeInv, NEW fs, ents' = StatAll(fs), NEW g \in File, ents[g].changed
    PROVE  ents'[g].changed
<1>1. IsEntry(ents[g])
  BY DEF TypeInv
<1> QED BY <1>1, Looks DEF IsEntry

\* A phony is checked.
LEMMA CheckPhonyWhy ==
    ASSUME IInv, Why, CheckPhony
    PROVE  Why'
<1>1. /\ phase = "build" /\ pc = "check" /\ pos \in Index /\ Steps[pos].phony
      /\ ents' = StatAll(Step.ins) /\ pos' = pos + 1 /\ pc' = "check"
      /\ UNCHANGED <<phase, disk, clock, deps, seen>>
      /\ phony' = [f \in File |-> IF f \in Outs(pos)
                      THEN [dirty |-> \E g \in Step.ins : Dirty(g),
                            mtime |-> NewestInput(pos), set |-> TRUE]
                      ELSE phony[f]]
  BY DEF CheckPhony, Checking, Step, NextStep, userVars
<1>2. /\ TypeInv /\ pos \in 1 .. (Len(Steps) + 1) /\ pos' \in Nat /\ pos <= pos'
      /\ Before(pos) \subseteq File /\ Outs(pos) \subseteq File
  BY <1>1, OrderFacts DEF IInv, TypeInv
<1>3. SeenInv' /\ PastInv' /\ ChangedInv' /\ RunInv'
  BY <1>1, <1>2, LookWhy
<1>4. SameInv'
  <2> SUFFICES ASSUME NEW f \in File, ents'[f].cmdhash # 0, disk[f].mtime # 0
               PROVE  ents'[f].mtime = disk[f].mtime
    BY <1>1 DEF SameInv
  <2>1. ents'[f] = ents[f]
    BY <1>1, <1>2, Looks
  <2>2. \A n \in Index : ~Busy(n)
    BY <1>1 DEF Busy
  <2> QED BY <2>1, <2>2 DEF Why, SameInv
<1>5. ASSUME NEW m \in Index, Steps[m].phony, m < pos PROVE PhonyOf(m)'
  <2>1. \A p \in Outs(m) : phony'[p] = phony[p]
    <3>1. Outs(m) \subseteq File /\ m # pos
      BY <1>1, <1>5, OrderFacts
    <3>2. Outs(m) \cap Outs(pos) = {}
      BY <1>1, <3>1, UpToDateAssumption
    <3> QED BY <1>1, <3>1, <3>2
  <2>2. \A g \in Before(pos) : ents[g].changed => ents'[g].changed
    BY <1>1, <1>2, LookChanged
  <2> QED BY <1>1, <1>5, <2>1, <2>2, PhonyKept
<1>6. ASSUME NEW m \in Index, m = pos PROVE PhonyOf(m)'
  <2>1. CheckedInputs(pos) = Steps[pos].ins
    BY <1>1 DEF CheckedInputs, DepInputs, IInv, KindInv
  <2>2. \/ NewestInput(pos) = 0
        \/ \E g \in Steps[pos].ins : NewestInput(pos) = FileTime(g)
    BY <1>1, <2>1, CheckedBefore, NewestFacts
  <2>3. NewestInput(pos) = 0 \/ \E g \in Inputs[pos] : NewestInput(pos) = disk[g].mtime
    BY <1>1, <2>2, InputReason
  <2>4. (\E g \in Steps[pos].ins : Dirty(g)) => \E g \in Inputs[pos] : ents[g].changed
    BY <1>1, InputReason
  <2>5. \A g \in Inputs[pos] : ents[g].changed => ents'[g].changed
    BY <1>1, <1>2, InputsBefore, LookChanged
  <2>6. \A p \in Outs(m) : /\ phony'[p].dirty <=> \E g \in Steps[pos].ins : Dirty(g)
                           /\ phony'[p].mtime = NewestInput(pos)
    BY <1>1, <1>2, <1>6 DEF Step
  <2> QED BY <1>1, <1>6, <2>3, <2>4, <2>5, <2>6 DEF PhonyOf
<1>7. PhonyInv'
  <2>1. \A n \in Index : n < pos' => n < pos \/ n = pos
    BY <1>1, OrderFacts
  <2> QED BY <1>5, <1>6, <2>1 DEF PhonyInv
<1> QED BY <1>3, <1>4, <1>7 DEF Why

\* A step that is up to date is skipped.
LEMMA SkipStepWhy ==
    ASSUME IInv, Why, SkipStep
    PROVE  Why'
<1>1. /\ phase = "build" /\ pc = "check" /\ pos \in Index /\ ~Steps[pos].phony
      /\ ents' = StatAll(Looked(pos)) /\ pos' = pos + 1 /\ pc' = "check"
      /\ disk' = Flushed(disk, Outs(pos))
      /\ UNCHANGED <<phase, clock, deps, phony, seen>>
  BY DEF SkipStep, Checking, Step, NextStep
<1>2. /\ TypeInv /\ pos \in 1 .. (Len(Steps) + 1) /\ pos' \in Nat /\ pos <= pos'
      /\ Before(pos) \subseteq File /\ Outs(pos) \cap Before(pos) = {}
  BY <1>1, OrderFacts DEF IInv, TypeInv
<1>3. SeenInv' /\ PastInv' /\ ChangedInv' /\ RunInv'
  BY <1>1, <1>2, LookWhy
<1>4. \A g \in File :
         \/ disk'[g] = disk[g] /\ (g \notin Outs(pos) \/ ents[g].cmdhash = 0)
         \/ /\ disk'[g] = [content |-> ents[g].content, mtime |-> ents[g].mtime]
            /\ ents[g].cmdhash # 0 /\ g \in Outs(pos)
  BY <1>1, <1>2, FlushFacts
<1>5. SameInv'
  <2> SUFFICES ASSUME NEW f \in File, ents'[f].cmdhash # 0, disk'[f].mtime # 0
               PROVE  ents'[f].mtime = disk'[f].mtime
    BY <1>1 DEF SameInv
  <2>1. ents'[f] = ents[f]
    BY <1>1, <1>2, Looks
  <2>2. \A n \in Index : ~Busy(n)
    BY <1>1 DEF Busy
  <2>3. CASE disk'[f] = disk[f]
    BY <2>1, <2>2, <2>3 DEF Why, SameInv
  <2>4. CASE disk'[f] = [content |-> ents[f].content, mtime |-> ents[f].mtime]
    BY <2>1, <2>4
  <2> QED BY <1>4, <2>3, <2>4
<1>6. PhonyInv'
  <2> SUFFICES ASSUME NEW m \in Index, Steps[m].phony, m < pos' PROVE PhonyOf(m)'
    BY DEF PhonyInv
  <2>1. m < pos
    BY <1>1, OrderFacts
  <2>2. \A g \in Before(pos) : disk'[g] = disk[g] /\ (ents[g].changed => ents'[g].changed)
    BY <1>1, <1>2, <1>4, LookChanged
  <2> QED BY <1>1, <2>1, <2>2, PhonyKept
<1> QED BY <1>3, <1>5, <1>6 DEF Why

\* A step is to be run.
LEMMA NeedToRunWhy ==
    ASSUME IInv, Why, NeedToRun
    PROVE  Why'
<1>1. /\ phase = "build" /\ pc = "check" /\ pos \in Index
      /\ ents' = StatAll(Looked(pos)) /\ pc' = "run"
      /\ UNCHANGED <<phase, pos, disk, clock, deps, phony, seen>>
  BY DEF NeedToRun, Checking, userVars
<1>2. /\ TypeInv /\ pos \in 1 .. (Len(Steps) + 1) /\ pos' \in Nat /\ pos <= pos'
      /\ Before(pos) \subseteq File
  BY <1>1, OrderFacts DEF IInv, TypeInv
<1>3. SeenInv' /\ PastInv' /\ ChangedInv' /\ RunInv'
  BY <1>1, <1>2, LookWhy
<1>4. SameInv'
  <2> SUFFICES ASSUME NEW f \in File, ents'[f].cmdhash # 0, disk[f].mtime # 0
               PROVE  ents'[f].mtime = disk[f].mtime
    BY <1>1 DEF SameInv
  <2>1. ents'[f] = ents[f]
    BY <1>1, <1>2, Looks
  <2>2. \A n \in Index : ~Busy(n)
    BY <1>1 DEF Busy
  <2> QED BY <2>1, <2>2 DEF Why, SameInv
<1>5. PhonyInv'
  <2> SUFFICES ASSUME NEW m \in Index, Steps[m].phony, m < pos PROVE PhonyOf(m)'
    BY <1>1 DEF PhonyInv
  <2>1. \A g \in Before(pos) : ents[g].changed => ents'[g].changed
    BY <1>1, <1>2, LookChanged
  <2> QED BY <1>1, <2>1, PhonyKept
<1> QED BY <1>3, <1>4, <1>5 DEF Why

\* The check is complete: a step that was run on what there is now, with the command it
\* has now, and whose outputs are there as it left them, is up to date.
LEMMA NoReason ==
    ASSUME IInv, Why, Checking, ~Step.phony, Step.restat # "content",
           seen[pos] = View(pos), \A f \in Outs(pos) : ents[f].cmdhash # 0
    PROVE  CheckUpToDate(pos)
<1>1. /\ TypeInv /\ AgreeInv /\ phase = "build" /\ pc = "check" /\ pos \in Index
      /\ ~Steps[pos].phony /\ cmd[pos] \in Command /\ cmd[pos] # 0
      /\ pos \in 1 .. (Len(Steps) + 1) /\ pos <= pos
      /\ Before(pos) \subseteq File /\ Outs(pos) \subseteq File
  BY OrderFacts, UpToDateAssumption DEF IInv, TypeInv, Checking, Step
<1> DEFINE R == Reads(pos, Contents)
<1>2. /\ seen[pos].cmd = cmd[pos] /\ DOMAIN seen[pos].in = R
      /\ \A g \in R : seen[pos].in[g][2] = disk[g].mtime
  BY DEF View
<1>3. R \subseteq Before(pos) \ Virtual /\ Inputs[pos] \subseteq R
  BY <1>1, ReadsBefore, ReadsClosed DEF Reads, Included
<1> HIDE DEF R
<1>4. SeenOf(pos)
  BY <1>1, <1>2 DEF Why, SeenInv, Busy
<1>5. ASSUME NEW f \in Outs(pos)
      PROVE  /\ Stat(f) = ents[f] /\ Exists(f) /\ Stat(f).cmdhash = cmd[pos]
             /\ OutTime(pos, f) \in Nat /\ \A g \in R : disk[g].mtime <= OutTime(pos, f)
  <2>1. IsEntry(ents[f]) /\ f \in File
    BY <1>1 DEF TypeInv
  <2>2. Stat(f) = ents[f] /\ ents[f].mtime # 0
    BY <1>1, <2>1, StatFacts DEF IsEntry
  <2>3. OutTime(pos, f) = Counted(pos, f) /\ OutTime(pos, f) \in Nat
    BY <2>1, <2>2 DEF OutTime, Counted, IsEntry
  <2>4. /\ ents[f].cmdhash = cmd[pos]
        /\ \A g \in R : disk[g].mtime <= Counted(pos, f)
    BY <1>2, <1>4 DEF SeenOf, Step
  <2> QED BY <2>2, <2>3, <2>4 DEF Exists
<1>6. ASSUME NEW g \in R, ents[g].changed PROVE FALSE
  <2>1. g \in Before(pos) /\ g \in File
    BY <1>1, <1>3
  <2>2. IsEntry(ents[g])
    BY <1>1, <2>1 DEF TypeInv
  <2>3. ents[g].mtime # 0 /\ ents[g].mtime \in Nat
    BY <1>6, <2>2 DEF IsEntry
  <2>4. ents[g].mtime = disk[g].mtime
    BY <1>1, <2>1, <2>3 DEF AgreeInv, Agree
  <2>5. seen[pos].in[g][2] < ents[g].mtime
    BY <1>1, <1>2, <1>6, <2>1 DEF Why, ChangedInv
  <2> QED BY <1>2, <2>3, <2>4, <2>5
<1>7. ASSUME NEW f \in CheckedInputs(pos)
      PROVE  /\ ~Dirty(f) /\ ~Missing(f)
             /\ FileTime(f) = 0 \/ \E g \in R : FileTime(f) = disk[g].mtime
  <2>1. f \in Before(pos) /\ f \in File
    BY <1>1, CheckedBefore
  <2>2. ~Missing(f)
    BY <1>1, <2>1, StatBefore DEF Missing, Exists
  <2>3. CASE f \in Steps[pos].ins
    BY <1>1, <1>3, <1>6, <2>2, <2>3, InputReason
  <2>4. CASE f \notin Steps[pos].ins
    <3>1. f \in R
      BY <1>2, <1>4, <2>4 DEF CheckedInputs, DepInputs, SeenOf
    <3>2. ~phony[f].set /\ f \notin Virtual
      BY <1>1, <1>3, <2>1, <3>1, StatBefore
    <3>3. ~Stat(f).changed
      BY <1>1, <1>6, <2>1, <3>1, StatFacts
    <3> QED BY <2>2, <3>1, <3>2, <3>3 DEF Dirty, FileTime
  <2> QED BY <2>3, <2>4
<1>8. ~InputError(pos)
  <2>1. ASSUME Steps[pos].gcc PROVE ~DepsStale(pos)
    <3>1. Steps[pos].outs[1] \in Outs(pos)
      BY <1>1, OrderFacts
    <3>2. /\ deps[pos].mtime # 0 /\ deps[pos].mtime \in Nat
          /\ ents[Steps[pos].outs[1]].mtime <= deps[pos].mtime
      BY <1>1, <1>4, <2>1, <3>1 DEF SeenOf, TypeInv
    <3>3. /\ Stat(Steps[pos].outs[1]) = ents[Steps[pos].outs[1]] /\ Exists(Steps[pos].outs[1])
          /\ ents[Steps[pos].outs[1]].mtime \in Nat
      BY <1>1, <1>5, <3>1 DEF TypeInv, IsEntry
    <3> QED BY <3>2, <3>3 DEF DepsStale
  <2> QED BY <1>7, <2>1 DEF InputError
<1>9. NewestInput(pos) <= OldestOutput(pos)
  <2> DEFINE S == {OutTime(pos, f) : f \in Outs(pos)}
  <2>1. S \in SUBSET Nat /\ S # {}
    <3>1. PICK f : f \in Outs(pos)
      BY <1>1, OrderFacts
    <3> QED BY <1>5, <3>1
  <2>2. OldestOutput(pos) = Min(S)
    BY DEF OldestOutput
  <2>3. Min(S) \in S
    <3> HIDE DEF S
    <3> QED BY <2>1, Extremes
  <2>4. PICK f \in Outs(pos) : OldestOutput(pos) = OutTime(pos, f)
    BY <2>2, <2>3
  <2>5. \/ NewestInput(pos) = 0
        \/ \E g \in CheckedInputs(pos) : NewestInput(pos) = FileTime(g)
    BY <1>1, CheckedBefore, NewestFacts
  <2>6. NewestInput(pos) = 0 \/ \E g \in R : NewestInput(pos) = disk[g].mtime
    BY <1>7, <2>5
  <2> HIDE DEF S
  <2> QED BY <1>5, <2>4, <2>6
<1> QED BY <1>5, <1>8, <1>9 DEF CheckUpToDate, SameCommand

\* So a step that is to be run is needed.
LEMMA NeedToRunNeeded ==
    ASSUME IInv, Why, NeedToRun
    PROVE  RunsOnlyIfNeeded'
<1>1. /\ Checking /\ ~Step.phony /\ ~CheckUpToDate(pos) /\ ents' = StatAll(Looked(pos))
      /\ UNCHANGED <<pos, disk, cmd, seen>> /\ TypeInv
      /\ pos \in Index /\ Outs(pos) \subseteq File
  BY OrderFacts DEF NeedToRun, Checking, userVars, IInv
<1> SUFFICES ASSUME Step.restat # "content", seen[pos] = View(pos),
                    \A f \in Outs(pos) : ents'[f].cmdhash # 0
             PROVE  FALSE
  <2>1. View(pos)' = View(pos)
    BY <1>1 DEF View, Contents
  <2> QED BY <1>1, <2>1 DEF RunsOnlyIfNeeded, Needed, Step
<1>2. \A f \in Outs(pos) : ents[f].cmdhash # 0
  BY <1>1, Looks
<1> QED BY <1>1, <1>2, NoReason

\* A local command has run.
LEMMA RunLocalWhy ==
    ASSUME IInv, Why, RunLocal
    PROVE  Why'
<1>1. /\ phase = "build" /\ pc = "run" /\ pos \in Index /\ ~Steps[pos].phony /\ ~Step.remote
      /\ clock' = clock + 2 /\ pc' = "record" /\ todo' = Outs(pos) /\ pre' = PreOutputs
      /\ UNCHANGED <<ents, deps, phase, pos, phony, seen>>
  BY DEF RunLocal, In, IInv, TypeInv
<1>2. TypeInv /\ AgreeInv /\ clock \in Nat /\ \A n \in Index : ~Busy(n)
  BY <1>1 DEF IInv, TypeInv, Busy
<1>3. Outs(pos) \cap Before(pos) = {} /\ Before(pos) \subseteq File /\ Outs(pos) \subseteq File
  BY <1>1, StepFacts
<1>4. \A f \in File :
         \/ disk'[f] = disk[f] /\ (f \notin Outs(pos) \/ disk[f].mtime # 0)
         \/ f \in Outs(pos) /\ disk'[f] = [content |-> Made(f), mtime |-> clock + 1]
  BY RunLocalFacts
<1>5. SeenInv'
  BY <1>1, <1>2, SeenKept
<1>6. PastInv'
  <2>1. \A n \in Index : \A g \in DOMAIN seen[n].in :
           seen[n].in[g][2] \in Nat /\ seen[n].in[g][2] <= clock
    BY DEF Why, PastInv
  <2>2. \A n \in Index : \A g \in DOMAIN seen[n].in :
           /\ seen[n].in[g][2] \in Nat /\ seen[n].in[g][2] <= clock'
           /\ seen[n].in[g][2] < clock' /\ seen[n].in[g][2] + 1 < clock'
    BY <1>1, <1>2, <2>1
  <2> QED BY <1>1, <2>2 DEF PastInv
<1>7. SameInv'
  <2>1. Busy(pos)'
    BY <1>1 DEF Busy
  <2> QED BY <1>1, <1>2, <1>4, <2>1 DEF Why, SameInv, Busy
<1>8. ChangedInv'
  BY <1>1 DEF Why, ChangedInv
<1>9. PhonyInv'
  <2>1. \A g \in Before(pos) : disk'[g] = disk[g]
    BY <1>3, <1>4
  <2> QED BY <1>1, <2>1, PhonyKept DEF PhonyInv
<1>10. RunInv'
  <2>1. ASSUME NEW f \in Outs(pos)
        PROVE  disk'[f].mtime = pre'[f].mtime \/ disk'[f].mtime + 1 = clock'
    <3>1. CASE disk'[f] = disk[f] /\ disk[f].mtime # 0
      <4>1. f \in File /\ ents[f].mtime # 0
        BY <1>1, <1>2, <1>3, <3>1 DEF AgreeInv, In
      <4>2. ents[f].mtime = disk[f].mtime
        BY <1>1, <1>2, <3>1, <4>1 DEF AgreeInv, Agree, Why, SameInv
      <4>3. pre'[f] = ents[f]
        BY <1>1, <4>1 DEF PreOutputs, Stat
      <4> QED BY <3>1, <4>2, <4>3
    <3>2. CASE disk'[f] = [content |-> Made(f), mtime |-> clock + 1]
      BY <1>1, <1>2, <3>2
    <3> QED BY <1>3, <1>4, <3>1, <3>2
  <2> QED BY <1>1, <2>1 DEF RunInv, In
<1> QED BY <1>5, <1>6, <1>7, <1>8, <1>9, <1>10 DEF Why

\* A remote action has run.
LEMMA RunRemoteWhy ==
    ASSUME IInv, Why, NEW cached \in BOOLEAN, RunRemote(cached)
    PROVE  Why'
<1>1. /\ phase = "build" /\ pc = "run" /\ pos \in Index /\ Step.remote
      /\ clock' = clock + 1 /\ pc' = "record" /\ todo' = Outs(pos)
      /\ UNCHANGED <<disk, ents, deps, phase, pos, phony, seen>>
  BY DEF RunRemote, In, IInv, TypeInv
<1>2. TypeInv /\ clock \in Nat /\ \A n \in Index : ~Busy(n)
  BY <1>1 DEF IInv, TypeInv, Busy
<1>3. SeenInv'
  BY <1>1, <1>2, SeenKept
<1>4. PastInv'
  <2>1. \A n \in Index : \A g \in DOMAIN seen[n].in :
           seen[n].in[g][2] \in Nat /\ seen[n].in[g][2] <= clock
    BY DEF Why, PastInv
  <2>2. \A n \in Index : \A g \in DOMAIN seen[n].in :
           /\ seen[n].in[g][2] \in Nat /\ seen[n].in[g][2] <= clock' /\ seen[n].in[g][2] < clock'
    BY <1>1, <1>2, <2>1
  <2>3. Step'.remote
    BY <1>1 DEF Step
  <2> QED BY <1>1, <2>2, <2>3 DEF PastInv
<1>5. SameInv'
  BY <1>1, <1>2 DEF Why, SameInv
<1>8. ChangedInv'
  BY <1>1 DEF Why, ChangedInv
<1>6. PhonyInv'
  BY <1>1, PhonyKept DEF PhonyInv
<1>7. RunInv'
  BY <1>1 DEF RunInv, In, Step
<1> QED BY <1>3, <1>4, <1>5, <1>6, <1>7, <1>8 DEF Why

\* The time an output is recorded with: what counts is now, and what has changed is now
\* or, if a local command wrote it, just before.
LEMMA RecordedTime ==
    ASSUME IInv, Why, In("record"), NEW f \in todo
    PROVE  /\ Step.restat # "content" =>
                 clock = IF Step.restat = "mtime" THEN Recorded(f, clock).updated
                                                  ELSE Recorded(f, clock).mtime
           /\ Recorded(f, clock).changed =>
                 \/ Recorded(f, clock).mtime = clock
                 \/ ~Step.remote /\ Recorded(f, clock).mtime + 1 = clock
<1>1. Step.restat \in {"no", "mtime", "content"}
  BY OrderFacts DEF IInv, TypeInv, In, Step
<1> DEFINE E == Recorded(f, clock)
           written == IF Step.remote THEN clock ELSE disk[f].mtime
<1>2. CASE Step.restat = "content"
  BY <1>2 DEF Recorded
<1>3. CASE Step.restat = "mtime"
  <2>1. E.updated = clock /\ E.mtime = written /\ (E.changed <=> pre[f].mtime # written)
    BY <1>3 DEF Recorded
  <2>2. ~Step.remote => disk[f].mtime = pre[f].mtime \/ disk[f].mtime + 1 = clock
    BY <1>3 DEF Why, RunInv
  <2> HIDE DEF E
  <2>3. E.changed => E.mtime = clock \/ (~Step.remote /\ E.mtime + 1 = clock)
    BY <2>1, <2>2
  <2> QED BY <1>3, <2>1, <2>3 DEF E
<1>4. CASE Step.restat = "no"
  BY <1>4 DEF Recorded
<1> QED BY <1>1, <1>2, <1>3, <1>4

\* One output is recorded.
LEMMA RecordOutputWhy ==
    ASSUME IInv, Why, NEW f \in todo, RecordOutput(f)
    PROVE  Why'
<1> DEFINE E == Recorded(f, clock)
<1>1. /\ phase = "build" /\ pc = "record" /\ pos \in Index /\ ~Steps[pos].phony
      /\ In("record") /\ todo' = todo \ {f} /\ ents' = [ents EXCEPT ![f] = E]
      /\ \/ disk' = disk
         \/ disk' = [disk EXCEPT ![f] = [content |-> @.content, mtime |-> ents'[f].mtime]]
      /\ UNCHANGED <<clock, deps, phase, pos, pc, phony, pre, seen>>
  BY DEF RecordOutput, In, IInv, TypeInv
<1>2. TypeInv /\ clock \in Nat /\ f \in Outs(pos)
  BY <1>1 DEF IInv, TypeInv, RecordInv
<1>3. /\ Outs(pos) \cap Before(pos) = {} /\ Before(pos) \subseteq File /\ Outs(pos) \subseteq File
      /\ \A m \in Index : m # pos => Outs(m) \cap Outs(pos) = {}
  BY <1>1, StepFacts
<1>4. \A g \in File : g # f => disk'[g] = disk[g] /\ ents'[g] = ents[g]
  <2> HIDE DEF E
  <2>1. DOMAIN disk = File /\ DOMAIN ents = File
    BY <1>2 DEF TypeInv
  <2>2. \A g \in File : g # f => ents'[g] = ents[g]
    BY <1>1, <2>1
  <2>3. \A g \in File : g # f => disk'[g] = disk[g]
    BY <1>1, <2>1
  <2> QED BY <2>2, <2>3
<1>5. ents'[f] = E
  BY <1>1, <1>2, <1>3 DEF TypeInv
<1>6. /\ Step.restat # "content" =>
            clock = IF Step.restat = "mtime" THEN E.updated ELSE E.mtime
      /\ E.changed => E.mtime = clock \/ (~Step.remote /\ E.mtime + 1 = clock)
      /\ E.mtime \in Nat
  BY <1>1, RecordedTime, RecordedFacts DEF IsEntry
<1> HIDE DEF E
<1>7. \A n \in Index : (Busy(n) <=> n = pos) /\ (Busy(n)' <=> n = pos)
  BY <1>1 DEF Busy
<1>8. SeenInv'
  <2> SUFFICES ASSUME NEW n \in Index, ~Steps[n].phony, ~Busy(n)', seen[n].cmd # 0
               PROVE  SeenOf(n)'
    BY <1>1 DEF SeenInv
  <2>1. SeenOf(n) /\ n # pos /\ Outs(n) \subseteq File
    BY <1>7, OrderFacts DEF Why, SeenInv
  <2>2. \A g \in Outs(n) : ents'[g] = ents[g]
    BY <1>2, <1>3, <1>4, <2>1
  <2> QED BY <1>1, <2>1, <2>2, SeenOfKept
<1>9. PastInv'
  BY <1>1 DEF Why, PastInv, In, Step
<1>10. SameInv'
  <2> SUFFICES ASSUME NEW g \in File, g \notin Outs(pos), ents'[g].cmdhash # 0, disk'[g].mtime # 0
               PROVE  ents'[g].mtime = disk'[g].mtime
    BY <1>1, <1>7 DEF SameInv
  <2>1. ents'[g] = ents[g] /\ disk'[g] = disk[g]
    BY <1>2, <1>4
  <2> QED BY <1>7, <2>1 DEF Why, SameInv
<1>11. ChangedInv'
  <2> SUFFICES ASSUME NEW g \in File, ents'[g].changed,
                      NEW n \in Index, pos <= n, g \in DOMAIN seen[n].in
               PROVE  seen[n].in[g][2] < ents'[g].mtime
    BY <1>1 DEF ChangedInv
  <2>1. CASE g = f
    <3>1. /\ seen[n].in[g][2] \in Nat /\ seen[n].in[g][2] < clock
          /\ ~Step.remote => seen[n].in[g][2] + 1 < clock
      BY <1>1 DEF Why, PastInv
    <3>2. E.mtime = clock \/ (~Step.remote /\ E.mtime + 1 = clock)
      BY <1>5, <1>6, <2>1
    <3>3. seen[n].in[g][2] < E.mtime
      BY <1>2, <1>6, <3>1, <3>2
    <3> QED BY <1>5, <2>1, <3>3
  <2>2. CASE g # f
    BY <1>1, <1>4, <2>2 DEF Why, ChangedInv
  <2> QED BY <2>1, <2>2
<1>12. PhonyInv'
  <2>1. \A g \in Before(pos) : disk'[g] = disk[g] /\ ents'[g] = ents[g]
    BY <1>2, <1>3, <1>4
  <2> QED BY <1>1, <2>1, PhonyKept DEF PhonyInv
<1>13. RunInv'
  <2>1. ASSUME ~Step.remote, Step.restat = "mtime", NEW g \in todo'
        PROVE  disk'[g].mtime = pre[g].mtime \/ disk'[g].mtime + 1 = clock
    <3>1. g \in todo /\ g # f /\ g \in File
      BY <1>1, <1>3, <2>1 DEF IInv, RecordInv
    <3> QED BY <1>1, <1>4, <2>1, <3>1 DEF Why, RunInv
  <2>2. ASSUME NEW g \in Outs(pos), g \notin todo', Step.restat # "content"
        PROVE  Counted(pos, g)' = clock
    <3>1. CASE g = f
      BY <1>1, <1>5, <1>6, <2>2, <3>1 DEF Counted, Step
    <3>2. CASE g # f
      <4>1. g \in Outs(pos) \ todo /\ ents'[g] = ents[g]
        BY <1>1, <1>3, <1>4, <2>2, <3>2
      <4>2. Counted(pos, g) = clock
        BY <1>1, <2>2, <4>1 DEF Why, RunInv
      <4> QED BY <1>1, <4>1, <4>2 DEF Counted
    <3> QED BY <3>1, <3>2
  <2> QED BY <1>1, <2>1, <2>2 DEF RunInv, In, Step, Counted
<1> QED BY <1>8, <1>9, <1>10, <1>11, <1>12, <1>13 DEF Why

\* The deps of a step are recorded.
LEMMA UpdateDepsWhy ==
    ASSUME IInv, Why, UpdateDeps
    PROVE  Why'
<1>1. /\ phase = "build" /\ pc = "record" /\ pos \in Index /\ pc' = "flush" /\ In("record")
      /\ deps' = IF Step.gcc
                 THEN [deps EXCEPT ![pos] = [mtime |-> ents[Step.outs[1]].mtime, ins |-> depfile]]
                 ELSE deps
      /\ UNCHANGED <<clock, disk, ents, phase, pos, phony, todo, seen>>
  BY DEF UpdateDeps, Recording, In, IInv, TypeInv, userVars
<1>2. DOMAIN deps = Index /\ depfile = Reads(pos, Contents)
  BY <1>1 DEF IInv, TypeInv, RecordInv
<1>3. \A n \in Index : (Busy(n) <=> n = pos) /\ (Busy(n)' <=> n = pos)
  BY <1>1 DEF Busy
<1>4. SeenInv'
  <2> SUFFICES ASSUME NEW n \in Index, ~Steps[n].phony, ~Busy(n)', seen[n].cmd # 0
               PROVE  SeenOf(n)'
    BY <1>1 DEF SeenInv
  <2>1. SeenOf(n) /\ n # pos
    BY <1>3 DEF Why, SeenInv
  <2>2. deps'[n] = deps[n]
    BY <1>1, <1>2, <2>1
  <2> QED BY <1>1, <2>1, <2>2, SeenOfKept
<1>5. PastInv'
  BY <1>1 DEF Why, PastInv, In
<1>6. SameInv'
  BY <1>1, <1>3 DEF Why, SameInv
<1>7. ChangedInv'
  BY <1>1 DEF Why, ChangedInv
<1>8. PhonyInv'
  BY <1>1, PhonyKept DEF PhonyInv
<1>9. RunInv'
  <2>1. \A f \in Outs(pos) \ todo : Step.restat # "content" => Counted(pos, f) = clock
    BY <1>1 DEF Why, RunInv
  <2>2. Step.gcc => /\ deps'[pos].ins = Reads(pos, Contents)
                    /\ deps'[pos].mtime = ents[Step.outs[1]].mtime
    BY <1>1, <1>2
  <2> QED BY <1>1, <2>1, <2>2 DEF RunInv, In, Step, Counted, Contents
<1> QED BY <1>4, <1>5, <1>6, <1>7, <1>8, <1>9 DEF Why

\* The step is done: what it was run on is what is there.
LEMMA FinishStepWhy ==
    ASSUME IInv, Why, FinishStep, DOMAIN seen = Index
    PROVE  Why'
<1>1. /\ phase = "build" /\ pc = "flush" /\ pos \in Index /\ ~Steps[pos].phony
      /\ pos' = pos + 1 /\ pc' = "check" /\ disk' = Flushed(disk, Outs(pos))
      /\ seen' = [seen EXCEPT ![pos] = View(pos)]
      /\ UNCHANGED <<phase, clock, deps, phony, ents>>
  BY DEF FinishStep, In, NextStep, IInv, TypeInv
<1>2. TypeInv /\ TimeInv /\ clock \in Nat /\ \A n \in Index : Busy(n) => n = pos
  BY <1>1 DEF IInv, TypeInv, Busy
<1>3. Outs(pos) \cap Before(pos) = {} /\ Before(pos) \subseteq File /\ Outs(pos) \subseteq File
  BY <1>1, StepFacts
<1>4. todo = {} /\ \A f \in Outs(pos) : ents[f].cmdhash = cmd[pos] /\ cmd[pos] # 0
  BY <1>1, UpToDateAssumption DEF IInv, RecordInv, TypeInv
<1>5. \A n \in Index : ~Busy(n)'
  BY <1>1 DEF Busy
<1>6. \A n \in Index : n # pos => seen'[n] = seen[n]
  BY <1>1
<1>7. /\ seen'[pos].cmd = cmd[pos] /\ DOMAIN seen'[pos].in = Reads(pos, Contents)
      /\ \A g \in Reads(pos, Contents) :
            /\ seen'[pos].in[g][2] = disk[g].mtime
            /\ disk[g].mtime \in Nat /\ disk[g].mtime <= clock
  <2>1. seen'[pos] = View(pos)
    BY <1>1
  <2>2. /\ View(pos).cmd = cmd[pos] /\ DOMAIN View(pos).in = Reads(pos, Contents)
        /\ \A g \in Reads(pos, Contents) : View(pos).in[g][2] = disk[g].mtime
    BY DEF View
  <2>3. \A g \in Reads(pos, Contents) : g \in File
    BY <1>1, <1>3, ReadsBefore
  <2>4. \A g \in File : disk[g].mtime \in Nat /\ disk[g].mtime <= clock
    BY <1>2 DEF TypeInv, TimeInv, IsFile
  <2> QED BY <2>1, <2>2, <2>3, <2>4
<1>8. SeenInv'
  <2>1. ASSUME NEW n \in Index, ~Steps[n].phony, n # pos, seen'[n].cmd # 0
        PROVE  SeenOf(n)'
    <3>1. SeenOf(n)
      BY <1>2, <1>6, <2>1 DEF Why, SeenInv
    <3> QED BY <1>1, <1>6, <2>1, <3>1, SeenOfKept
  <2>2. ASSUME NEW n \in Index, n = pos PROVE SeenOf(n)'
    <3>1. ASSUME NEW f \in Outs(pos), Steps[pos].restat # "content"
          PROVE  Counted(pos, f) = clock
      BY <1>1, <1>4, <3>1 DEF Why, RunInv, In, Step
    <3>2. ASSUME Steps[pos].gcc
          PROVE  /\ deps[pos].ins = Reads(pos, Contents)
                 /\ deps[pos].mtime = ents[Steps[pos].outs[1]].mtime
                 /\ deps[pos].mtime # 0 /\ deps[pos].mtime \in Nat
      <4>1. /\ deps[pos].ins = Reads(pos, Contents)
            /\ deps[pos].mtime = ents[Steps[pos].outs[1]].mtime
        BY <1>1, <3>2 DEF Why, RunInv, In, Step
      <4>2. Steps[pos].outs[1] \in Outs(pos)
        BY <1>1, OrderFacts
      <4>3. IsEntry(ents[Steps[pos].outs[1]]) /\ ents[Steps[pos].outs[1]].cmdhash # 0
        BY <1>2, <1>3, <1>4, <4>2 DEF TypeInv
      <4> QED BY <4>1, <4>3 DEF IsEntry
    <3>3. \A f \in Outs(n) : Counted(n, f)' = Counted(n, f)
      BY <1>1 DEF Counted
    <3>4. \A f \in Outs(n) : /\ ents'[f].cmdhash = seen'[n].cmd
                             /\ Steps[n].restat # "content" =>
                                   \A g \in DOMAIN seen'[n].in : seen'[n].in[g][2] <= Counted(n, f)
      BY <1>1, <1>4, <1>7, <2>2, <3>1
    <3>5. Steps[n].gcc => /\ deps'[n].mtime # 0 /\ deps'[n].ins = DOMAIN seen'[n].in
                          /\ ents'[Steps[n].outs[1]].mtime <= deps'[n].mtime
      BY <1>1, <1>7, <2>2, <3>2
    <3> QED BY <1>1, <3>3, <3>4, <3>5 DEF SeenOf
  <2> QED BY <2>1, <2>2 DEF SeenInv
<1>9. PastInv'
  <2>1. \A n \in Index : \A g \in DOMAIN seen'[n].in :
           seen'[n].in[g][2] \in Nat /\ seen'[n].in[g][2] <= clock
    BY <1>6, <1>7 DEF Why, PastInv
  <2> QED BY <1>1, <2>1 DEF PastInv, In
<1>10. SameInv'
  <2> SUFFICES ASSUME NEW f \in File, ents[f].cmdhash # 0, disk'[f].mtime # 0
               PROVE  ents[f].mtime = disk'[f].mtime
    BY <1>1 DEF SameInv
  <2>1. \/ disk'[f] = disk[f] /\ f \notin Outs(pos)
        \/ disk'[f] = [content |-> ents[f].content, mtime |-> ents[f].mtime]
    BY <1>1, <1>2, FlushFacts
  <2>2. CASE disk'[f] = disk[f] /\ f \notin Outs(pos)
    BY <1>2, <2>2 DEF Why, SameInv
  <2>3. CASE disk'[f] = [content |-> ents[f].content, mtime |-> ents[f].mtime]
    BY <2>3
  <2> QED BY <2>1, <2>2, <2>3
<1>11. ChangedInv'
  <2> SUFFICES ASSUME NEW f \in File, ents[f].changed,
                      NEW n \in Index, pos' <= n, f \in DOMAIN seen'[n].in
               PROVE  seen'[n].in[f][2] < ents[f].mtime
    BY <1>1 DEF ChangedInv
  <2>1. pos <= n /\ n # pos
    BY <1>1, OrderFacts
  <2> QED BY <1>1, <1>6, <2>1 DEF Why, ChangedInv
<1>12. PhonyInv'
  <2> SUFFICES ASSUME NEW m \in Index, Steps[m].phony, m < pos' PROVE PhonyOf(m)'
    BY DEF PhonyInv
  <2>1. m < pos
    BY <1>1, OrderFacts
  <2>2. \A g \in Before(pos) : disk'[g] = disk[g]
    BY <1>1, <1>2, <1>3, FlushFacts
  <2> QED BY <1>1, <2>1, <2>2, PhonyKept
<1>13. RunInv'
  BY <1>1 DEF RunInv, In
<1> QED BY <1>8, <1>9, <1>10, <1>11, <1>12, <1>13 DEF Why

\* Nothing has happened yet.
LEMMA InitNeeded == Init => NInv
<1> SUFFICES ASSUME Init PROVE NInv
  OBVIOUS
<1>1. \A n \in Index : seen[n].cmd = 0 /\ DOMAIN seen[n].in = {}
  BY DEF Init
<1>2. \A f \in File : ents[f].cmdhash = 0
  BY DEF Init, NoEntry
<1>3. faults = 0 /\ DOMAIN seen = Index /\ phase = "idle"
  BY DEF Init
<1>4. SeenInv /\ PastInv /\ SameInv
  BY <1>1, <1>2 DEF SeenInv, PastInv, SameInv
<1>5. ChangedInv /\ PhonyInv /\ RunInv /\ RunsOnlyIfNeeded
  BY <1>3 DEF ChangedInv, PhonyInv, RunInv, RunsOnlyIfNeeded, In
<1> QED BY <1>3, <1>4, <1>5 DEF NInv, Why

\* The invariant is inductive, given what is known of contents and times.
LEMMA NextNeeded ==
    ASSUME IInv, NInv, [Next]_vars
    PROVE  NInv'
<1>0. /\ TypeInv /\ KindInv /\ clock \in Nat /\ clock <= clock /\ faults \in Nat
      /\ DOMAIN seen = Index
      /\ \A f \in Source : ents[f].cmdhash = 0
  BY DEF IInv, TypeInv, KindInv, NInv
<1>1. ASSUME faults' \in Nat, faults' # 0, seen' = seen PROVE NInv'
  BY <1>0, <1>1 DEF NInv
<1>2. ASSUME faults' = faults, DOMAIN seen' = Index,
             faults = 0 /\ Why => Why' /\ ~In("run")'
      PROVE  NInv'
  BY <1>0, <1>2 DEF NInv, RunsOnlyIfNeeded
<1>3. phase # "build" \/ pc = "check" => \A n \in Index : ~Busy(n)
  BY DEF Busy
<1>4. ASSUME NEW f \in File, NEW c \in Content, Edit(f, c) PROVE NInv'
  <2>1. /\ phase # "build" /\ phase' = "idle" /\ clock' = clock + 1 /\ f \in Source
        /\ UNCHANGED <<ents, deps, seen, faults>>
        /\ \A g \in File : g # f => disk'[g] = disk[g]
    BY <1>4 DEF Edit
  <2>2. clock' \in Nat /\ clock <= clock'
    BY <1>0, <2>1
  <2> QED BY <1>0, <1>2, <1>3, <2>1, <2>2, IdleWhy DEF In
<1>5. ASSUME NEW f \in File, Delete(f) PROVE NInv'
  <2>1. /\ phase # "build" /\ phase' = "idle"
        /\ UNCHANGED <<clock, ents, deps, seen, faults>>
        /\ disk' = [disk EXCEPT ![f] = NoFile]
    BY <1>5 DEF Delete
  <2>2. \A g \in File : disk'[g] = disk[g] \/ disk'[g].mtime = 0
    BY <1>0, <2>1 DEF NoFile, TypeInv
  <2> QED BY <1>0, <1>2, <1>3, <2>1, <2>2, IdleWhy DEF In
<1>6. ASSUME NEW n \in Index, NEW v \in Command, ChangeCommand(n, v) PROVE NInv'
  BY <1>0, <1>2, <1>3, <1>6, IdleWhy DEF ChangeCommand, In
<1>7. ASSUME NEW fs \in SUBSET {f \in File : Reconcilable(f)}, StartBuild(fs) PROVE NInv'
  BY <1>0, <1>2, <1>7, StartBuildWhy DEF StartBuild, In
<1>8. CASE CheckPhony \/ SkipStep
  BY <1>0, <1>2, <1>8, CheckPhonyWhy, SkipStepWhy DEF CheckPhony, SkipStep, NextStep, In
<1>9. CASE NeedToRun
  BY <1>0, <1>9, NeedToRunWhy, NeedToRunNeeded DEF NInv, NeedToRun
<1>10. CASE RunLocal
  BY <1>0, <1>2, <1>10, RunLocalWhy DEF RunLocal, In
<1>11. ASSUME NEW cached \in BOOLEAN, RunRemote(cached) PROVE NInv'
  BY <1>0, <1>2, <1>11, RunRemoteWhy DEF RunRemote, In
<1>12. ASSUME NEW f \in todo, RecordOutput(f) PROVE NInv'
  BY <1>0, <1>2, <1>12, RecordOutputWhy DEF RecordOutput, In
<1>13. CASE UpdateDeps
  BY <1>0, <1>2, <1>13, UpdateDepsWhy DEF UpdateDeps, In
<1>14. CASE FinishStep
  <2>1. faults' = faults /\ pc' = "check" /\ DOMAIN seen' = Index
    BY <1>0, <1>14 DEF FinishStep, NextStep
  <2> QED BY <1>0, <1>2, <1>14, <2>1, FinishStepWhy DEF In
<1>15. CASE BuildSucceeds
  <2>1. /\ pc = "check" /\ phase' = "ok" /\ UNCHANGED <<clock, disk, ents, deps, seen, faults>>
    BY <1>15 DEF BuildSucceeds, In, userVars
  <2> QED BY <1>0, <1>2, <1>3, <2>1, IdleWhy DEF In
<1>16. CASE Stop \/ DepsNotRecorded \/ FlushFails
  <2>1. faults' = faults + 1 /\ seen' = seen
    BY <1>16 DEF Stop, DepsNotRecorded, FlushFails, Fault
  <2> QED BY <1>0, <1>1, <2>1
<1>17. ASSUME NEW fs \in SUBSET Outs(pos), CommandFails(fs) PROVE NInv'
  <2>1. faults' = faults + 1 /\ seen' = seen
    BY <1>17 DEF CommandFails, Fault
  <2> QED BY <1>0, <1>1, <2>1
<1>18. CASE Finished \/ UNCHANGED vars
  <2>1. UNCHANGED <<clock, disk, cmd, ents, deps, phase, pos, pc, phony, pre, todo, faults, seen>>
    BY <1>18 DEF Finished, vars
  <2>2. \A n \in Index : /\ Busy(n)' <=> Busy(n)
                         /\ SeenOf(n)' <=> SeenOf(n)
                         /\ PhonyOf(n)' <=> PhonyOf(n)
    BY <2>1 DEF Busy, SeenOf, Counted, PhonyOf
  <2>3. SeenInv => SeenInv'
    BY <2>1, <2>2 DEF SeenInv
  <2>4. (PastInv => PastInv') /\ (ChangedInv => ChangedInv')
    BY <2>1 DEF PastInv, ChangedInv, In, Step
  <2>5. (SameInv => SameInv') /\ (PhonyInv => PhonyInv')
    BY <2>1, <2>2 DEF SameInv, PhonyInv
  <2>6. RunInv => RunInv'
    BY <2>1 DEF RunInv, In, Step, Counted, Contents
  <2>7. RunsOnlyIfNeeded => RunsOnlyIfNeeded'
    BY <2>1 DEF RunsOnlyIfNeeded, In, Step, Needed, View, Contents
  <2> QED BY <2>1, <2>3, <2>4, <2>5, <2>6, <2>7 DEF NInv, Why
<1> QED BY <1>4, <1>5, <1>6, <1>7, <1>8, <1>9, <1>10, <1>11, <1>12, <1>13, <1>14, <1>15,
           <1>16, <1>17, <1>18 DEF Next

\* A step is run only if there is a reason to: an output is missing, or something it read
\* or its command has changed since it last succeeded (needToRun, checkUpToDate).  What
\* SuccessMeansFresh is for skipping too much, this is for skipping too little.
THEOREM RunsOnlyIfNeededThm == Spec => []RunsOnlyIfNeeded
<1>1. IInv /\ NInv /\ [Next]_vars => NInv'
  BY NextNeeded
<1>2. NInv => RunsOnlyIfNeeded
  BY DEF NInv, RunsOnlyIfNeeded
<1> QED BY <1>1, <1>2, InitNeeded, Invariance, PTL DEF Spec
=============================================================================
