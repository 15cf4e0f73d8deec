---------------------------- MODULE FlushProofs ----------------------------
(***************************************************************************)
(* Proofs about Flush, for all sets of callers and files.                  *)
(***************************************************************************)
EXTENDS Flush, TLAPS

-----------------------------------------------------------------------------
\* Initial lists of files are sequences of files.
LEMMA InitFiles ==
    ASSUME Init
    PROVE  files \in [Caller -> Seq(File)]
<1>1. \A n \in 0..MaxFiles : [1..n -> File] \subseteq Seq(File)
  BY FlushAssumption
<1>2. UNION {[1..n -> File] : n \in 0..MaxFiles} \subseteq Seq(File)
  BY <1>1
<1> QED
  BY <1>2 DEF Init

\* The index of a caller in "select" names one of its files.
LEMMA AtIsFile ==
    ASSUME TypeOK, NEW c \in Caller, pc[c] = "select"
    PROVE  At(c) \in File
BY DEF TypeOK, At

\* A caller that goes on to its next file stays within its list.
LEMMA NextFileType ==
    ASSUME TypeOK, NEW c \in Caller, pc[c] \in {"scan", "select"}, pos[c] <= Len(files[c]),
           NextFile(c), UNCHANGED <<files, known, onDisk, canceled>>, mtimeUpdated' \subseteq mtimeUpdated,
           lready' \in [File -> {"need", "busy", "closed"}],
           job' \in [Caller -> [File -> {"none", "ok", "failed"} \cup Working]]
    PROVE  TypeOK'
<1>1. \A d \in Caller : Len(files[d]) \in Nat
  BY DEF TypeOK
<1>2. \A d \in Caller : /\ pos'[d] = IF d = c THEN pos[c] + 1 ELSE pos[d]
                        /\ pc'[d] = IF d = c THEN "scan" ELSE pc[d]
  BY DEF NextFile, TypeOK
<1>3. /\ pos' \in [Caller -> Nat]
      /\ pc' \in [Caller -> {"scan", "select", "wait"} \cup Returned]
  BY DEF NextFile, TypeOK
<1>4. \A d \in Caller : /\ pos'[d] \in 1..Len(files[d]) + 1
                        /\ pc'[d] = "select" => pos'[d] <= Len(files[d])
                        /\ pc'[d] \in {"wait", "nil"} => pos'[d] = Len(files[d]) + 1
  BY <1>1, <1>2 DEF TypeOK
<1> QED
  BY <1>3, <1>4 DEF TypeOK

\* Every reachable state of Flush is well typed; in particular a caller never
\* looks beyond the end of its list.
THEOREM TypeCorrect == Spec => []TypeOK
<1>1. Init => TypeOK
  <2> SUFFICES ASSUME Init PROVE TypeOK
    OBVIOUS
  <2>1. files \in [Caller -> Seq(File)]
    BY InitFiles
  <2>2. \A c \in Caller : Len(files[c]) \in Nat
    BY <2>1
  <2>3. known \subseteq File /\ onDisk \subseteq File /\ mtimeUpdated \subseteq Local \ Removed
    BY FlushAssumption DEF Init
  <2>4. lready \in [File -> {"need", "busy", "closed"}]
    BY DEF Init
  <2>5. /\ pc \in [Caller -> {"scan", "select", "wait"} \cup Returned]
        /\ pos \in [Caller -> Nat]
        /\ job \in [Caller -> [File -> {"none", "ok", "failed"} \cup Working]]
        /\ canceled \in BOOLEAN
    BY DEF Init
  <2>6. \A c \in Caller : /\ pos[c] \in 1..Len(files[c]) + 1
                          /\ pc[c] = "select" => pos[c] <= Len(files[c])
                          /\ pc[c] \in {"wait", "nil"} => pos[c] = Len(files[c]) + 1
    BY <2>2 DEF Init
  <2> QED
    BY <2>1, <2>3, <2>4, <2>5, <2>6 DEF TypeOK
<1>2. TypeOK /\ [Next]_vars => TypeOK'
  <2> SUFFICES ASSUME TypeOK, [Next]_vars PROVE TypeOK'
    OBVIOUS
  <2>0. \A c \in Caller : Len(files[c]) \in Nat
    BY DEF TypeOK
  <2>1. CASE UNCHANGED vars
    BY <2>1 DEF TypeOK, vars
  <2>2. ASSUME NEW c \in Caller, Lookup(c) PROVE TypeOK'
    <3>1. CASE At(c) \in known
      BY <2>0, <2>2, <3>1 DEF TypeOK, Lookup
    <3>2. CASE At(c) \notin known
      <4>1. NextFile(c)
        BY <2>2, <3>2 DEF Lookup
      <4> QED
        BY <2>2, <4>1, NextFileType DEF TypeOK, Lookup
    <3> QED
      BY <3>1, <3>2
  <2>3. ASSUME NEW c \in Caller, SelectReady(c) PROVE TypeOK'
    <3>0. mtimeUpdated' \subseteq mtimeUpdated
      BY <2>3 DEF SelectReady, SetMtime
    <3>1. CASE At(c) \in Bad
      BY <2>0, <2>3, <3>0, <3>1 DEF TypeOK, SelectReady, Return, Returned
    <3>2. CASE At(c) \notin Bad
      <4>1. NextFile(c)
        BY <2>3, <3>2 DEF SelectReady
      <4> QED
        BY <2>3, <3>0, <4>1, NextFileType DEF TypeOK, SelectReady
    <3> QED
      BY <3>1, <3>2
  <2>4. ASSUME NEW c \in Caller, SelectNeed(c) PROVE TypeOK'
    <3>1. At(c) \in File
      BY <2>4, AtIsFile DEF SelectNeed
    <3>2. lready' \in [File -> {"need", "busy", "closed"}]
      BY <2>4 DEF TypeOK, SelectNeed, TakeToken
    <3>3. job' \in [Caller -> [File -> {"none", "ok", "failed"} \cup Working]]
      BY <2>4, <3>1 DEF TypeOK, SelectNeed, Working
    <3> QED
      BY <2>4, <3>2, <3>3, NextFileType DEF TypeOK, SelectNeed
  <2>5. ASSUME NEW c \in Caller, SelectDone(c) PROVE TypeOK'
    BY <2>0, <2>5 DEF TypeOK, SelectDone, Return, Returned
  <2>6. ASSUME NEW c \in Caller, EndScan(c) PROVE TypeOK'
    BY <2>0, <2>6 DEF TypeOK, EndScan, Returned
  <2>7. ASSUME NEW c \in Caller, Wait(c) PROVE TypeOK'
    BY <2>0, <2>7 DEF TypeOK, Wait, Return, Returned
  <2>8. ASSUME NEW c \in Caller, NEW f \in File, JobNext(c, f) PROVE TypeOK'
    <3>1. UNCHANGED <<files, mtimeUpdated, pc, pos, canceled>> /\ known' \subseteq known
      BY <2>8 DEF JobNext, FlushRemove, FlushSame, FlushWrite, FlushDone, FlushFail
    <3>2. onDisk' \subseteq onDisk \cup {f}
      BY <2>8 DEF JobNext, FlushRemove, FlushSame, FlushWrite, FlushDone, FlushFail
    <3>3. lready' = lready \/ lready' = [lready EXCEPT ![f] = "closed"]
      BY <2>8 DEF JobNext, FlushRemove, FlushSame, FlushWrite, FlushDone, FlushFail, FlushReturns
    <3>4. PICK s \in {"written", "ok", "failed"} : job' = [job EXCEPT ![c][f] = s]
      BY <2>8 DEF JobNext, FlushRemove, FlushSame, FlushWrite, FlushDone, FlushFail, FlushReturns
    <3>5. job' \in [Caller -> [File -> {"none", "ok", "failed"} \cup Working]]
      BY <3>4 DEF TypeOK, Working
    <3> QED
      BY <3>1, <3>2, <3>3, <3>5 DEF TypeOK
  <2>9. CASE Interrupt
    BY <2>9 DEF TypeOK, Interrupt
  <2>10. CASE Terminated
    BY <2>10 DEF TypeOK, Terminated, vars
  <2> QED
    BY <2>1, <2>2, <2>3, <2>4, <2>5, <2>6, <2>7, <2>8, <2>9, <2>10 DEF Next, CallNext
<1> QED
  BY <1>1, <1>2, PTL DEF Spec

-----------------------------------------------------------------------------
(***************************************************************************)
(* OneWriter is not inductive: that a file without a writer is not being   *)
(* fetched must be known when its token is taken.  A goroutine is at work  *)
(* only while the channel is empty.                                        *)
(***************************************************************************)
WorkingIsBusy ==
    \A f \in File, c \in Caller : job[c][f] \in Working => lready[f] = "busy"

WriterInv == TypeOK /\ OneWriter /\ WorkingIsBusy

\* The caller that takes the token of f becomes its only writer.
LEMMA TakeTokenSafe ==
    ASSUME WriterInv, NEW c \in Caller, SelectNeed(c)
    PROVE  (OneWriter /\ WorkingIsBusy)'
<1> DEFINE f == At(c)
<1>1. f \in File /\ lready[f] = "need"
  BY AtIsFile DEF SelectNeed, WriterInv
<1>2. \A d \in Caller : job[d][f] \notin Working
  BY <1>1 DEF WriterInv, WorkingIsBusy
<1>3. \A d \in Caller, g \in File :
         job'[d][g] = IF d = c /\ g = f THEN "fetch" ELSE job[d][g]
  BY <1>1 DEF SelectNeed, WriterInv, TypeOK
<1>4. \A g \in File : lready'[g] = IF g = f THEN "busy" ELSE lready[g]
  BY <1>1 DEF SelectNeed, TakeToken, WriterInv, TypeOK
<1> HIDE DEF f
<1>5. OneWriter'
  BY <1>2, <1>3 DEF WriterInv, OneWriter, Working
<1>6. WorkingIsBusy'
  BY <1>2, <1>3, <1>4 DEF WriterInv, WorkingIsBusy, Working
<1> QED
  BY <1>5, <1>6

\* A goroutine that goes on stays the only writer; one that ends closes the
\* channel, which nobody else is writing under.
LEMMA JobSafe ==
    ASSUME WriterInv, NEW c \in Caller, NEW f \in File, JobNext(c, f)
    PROVE  (OneWriter /\ WorkingIsBusy)'
<1>1. job[c][f] \in Working
  BY DEF JobNext, FlushRemove, FlushSame, FlushWrite, FlushDone, FlushFail, Working
<1>2. \A d \in Caller : d # c => job[d][f] \notin Working
  BY <1>1 DEF WriterInv, OneWriter
<1>3. \A d \in Caller, g \in File : ~(d = c /\ g = f) => job'[d][g] = job[d][g]
  BY DEF JobNext, FlushRemove, FlushSame, FlushWrite, FlushDone, FlushFail, FlushReturns, WriterInv, TypeOK
<1>4. \A g \in File : g # f => lready'[g] = lready[g]
  BY DEF JobNext, FlushRemove, FlushSame, FlushWrite, FlushDone, FlushFail, FlushReturns, WriterInv, TypeOK
<1>5. job'[c][f] \in Working => lready'[f] = lready[f]
  BY DEF JobNext, FlushRemove, FlushSame, FlushWrite, FlushDone, FlushFail, FlushReturns, WriterInv, TypeOK,
         Working
<1>6. OneWriter'
  BY <1>1, <1>2, <1>3 DEF WriterInv, OneWriter
<1>7. WorkingIsBusy'
  BY <1>1, <1>2, <1>3, <1>4, <1>5 DEF WriterInv, WorkingIsBusy
<1> QED
  BY <1>6, <1>7

\* Two goroutines never write the same file at the same time, for any number of
\* concurrent calls of Flush, with failures and interrupts.
THEOREM OneWriterThm == Spec => []OneWriter
<1>1. Init => OneWriter /\ WorkingIsBusy
  BY DEF Init, OneWriter, WorkingIsBusy, Working
<1>2. WriterInv /\ [Next]_vars => (OneWriter /\ WorkingIsBusy)'
  <2> SUFFICES ASSUME WriterInv, [Next]_vars PROVE (OneWriter /\ WorkingIsBusy)'
    OBVIOUS
  <2>1. ASSUME UNCHANGED <<job, lready>> PROVE (OneWriter /\ WorkingIsBusy)'
    BY <2>1 DEF WriterInv, OneWriter, WorkingIsBusy
  <2>2. ASSUME NEW c \in Caller, CallNext(c) PROVE (OneWriter /\ WorkingIsBusy)'
    BY <2>1, <2>2, TakeTokenSafe
       DEF CallNext, Lookup, SelectReady, SelectDone, EndScan, Wait
  <2>3. CASE Interrupt \/ Terminated \/ UNCHANGED vars
    BY <2>1, <2>3 DEF Interrupt, Terminated, vars
  <2> QED
    BY <2>2, <2>3, JobSafe DEF Next
<1>3. TypeOK /\ OneWriter /\ WorkingIsBusy => WriterInv
  BY DEF WriterInv
<1> QED
  BY <1>1, <1>2, <1>3, TypeCorrect, PTL DEF Spec

-----------------------------------------------------------------------------
(***************************************************************************)
(* What nil means.                                                         *)
(***************************************************************************)
\* The file is on the disk, or removed from it, as its entry says.
Present(f) == IF f \in Removed THEN f \notin onDisk ELSE f \in onDisk

\* The file is as its entry says, or a goroutine failed to make it so.
Settled(f) == Present(f) \/ \E d \in Caller : job[d][f] = "failed"

\* A closed channel means that the file is settled, and a failure leaves the channel
\* closed; what a caller has gone past is settled or being written by one of its own
\* goroutines, none of which is left, or failed, when it returns nil.  A local file
\* is never fetched, so that whoever goes past it has set its mtime.
FetchInv ==
    /\ \A f \in File : lready[f] = "closed" => Settled(f)
    /\ \A f \in Local : lready[f] = "closed"
    /\ \A f \in File, d \in Caller : job[d][f] = "failed" => lready[f] = "closed"
    /\ \A f \in File, d \in Caller : job[d][f] = "written" => f \notin Removed
    /\ \A c \in Caller : pc[c] = "nil" =>
          \A f \in File : job[c][f] \notin Working \cup {"failed"}
    /\ \A c \in Caller : \A i \in DOMAIN files[c] :
          i < pos[c] /\ files[c][i] \in known =>
             /\ Settled(files[c][i]) \/ job[c][files[c][i]] \in Working
             /\ files[c][i] \in mtimeUpdated => files[c][i] \in Foreign

\* Going past a file that is settled, or of which there is no entry, keeps FetchInv.
LEMMA PassFile ==
    ASSUME TypeOK, FetchInv,
           UNCHANGED <<files, known, lready, onDisk, job>>, mtimeUpdated' \subseteq mtimeUpdated,
           \A d \in Caller : /\ pc'[d] = "nil" /\ pc[d] # "nil" =>
                                   \A f \in File : job[d][f] \notin Working \cup {"failed"}
                             /\ \/ pos'[d] = pos[d]
                                \/ /\ pos'[d] = pos[d] + 1
                                   /\ files[d][pos[d]] \in known =>
                                         /\ Settled(files[d][pos[d]])
                                         /\ \/ files[d][pos[d]] \notin mtimeUpdated'
                                            \/ files[d][pos[d]] \in Foreign
    PROVE  FetchInv'
<1>1. \A f \in File : Settled(f)' <=> Settled(f)
  BY DEF Settled, Present
<1>2. ASSUME NEW d \in Caller, NEW i \in DOMAIN files[d], i < pos'[d], files[d][i] \in known
      PROVE  /\ Settled(files[d][i]) \/ job[d][files[d][i]] \in Working
             /\ files[d][i] \in mtimeUpdated' => files[d][i] \in Foreign
  <2>1. i \in Nat /\ pos[d] \in Nat
    BY DEF TypeOK
  <2>2. CASE i < pos[d]
    BY <1>2, <2>2 DEF FetchInv
  <2>3. CASE i = pos[d] /\ pos'[d] = pos[d] + 1
    BY <1>2, <2>1, <2>3
  <2> QED
    BY <1>2, <2>1, <2>2, <2>3
<1>3. \A d \in Caller : pc'[d] = "nil" =>
         \A f \in File : job[d][f] \notin Working \cup {"failed"}
  BY DEF FetchInv
<1>4. \A d \in Caller : \A i \in DOMAIN files[d] : files[d][i] \in File
  BY DEF TypeOK
<1>5. Local \subseteq File
  BY FlushAssumption
<1> QED
  BY <1>1, <1>2, <1>3, <1>4, <1>5 DEF FetchInv

\* Taking the token of a file starts a goroutine that writes it; the file has not
\* failed, since its channel is not closed.
LEMMA FetchNeed ==
    ASSUME TypeOK, FetchInv, NEW c \in Caller, SelectNeed(c)
    PROVE  FetchInv'
<1> DEFINE f == At(c)
<1>1. f \in File /\ lready[f] = "need" /\ f = files[c][pos[c]]
  BY AtIsFile DEF SelectNeed, At
<1>2. \A d \in Caller, g \in File :
         job'[d][g] = IF d = c /\ g = f THEN "fetch" ELSE job[d][g]
  BY <1>1 DEF SelectNeed, TypeOK
<1>3. \A g \in File : lready'[g] = IF g = f THEN "busy" ELSE lready[g]
  BY <1>1 DEF SelectNeed, TakeToken, TypeOK
<1>4. UNCHANGED <<files, known, onDisk, mtimeUpdated>>
  BY DEF SelectNeed
<1>5. \A d \in Caller : /\ pos'[d] = IF d = c THEN pos[c] + 1 ELSE pos[d]
                        /\ pc'[d] = IF d = c THEN "scan" ELSE pc[d]
                        /\ pos[d] \in Nat
  BY DEF SelectNeed, NextFile, TypeOK
<1> HIDE DEF f
<1>6. (\A d \in Caller : job[d][f] # "failed") /\ f \notin Local
  BY <1>1 DEF FetchInv
<1>7. \A g \in File : Settled(g)' <=> Settled(g)
  BY <1>2, <1>4, <1>6 DEF Settled, Present
<1>8. \A g \in File : lready'[g] = "closed" => Settled(g)'
  BY <1>3, <1>7 DEF FetchInv
<1>9. \A g \in File, d \in Caller : job'[d][g] = "failed" => lready'[g] = "closed"
  BY <1>2, <1>3, <1>6 DEF FetchInv
<1>10. \A d \in Caller : pc'[d] = "nil" =>
          \A g \in File : job'[d][g] \notin Working \cup {"failed"}
  BY <1>2, <1>5 DEF FetchInv
<1>11. ASSUME NEW d \in Caller, NEW i \in DOMAIN files[d], i < pos'[d], files[d][i] \in known
       PROVE  /\ Settled(files[d][i])' \/ job'[d][files[d][i]] \in Working
              /\ files[d][i] \in mtimeUpdated => files[d][i] \in Foreign
  <2>1. files[d][i] \in File /\ i \in Nat
    BY DEF TypeOK
  <2>2. CASE d = c /\ i = pos[c]
    BY <1>1, <1>2, <1>6, <2>2 DEF Working, TypeOK
  <2>3. CASE ~(d = c /\ i = pos[c])
    <3>1. i < pos[d]
      BY <1>5, <1>11, <2>1, <2>3
    <3>2. /\ Settled(files[d][i]) \/ job[d][files[d][i]] \in Working
          /\ files[d][i] \in mtimeUpdated => files[d][i] \in Foreign
      BY <1>11, <3>1 DEF FetchInv
    <3>3. Settled(files[d][i]) => Settled(files[d][i])'
      BY <1>4, <1>7, <2>1
    <3>4. job[d][files[d][i]] \in Working => job'[d][files[d][i]] \in Working
      BY <1>2, <2>1 DEF Working
    <3> QED
      BY <3>2, <3>3, <3>4
  <2> QED
    BY <2>2, <2>3
<1>12. \A g \in Local : lready'[g] = "closed"
  BY <1>3, <1>6, FlushAssumption DEF FetchInv
<1>13. \A g \in File, d \in Caller : job'[d][g] = "written" => g \notin Removed
  BY <1>2 DEF FetchInv
<1> QED
  BY <1>4, <1>8, <1>9, <1>10, <1>11, <1>12, <1>13 DEF FetchInv

\* A step of a caller.
LEMMA FetchCall ==
    ASSUME TypeOK, FetchInv, NEW c \in Caller, CallNext(c)
    PROVE  FetchInv'
<1>1. CASE Lookup(c)
  <2>1. UNCHANGED <<files, known, lready, onDisk, mtimeUpdated, job>>
    BY <1>1 DEF Lookup
  <2>2. \A d \in Caller : /\ pc'[d] = "nil" => pc[d] = "nil"
                          /\ \/ pos'[d] = pos[d]
                             \/ pos'[d] = pos[d] + 1 /\ files[d][pos[d]] \notin known
    BY <1>1 DEF Lookup, NextFile, At, TypeOK
  <2> QED
    BY <2>1, <2>2, PassFile
<1>2. CASE SelectReady(c)
  <2>1. UNCHANGED <<files, known, lready, onDisk, job>> /\ mtimeUpdated' \subseteq mtimeUpdated
    BY <1>2 DEF SelectReady, SetMtime
  <2>2. Settled(At(c)) /\ (At(c) \notin mtimeUpdated' \/ At(c) \in Foreign)
    BY <1>2, AtIsFile DEF SelectReady, SetMtime, LocalReady, FetchInv
  <2>3. \A d \in Caller : /\ pc'[d] = "nil" => pc[d] = "nil"
                          /\ \/ pos'[d] = pos[d]
                             \/ /\ pos'[d] = pos[d] + 1 /\ Settled(files[d][pos[d]])
                                /\ \/ files[d][pos[d]] \notin mtimeUpdated'
                                   \/ files[d][pos[d]] \in Foreign
    BY <1>2, <2>2 DEF SelectReady, Return, NextFile, At, TypeOK
  <2> QED
    BY <2>1, <2>3, PassFile
<1>3. CASE SelectDone(c) \/ EndScan(c)
  <2>1. UNCHANGED <<files, known, lready, onDisk, mtimeUpdated, pos, job>>
    BY <1>3 DEF SelectDone, EndScan
  <2>2. \A d \in Caller : pc'[d] = "nil" => pc[d] = "nil"
    BY <1>3 DEF SelectDone, EndScan, Return, TypeOK
  <2> QED
    BY <2>1, <2>2, PassFile
<1>4. CASE Wait(c)
  <2>1. UNCHANGED <<files, known, lready, onDisk, mtimeUpdated, pos, job>>
    BY <1>4 DEF Wait
  <2>2. \A d \in Caller : pc'[d] = "nil" /\ pc[d] # "nil" =>
           \A f \in File : job[d][f] \notin Working \cup {"failed"}
    BY <1>4 DEF Wait, Return, TypeOK
  <2> QED
    BY <2>1, <2>2, PassFile
<1> QED
  BY <1>1, <1>2, <1>3, <1>4, FetchNeed DEF CallNext

\* A goroutine closes the channel when its file is settled.
LEMMA FetchJob ==
    ASSUME TypeOK, FetchInv, NEW c \in Caller, NEW f \in File, JobNext(c, f)
    PROVE  FetchInv'
<1>1. job[c][f] \in Working
  BY DEF JobNext, FlushRemove, FlushSame, FlushWrite, FlushDone, FlushFail, Working
<1>2. pc[c] # "nil"
  BY <1>1 DEF FetchInv
<1>3. UNCHANGED <<files, mtimeUpdated, pc, pos>> /\ known' \subseteq known
  BY DEF JobNext, FlushRemove, FlushSame, FlushWrite, FlushDone, FlushFail
<1>4. \A d \in Caller, g \in File : ~(d = c /\ g = f) => job'[d][g] = job[d][g]
  BY DEF JobNext, FlushRemove, FlushSame, FlushWrite, FlushDone, FlushFail, FlushReturns, TypeOK
<1>5. \/ job'[c][f] = "written" /\ f \notin Removed /\ UNCHANGED <<lready, onDisk>>
      \/ /\ job'[c][f] = "ok"
         /\ onDisk' = IF f \in Removed THEN onDisk \ {f} ELSE onDisk \cup {f}
         /\ lready' = [lready EXCEPT ![f] = "closed"]
      \/ /\ job'[c][f] = "failed" /\ onDisk' = onDisk
         /\ lready' = [lready EXCEPT ![f] = "closed"]
  <2>1. ASSUME FlushDone(c, f) PROVE f \notin Removed
    BY <2>1 DEF FlushDone, FetchInv
  <2> QED
    BY <2>1 DEF JobNext, FlushRemove, FlushSame, FlushWrite, FlushDone, FlushFail, FlushReturns,
                TypeOK
<1>6. \A g \in File : Settled(g) => Settled(g)'
  BY <1>1, <1>4, <1>5 DEF Settled, Present, Working
<1>7. job'[c][f] \in Working \/ Settled(f)'
  BY <1>5 DEF Settled, Present, Working
<1>8. \A g \in File : lready'[g] = IF g = f /\ job'[c][f] # "written" THEN "closed" ELSE lready[g]
  BY <1>5 DEF TypeOK
<1>9. \A g \in File : lready'[g] = "closed" => Settled(g)'
  BY <1>5, <1>6, <1>7, <1>8 DEF FetchInv, Working
<1>10. \A g \in File, d \in Caller : job'[d][g] = "failed" => lready'[g] = "closed"
  BY <1>4, <1>5, <1>8 DEF FetchInv
<1>11. \A d \in Caller : pc'[d] = "nil" =>
          \A g \in File : job'[d][g] \notin Working \cup {"failed"}
  BY <1>2, <1>3, <1>4 DEF FetchInv
<1>12. \A d \in Caller, g \in File :
          Settled(g) \/ job[d][g] \in Working => Settled(g)' \/ job'[d][g] \in Working
  BY <1>4, <1>6, <1>7
<1>13. \A d \in Caller : \A i \in DOMAIN files[d] : files[d][i] \in File
  BY DEF TypeOK
<1>14. \A g \in Local : lready'[g] = "closed"
  BY <1>8, FlushAssumption DEF FetchInv
<1>15. \A g \in File, d \in Caller : job'[d][g] = "written" => g \notin Removed
  BY <1>4, <1>5 DEF FetchInv
<1>16. ASSUME NEW d \in Caller, NEW i \in DOMAIN files[d], i < pos[d], files[d][i] \in known
       PROVE  /\ Settled(files[d][i])' \/ job'[d][files[d][i]] \in Working
              /\ files[d][i] \in mtimeUpdated => files[d][i] \in Foreign
  BY <1>3, <1>12, <1>13, <1>16 DEF FetchInv
<1> QED
  BY <1>3, <1>9, <1>10, <1>11, <1>14, <1>15, <1>16 DEF FetchInv

\* When a call of Flush returns nil, the disk has each of its files that hashfs
\* knows as its entry says (there, or removed), whoever put it so, except for files
\* of which another call's flush failed.
THEOREM NilMeansFetchedThm == Spec => []NilMeansFetched
<1>1. Init => FetchInv
  <2> SUFFICES ASSUME Init PROVE FetchInv
    OBVIOUS
  <2>1. \A c \in Caller : DOMAIN files[c] = 1..Len(files[c])
    BY InitFiles
  <2>2. \A f \in Local : Present(f)
    BY DEF Init, Present
  <2> QED
    BY <2>1, <2>2, FlushAssumption DEF Init, FetchInv, Settled, Working
<1>2. TypeOK /\ FetchInv /\ [Next]_vars => FetchInv'
  <2> SUFFICES ASSUME TypeOK, FetchInv, [Next]_vars PROVE FetchInv'
    OBVIOUS
  <2>1. CASE Interrupt \/ Terminated \/ UNCHANGED vars
    BY <2>1 DEF Interrupt, Terminated, vars, FetchInv, Settled, Present
  <2> QED
    BY <2>1, FetchCall, FetchJob DEF Next
<1>3. TypeOK /\ FetchInv => NilMeansFetched
  <2> SUFFICES ASSUME TypeOK, FetchInv, NEW c \in Caller, pc[c] = "nil",
                      NEW i \in DOMAIN files[c], files[c][i] \in known
               PROVE  \/ AsEntry(files[c][i])
                      \/ \E d \in Caller \ {c} : job[d][files[c][i]] = "failed"
    BY DEF NilMeansFetched
  <2>1. files[c][i] \in File /\ i < pos[c]
    BY DEF TypeOK, Returned
  <2>2. /\ Settled(files[c][i]) /\ job[c][files[c][i]] # "failed"
        /\ files[c][i] \in mtimeUpdated => files[c][i] \in Foreign
    BY <2>1 DEF FetchInv
  <2> QED
    BY <2>1, <2>2 DEF Settled, Present, AsEntry
<1> QED
  BY <1>1, <1>2, <1>3, TypeCorrect, PTL DEF Spec
=============================================================================
