-------------------------- MODULE RemoteExecProofs --------------------------
(***************************************************************************)
(* Proofs about CAS and RemoteExec, for all sets of steps, subtrees and    *)
(* blobs, all sizes and limits.                                            *)
(***************************************************************************)
EXTENDS RemoteExec, TLAPS

Call == [pc : {"idle", "claim", "upload", "return"}, n : Nat, todo : SUBSET Blob,
         new : SUBSET Blob, pend : SUBSET OpId, smalls : SUBSET Blob,
         larges : SUBSET Blob, err : BOOLEAN]

CASType ==
    /\ server \subseteq Blob
    /\ known \in [Blob -> {Absent, Present} \cup OpId]
    /\ DOMAIN ops \subseteq OpId
    /\ \A o \in DOMAIN ops : ops[o] \in {"open", "nil", "err"}
    /\ call \in [Caller -> Call]

-----------------------------------------------------------------------------
(***************************************************************************)
(* OneUploader is not inductive: that nothing is left open when the call   *)
(* has made its uploads is known from what is still to be uploaded.  The   *)
(* same invariant tells what a call that returns nil has achieved.         *)
(***************************************************************************)

\* An op in knownDigests is one for that blob that was made.
KnownIsMade ==
    \A d \in Blob : known[d] \in OpId => known[d] \in DOMAIN ops /\ known[d].blob = d

\* An open op is in the map, and its call has it.
OpenIsKnown ==
    \A o \in DOMAIN ops : ops[o] = "open" =>
        known[o.blob] = o /\ call[o.caller].n = o.n /\ o.blob \in call[o.caller].new

\* The blob d of c is uploaded, or its stream failed.
Sent(c, d) == ops[Op(c, d)] = "nil" \/ d \in lost

CallInv(c) ==
    /\ call[c].pc = "idle" => call[c].new = {} /\ call[c].n = 0
    /\ call[c].pc # "idle" => call[c].n \in 1..MaxCalls[c]
    /\ \A d \in call[c].new : Op(c, d) \in DOMAIN ops
    /\ call[c].pend \subseteq DOMAIN ops
    /\ call[c].pc = "upload" =>
         /\ call[c].todo = {}
         /\ call[c].smalls \cup call[c].larges \subseteq call[c].new
         /\ \A d \in call[c].new : d \in call[c].smalls \cup call[c].larges \/
                                     (ops[Op(c, d)] # "open" /\ Sent(c, d))
    /\ call[c].pc = "return" /\ ~call[c].err =>
         /\ call[c].todo = {} /\ call[c].pend = {}
         /\ \A d \in call[c].new : ops[Op(c, d)] # "open" /\ Sent(c, d)

CASInv ==
    /\ CASType /\ KnownIsThere /\ KnownIsMade /\ OpenIsKnown
    /\ \A c \in Caller : CallInv(c)

-----------------------------------------------------------------------------
(***************************************************************************)
(* ServiceSeesInputs rests on what is below a root that is in the storage, *)
(* and on the blobs that a call has been given.                            *)
(***************************************************************************)
StepRec == [pc : {"start", "trees", "prepare", "upload", "execute", "failed", "done"},
            trees : SUBSET Subtree]
SubRec == [pc : {"none", "ask", "data", "dataWait", "rootWait", "end"},
           ready : BOOLEAN, err : BOOLEAN]

RemoteType == step \in [Step -> StepRec] /\ sub \in [Subtree -> SubRec]

\* Each blob of D that the call of c was given is stored, or the call is not done
\* with it, or has failed.
Covered(c, D) ==
    \/ call[c].err
    \/ \A d \in D : \/ d \in call[c].todo \cup call[c].new \cup There
                    \/ \E o \in call[c].pend : o.blob = d

\* A root that nobody else has sent is the last of its subtree.
RootMeansTree ==
    \A t \in Subtree : Root[t] \in server => TreeStore[t] \subseteq There \/ t \in listed

\* A call that has a root is of another caller, which is known, or it is that of the
\* subtree, after what is below.
RootIsLast ==
    \A t \in Subtree, c \in Caller : Root[t] \in call[c].todo \cup call[c].new =>
        t \in listed \/ (c = t /\ TreeStore[t] \ {Root[t]} \subseteq There)

\* What a step that is given t can count on.
Usable(t) == TreeStore[t] \subseteq There \/ Trusted(t)

SubInv(t) ==
    /\ sub[t].ready /\ ~sub[t].err => Usable(t)
    /\ sub[t].err => sub[t].pc = "end"
    /\ sub[t].pc = "dataWait" => Covered(t, TreeStore[t] \ {Root[t]})
    /\ sub[t].pc = "rootWait" => /\ TreeStore[t] \ {Root[t]} \subseteq There
                                 /\ Covered(t, {Root[t]})

StepInv(s) ==
    step[s].pc \in {"prepare", "upload", "execute"} =>
        /\ step[s].trees \subseteq Uses[s]
        /\ \A t \in step[s].trees : Usable(t)
        /\ step[s].pc = "upload" => Covered(s, Store[s][step[s].trees])
        /\ step[s].pc = "execute" => Store[s][step[s].trees] \subseteq There

RemoteInv ==
    /\ RemoteType /\ RootMeansTree /\ RootIsLast
    /\ \A t \in Subtree : SubInv(t)
    /\ \A s \in Step : StepInv(s)

-----------------------------------------------------------------------------
\* The names of ops.
LEMMA OpFields ==
    ASSUME NEW c \in Caller, NEW d \in Blob
    PROVE  /\ Op(c, d).blob = d /\ Op(c, d).caller = c /\ Op(c, d).n = call[c].n
           /\ Op(c, d) # Present /\ Op(c, d) # Absent
           /\ CASType /\ CallInv(c) /\ call[c].pc # "idle" => Op(c, d) \in OpId
<1>1. /\ Op(c, d).blob = d /\ Op(c, d).caller = c /\ Op(c, d).n = call[c].n
  BY DEF Op
<1>2. Op(c, d) # Present /\ Op(c, d) # Absent
  BY DEF Op, Present, Absent
<1>3. ASSUME CASType, CallInv(c), call[c].pc # "idle" PROVE Op(c, d) \in OpId
  BY <1>3, CASAssumption DEF Op, OpId, CallInv, CASType, Call
<1> QED
  BY <1>1, <1>2, <1>3

\* An op is its blob, its caller and its number.
LEMMA OpIsRecord ==
    ASSUME NEW o \in OpId
    PROVE  /\ o.blob \in Blob /\ o.caller \in Caller /\ o.n \in Nat
           /\ call[o.caller].n = o.n => o = Op(o.caller, o.blob)
           /\ o # Present /\ o # Absent
BY DEF OpId, Op, Present, Absent

\* The two values of the map that are no ops differ.
LEMMA Distinct == Present # Absent
BY DEF Present, Absent

\* What done does to ops that a call has.
LEMMA DoneOps ==
    ASSUME NEW c \in Caller, NEW D \in SUBSET Blob, NEW st, Done(c, D, st),
           \A d \in D : Op(c, d) \in DOMAIN ops
    PROVE  /\ DOMAIN ops' = DOMAIN ops
           /\ \A d \in D : ops'[Op(c, d)] = st
           /\ \A o \in DOMAIN ops : (\A d \in D : o # Op(c, d)) => ops'[o] = ops[o]
<1> DEFINE own == {Op(c, d) : d \in D}
<1>1. ops' = [o \in DOMAIN ops \cup own |-> IF o \in own THEN st ELSE ops[o]]
  BY DEF Done
<1>2. own \subseteq DOMAIN ops
  OBVIOUS
<1>3. \A d \in D : Op(c, d) \in own
  OBVIOUS
<1>4. \A o : (\A d \in D : o # Op(c, d)) => o \notin own
  OBVIOUS
<1> HIDE DEF own
<1> QED
  BY <1>1, <1>2, <1>3, <1>4

\* What done does to one op.
LEMMA DoneOne ==
    ASSUME NEW c \in Caller, NEW d, NEW st, Done(c, {d}, st)
    PROVE  /\ DOMAIN ops' = DOMAIN ops \cup {Op(c, d)}
           /\ Op(c, d) \in DOMAIN ops => DOMAIN ops' = DOMAIN ops
           /\ ops'[Op(c, d)] = st
           /\ \A o \in DOMAIN ops : o # Op(c, d) => ops'[o] = ops[o]
<1>1. ops' = [o \in DOMAIN ops \cup {Op(c, d)} |-> IF o = Op(c, d) THEN st ELSE ops[o]]
  BY DEF Done
<1> QED
  BY <1>1

-----------------------------------------------------------------------------
(***************************************************************************)
(* The steps of a call keep CASInv.                                        *)
(***************************************************************************)
\* A step of c leaves the other calls and their ops alone, and loses nothing.
Frame(c) ==
    /\ server \subseteq server' /\ lost \subseteq lost'
    /\ \A e \in Caller \ {c} : call'[e] = call[e]
    /\ DOMAIN ops \subseteq DOMAIN ops'
    /\ \A o \in DOMAIN ops' : o.caller # c => o \in DOMAIN ops /\ ops'[o] = ops[o]
    /\ \A d \in Blob : known[d] \in OpId /\ known[d].caller # c => known'[d] = known[d]

\* What OpenIsKnown says of the ops of c.
OwnOpen(c) ==
    \A o \in DOMAIN ops : o.caller = c /\ ops[o] = "open" =>
        known[o.blob] = o /\ call[c].n = o.n /\ o.blob \in call[c].new

\* A call that does not move keeps its part of the invariant.
LEMMA OtherCalls ==
    ASSUME CASInv, NEW c \in Caller, Frame(c), NEW e \in Caller \ {c}
    PROVE  CallInv(e)'
<1>1. CallInv(e) /\ call'[e] = call[e] /\ call[e].new \subseteq Blob
  BY DEF CASInv, Frame, CASType, Call
<1>2. \A d \in Blob : Op(e, d)' = Op(e, d) /\ Op(e, d).caller = e
  BY <1>1 DEF Op
<1>3. \A d \in call[e].new : Op(e, d) \in DOMAIN ops' /\ ops'[Op(e, d)] = ops[Op(e, d)]
  BY <1>1, <1>2 DEF CallInv, Frame
<1> QED
  BY <1>1, <1>2, <1>3 DEF CallInv, Sent, Frame

\* A step of c keeps CASInv if it keeps what CASInv says of the map and of c.
LEMMA CallKeeps ==
    ASSUME CASInv, NEW c \in Caller, Frame(c),
           CASType', KnownIsThere', KnownIsMade', OwnOpen(c)', CallInv(c)'
    PROVE  CASInv'
<1>1. OpenIsKnown'
  <2> SUFFICES ASSUME NEW o \in DOMAIN ops', ops'[o] = "open"
               PROVE  /\ known'[o.blob] = o /\ call'[o.caller].n = o.n
                      /\ o.blob \in call'[o.caller].new
    BY DEF OpenIsKnown
  <2>1. CASE o.caller = c
    BY <2>1 DEF OwnOpen
  <2>2. CASE o.caller # c
    <3>1. o \in DOMAIN ops /\ ops[o] = "open" /\ o \in OpId
      BY <2>2 DEF Frame, CASInv, CASType
    <3>2. o.caller \in Caller \ {c} /\ o.blob \in Blob
      BY <2>2, <3>1, OpIsRecord
    <3>3. /\ known[o.blob] = o /\ call[o.caller].n = o.n
          /\ o.blob \in call[o.caller].new
      BY <3>1 DEF CASInv, OpenIsKnown
    <3> QED
      BY <2>2, <3>1, <3>2, <3>3 DEF Frame
  <2> QED
    BY <2>1, <2>2
<1> QED
  BY <1>1, OtherCalls DEF CASInv

\* A step that changes only the record of the call, not its number and not newBlobs.
LEMMA CallOnly ==
    ASSUME CASInv, NEW c \in Caller,
           UNCHANGED <<server, known, ops, lost>>,
           NEW r \in Call, call' = [call EXCEPT ![c] = r],
           r.n = call[c].n, r.new = call[c].new,
           CallInv(c)'
    PROVE  CASInv'
<1>1. \A e \in Caller : call'[e] = IF e = c THEN r ELSE call[e]
  BY DEF CASInv, CASType
<1>2. CASType' /\ KnownIsThere' /\ KnownIsMade'
  BY DEF CASInv, CASType, KnownIsThere, KnownIsMade
<1>3. Frame(c)
  BY <1>1 DEF Frame
<1>4. OwnOpen(c)'
  BY <1>1 DEF OwnOpen, CASInv, OpenIsKnown
<1> QED
  BY <1>2, <1>3, <1>4, CallKeeps

\* A failed call keeps what it has.
LEMMA FailRecord ==
    ASSUME CASType, NEW c \in Caller, Fail(c)
    PROVE  \E r \in Call : /\ call' = [call EXCEPT ![c] = r]
                           /\ r.pc = "return" /\ r.err = TRUE
                           /\ r.n = call[c].n /\ r.todo = call[c].todo
                           /\ r.new = call[c].new /\ r.pend = call[c].pend
<1> DEFINE r == [call[c] EXCEPT !.pc = "return", !.err = TRUE]
<1>1. call' = [call EXCEPT ![c] = r]
  BY DEF Fail
<1>2. /\ r \in Call /\ r.pc = "return" /\ r.err = TRUE
      /\ r.n = call[c].n /\ r.todo = call[c].todo
      /\ r.new = call[c].new /\ r.pend = call[c].pend
  BY DEF CASType, Call
<1> HIDE DEF r
<1> QED
  BY <1>1, <1>2

\* A call begins when the one before has settled all its ops.
LEMMA UploadAllKeeps ==
    ASSUME CASInv, NEW c \in Caller, NEW ds \in SUBSET Blob, UploadAll(c, ds)
    PROVE  CASInv'
<1> DEFINE r == [Idle EXCEPT !.pc = "claim", !.n = call[c].n + 1, !.todo = ds]
<1>1. /\ call' = [call EXCEPT ![c] = r]
      /\ UNCHANGED <<server, known, ops, lost>>
      /\ call[c].n < MaxCalls[c]
  BY DEF UploadAll
<1>2. call[c] \in Call /\ CallInv(c) /\ MaxCalls[c] \in Nat /\ call[c].n \in Nat
  BY CASAssumption DEF CASInv, CASType, Call
<1>3. call[c].new = {}
  BY <1>2 DEF UploadAll, Returned, CallInv
<1>4. /\ r \in Call /\ r.pc = "claim" /\ r.n = call[c].n + 1 /\ r.todo = ds
      /\ r.new = {} /\ r.pend = {} /\ r.err = FALSE
  <2>1. Idle \in Call /\ Idle.new = {} /\ Idle.pend = {} /\ Idle.err = FALSE
    BY DEF Idle, Call
  <2>2. call[c].n + 1 \in Nat
    BY <1>2
  <2> QED
    BY <2>1, <2>2 DEF Call
<1> HIDE DEF r
<1>5. \A e \in Caller : call'[e] = IF e = c THEN r ELSE call[e]
  BY <1>1 DEF CASInv, CASType
<1>6. CASType' /\ KnownIsThere' /\ KnownIsMade' /\ Frame(c)
  BY <1>1, <1>4, <1>5 DEF CASInv, CASType, KnownIsThere, KnownIsMade, Frame
<1>7. OwnOpen(c)'
  BY <1>1, <1>3 DEF OwnOpen, CASInv, OpenIsKnown
<1>8. CallInv(c)'
  BY <1>2, <1>4, <1>5, <1>1 DEF CallInv
<1> QED
  BY <1>6, <1>7, <1>8, CallKeeps

\* LoadOrStore: an op is made only for a blob that is not in the map.
LEMMA ClaimKeeps ==
    ASSUME CASInv, NEW c \in Caller, NEW d \in Blob, Claim(c, d)
    PROVE  CASInv'
<1> USE DEF CASInv
<1>1. call[c] \in Call /\ call[c].pc = "claim" /\ d \in call[c].todo /\ CallInv(c)
  BY DEF CASType, Claim
<1>2. UNCHANGED <<server, lost>>
  BY DEF Claim
<1>3. CASE known[d] = Present
  <2> DEFINE r == [call[c] EXCEPT !.todo = @ \ {d}]
  <2>1. call' = [call EXCEPT ![c] = r] /\ UNCHANGED <<known, ops>>
    BY <1>3, OpIsRecord, Distinct DEF Claim
  <2>2. /\ r \in Call /\ r.pc = "claim" /\ r.n = call[c].n
        /\ r.new = call[c].new /\ r.pend = call[c].pend /\ r.err = call[c].err
    BY <1>1 DEF Call
  <2> HIDE DEF r
  <2>3. call'[c] = r
    BY <2>1 DEF CASType
  <2>4. CallInv(c)'
    BY <1>1, <2>1, <2>2, <2>3 DEF CallInv, Op
  <2> QED
    BY <1>2, <2>1, <2>2, <2>4, CallOnly
<1>4. CASE known[d] \in OpId
  <2> DEFINE r == [call[c] EXCEPT !.todo = @ \ {d}, !.pend = @ \cup {known[d]}]
  <2>1. call' = [call EXCEPT ![c] = r] /\ UNCHANGED <<known, ops>>
    BY <1>4, OpIsRecord DEF Claim
  <2>2. /\ r \in Call /\ r.pc = "claim" /\ r.n = call[c].n
        /\ r.new = call[c].new /\ r.pend = call[c].pend \cup {known[d]}
        /\ r.err = call[c].err
    BY <1>1, <1>4 DEF Call
  <2> HIDE DEF r
  <2>3. call'[c] = r
    BY <2>1 DEF CASType
  <2>4. CallInv(c)'
    BY <1>1, <1>4, <2>1, <2>2, <2>3 DEF CallInv, Op, KnownIsMade
  <2> QED
    BY <1>2, <2>1, <2>2, <2>4, CallOnly
<1>5. CASE known[d] = Absent
  <2> DEFINE r == [call[c] EXCEPT !.todo = @ \ {d}, !.new = @ \cup {d}]
  <2>1. /\ call' = [call EXCEPT ![c] = r]
        /\ known' = [known EXCEPT ![d] = Op(c, d)]
        /\ Done(c, {d}, "open")
    BY <1>5, OpIsRecord, Distinct DEF Claim
  <2>2. /\ r \in Call /\ r.pc = "claim" /\ r.n = call[c].n
        /\ r.new = call[c].new \cup {d} /\ r.pend = call[c].pend /\ r.err = call[c].err
    BY <1>1 DEF Call
  <2> HIDE DEF r
  <2>3. \A e \in Caller : call'[e] = IF e = c THEN r ELSE call[e]
    BY <2>1 DEF CASType
  <2>4. /\ Op(c, d) \in OpId /\ Op(c, d) # Present /\ Op(c, d).blob = d
        /\ Op(c, d).caller = c /\ Op(c, d).n = call[c].n
    BY <1>1, OpFields
  <2>5. /\ DOMAIN ops' = DOMAIN ops \cup {Op(c, d)}
        /\ ops'[Op(c, d)] = "open"
        /\ \A o \in DOMAIN ops : o # Op(c, d) => ops'[o] = ops[o]
    BY <2>1, DoneOne
  <2>6. \A b \in Blob : known'[b] = IF b = d THEN Op(c, d) ELSE known[b]
    BY <2>1 DEF CASType
  <2>7. CASType'
    BY <1>2, <2>1, <2>2, <2>4, <2>5 DEF CASType
  <2>8. KnownIsThere'
    BY <1>2, <2>4, <2>5, <2>6 DEF KnownIsThere
  <2>9. KnownIsMade'
    BY <2>4, <2>5, <2>6 DEF KnownIsMade
  <2>10. Frame(c)
    <3>1. Absent \notin OpId
      BY OpIsRecord
    <3> QED
      BY <1>2, <1>5, <2>3, <2>4, <2>5, <2>6, <3>1 DEF Frame
  <2>11. OwnOpen(c)'
    <3> SUFFICES ASSUME NEW o \in DOMAIN ops', o.caller = c, ops'[o] = "open"
                 PROVE  known'[o.blob] = o /\ call'[c].n = o.n /\ o.blob \in call'[c].new
      BY DEF OwnOpen
    <3>1. CASE o = Op(c, d)
      BY <2>2, <2>3, <2>4, <2>6, <3>1
    <3>2. CASE o # Op(c, d)
      <4>1. o \in DOMAIN ops /\ ops[o] = "open" /\ o \in OpId
        BY <2>5, <3>2 DEF CASType
      <4>2. known[o.blob] = o /\ call[c].n = o.n /\ o.blob \in call[c].new /\ o.blob \in Blob
        BY <4>1, OpIsRecord DEF OpenIsKnown
      <4>3. o.blob # d
        BY <1>5, <4>1, <4>2, OpIsRecord
      <4> QED
        BY <2>2, <2>3, <2>6, <4>2, <4>3
    <3> QED
      BY <3>1, <3>2
  <2>12. CallInv(c)'
    <3>1. \A b \in Blob : Op(c, b)' = Op(c, b)
      BY <2>2, <2>3 DEF Op
    <3> QED
      BY <1>1, <2>2, <2>3, <2>5, <3>1 DEF CallInv, Call
  <2> QED
    BY <2>7, <2>8, <2>9, <2>10, <2>11, <2>12, CallKeeps
<1> QED
  BY <1>3, <1>4, <1>5 DEF Claim

\* What the other steps of a call may do: finish own ops, and replace finished ones in
\* the map.
OpsEffect(c) ==
    /\ DOMAIN ops' = DOMAIN ops
    /\ \A o \in DOMAIN ops :
         \/ ops'[o] = ops[o]
         \/ o.caller = c /\ (ops'[o] = "err" \/ (ops'[o] = "nil" /\ o.blob \in server'))

KnownEffect(c) ==
    /\ known' \in [Blob -> {Absent, Present} \cup OpId]
    /\ \A b \in Blob :
         \/ known'[b] = known[b]
         \/ /\ known[b] \in OpId /\ known[b].caller = c /\ ops'[known[b]] # "open"
            /\ known'[b] = Absent \/ (known'[b] = Present /\ b \in server')

\* The effects of such a step are enough for CASInv, but for the part of the call.
LEMMA CallEffect ==
    ASSUME CASInv, NEW c \in Caller,
           server \subseteq server', server' \subseteq Blob, lost \subseteq lost',
           NEW r \in Call, call' = [call EXCEPT ![c] = r], r.n = call[c].n,
           OpsEffect(c), KnownEffect(c),
           \A o \in DOMAIN ops : o.caller = c /\ ops'[o] = "open" => o.blob \in r.new,
           CallInv(c)'
    PROVE  CASInv'
<1> USE DEF CASInv
<1>1. \A e \in Caller : call'[e] = IF e = c THEN r ELSE call[e]
  BY DEF CASType
<1>2. Absent \notin OpId /\ Present \notin OpId /\ Absent # Present
  BY OpIsRecord, Distinct
<1>3. CASType'
  BY DEF CASType, OpsEffect, KnownEffect
<1>4. KnownIsThere'
  <2>1. ASSUME NEW d \in Blob, known'[d] = Present PROVE d \in server'
    BY <1>2, <2>1 DEF KnownEffect, KnownIsThere
  <2>2. ASSUME NEW o \in DOMAIN ops', ops'[o] = "nil" PROVE o.blob \in server'
    BY <2>2 DEF OpsEffect, KnownIsThere
  <2> QED
    BY <2>1, <2>2 DEF KnownIsThere
<1>5. KnownIsMade'
  BY <1>2 DEF KnownIsMade, KnownEffect, OpsEffect
<1>6. Frame(c)
  BY <1>1 DEF Frame, OpsEffect, KnownEffect
<1>7. OwnOpen(c)'
  <2> SUFFICES ASSUME NEW o \in DOMAIN ops', o.caller = c, ops'[o] = "open"
               PROVE  known'[o.blob] = o /\ call'[c].n = o.n /\ o.blob \in call'[c].new
    BY DEF OwnOpen
  <2>1. o \in DOMAIN ops /\ ops[o] = "open" /\ o.blob \in Blob
    BY OpIsRecord DEF OpsEffect, CASType
  <2>2. known[o.blob] = o /\ call[c].n = o.n
    BY <2>1 DEF OpenIsKnown
  <2> QED
    BY <1>1, <2>1, <2>2 DEF KnownEffect
<1> QED
  BY <1>3, <1>4, <1>5, <1>6, <1>7, CallKeeps

\* newBlobs and the number of the call stay, so the names of its ops do.
LEMMA SameOps ==
    ASSUME NEW c \in Caller, call'[c].n = call[c].n
    PROVE  \A d \in Blob : Op(c, d)' = Op(c, d)
BY DEF Op

\* FindMissingBlobs: what the storage has is finished, the rest is still to be sent.
LEMMA MissingKeeps ==
    ASSUME CASInv, NEW c \in Caller, Missing(c)
    PROVE  CASInv'
<1> USE DEF CASInv
<1> DEFINE found == call[c].new \cap server
           missing == call[c].new \ server
           r == [call[c] EXCEPT !.pc = "upload", !.new = missing,
                                !.smalls = missing \ Larges(missing), !.larges = Larges(missing)]
<1>1. /\ call[c].pc = "claim" /\ call[c].todo = {} /\ call[c].new # {}
      /\ known' = [d \in Blob |->
                     IF d \in found /\ known[d] = Op(c, d) THEN Present ELSE known[d]]
      /\ Done(c, found, "nil")
      /\ call' = [call EXCEPT ![c] = r]
      /\ UNCHANGED <<server, lost>>
  BY DEF Missing
<1>2. call[c] \in Call /\ CallInv(c) /\ found \subseteq Blob /\ missing \subseteq Blob
  BY DEF CASType, Call
<1>3. Larges(missing) \subseteq missing
  BY DEF Larges
<1>4. /\ r \in Call /\ r.pc = "upload" /\ r.n = call[c].n /\ r.todo = {} /\ r.new = missing
      /\ r.pend = call[c].pend /\ r.smalls \cup r.larges = missing
  BY <1>1, <1>2, <1>3 DEF Call
<1>5. \A d \in call[c].new : /\ Op(c, d) \in OpId /\ Op(c, d) \in DOMAIN ops
                             /\ Op(c, d).blob = d /\ Op(c, d).caller = c
  BY <1>1, <1>2, OpFields DEF CallInv, Call
<1>6. /\ DOMAIN ops' = DOMAIN ops
      /\ \A d \in found : ops'[Op(c, d)] = "nil"
      /\ \A o \in DOMAIN ops : (\A d \in found : o # Op(c, d)) => ops'[o] = ops[o]
  <2>1. /\ found \in SUBSET Blob /\ Done(c, found, "nil")
        /\ \A d \in found : Op(c, d) \in DOMAIN ops
    BY <1>1, <1>2, <1>5
  <2> HIDE DEF found
  <2> QED
    BY <2>1, DoneOps
<1> HIDE DEF r
<1>7. call'[c] = r
  BY <1>1 DEF CASType
<1>8. OpsEffect(c)
  BY <1>1, <1>5, <1>6 DEF OpsEffect
<1>9. KnownEffect(c)
  <2>1. known' \in [Blob -> {Absent, Present} \cup OpId]
    BY <1>1 DEF CASType
  <2> QED
    BY <1>1, <1>5, <1>6, <2>1 DEF KnownEffect
<1>10. ASSUME NEW o \in DOMAIN ops, o.caller = c, ops'[o] = "open" PROVE o.blob \in r.new
  <2>1. ops[o] = "open" /\ o \in OpId
    BY <1>8, <1>10 DEF OpsEffect, CASType
  <2>2. o.blob \in call[c].new /\ o = Op(c, o.blob)
    BY <1>10, <2>1, OpIsRecord DEF OpenIsKnown
  <2>3. o.blob \notin found
    BY <1>6, <1>10, <2>2
  <2> QED
    BY <1>4, <2>2, <2>3
<1>11. CallInv(c)'
  BY <1>1, <1>2, <1>4, <1>5, <1>6, <1>7, SameOps DEF CallInv
<1> QED
  BY <1>1, <1>4, <1>8, <1>9, <1>10, <1>11, CallEffect DEF CASType

\* FindMissingBlobs fails: all ops of the call end with the error.
LEMMA MissingFailKeeps ==
    ASSUME CASInv, NEW c \in Caller, MissingFail(c)
    PROVE  CASInv'
<1> USE DEF CASInv
<1>1. /\ call[c].pc = "claim" /\ Done(c, call[c].new, "err")
      /\ UNCHANGED <<server, known, lost>>
  BY DEF MissingFail
<1>2. call[c] \in Call /\ CallInv(c) /\ call[c].new \subseteq Blob
  BY DEF CASType, Call
<1>3. PICK r \in Call : /\ call' = [call EXCEPT ![c] = r]
                        /\ r.pc = "return" /\ r.err = TRUE
                        /\ r.n = call[c].n /\ r.new = call[c].new /\ r.pend = call[c].pend
  BY FailRecord DEF MissingFail
<1>4. call'[c] = r
  BY <1>3 DEF CASType
<1>5. \A d \in call[c].new : Op(c, d) \in DOMAIN ops /\ Op(c, d).caller = c
  BY <1>1, <1>2, OpFields DEF CallInv
<1>6. /\ DOMAIN ops' = DOMAIN ops
      /\ \A d \in call[c].new : ops'[Op(c, d)] = "err"
      /\ \A o \in DOMAIN ops : (\A d \in call[c].new : o # Op(c, d)) => ops'[o] = ops[o]
  BY <1>1, <1>2, <1>5, DoneOps
<1>7. OpsEffect(c) /\ KnownEffect(c)
  BY <1>1, <1>5, <1>6 DEF OpsEffect, KnownEffect, CASType
<1>8. ASSUME NEW o \in DOMAIN ops, o.caller = c, ops'[o] = "open" PROVE o.blob \in r.new
  BY <1>3, <1>7, <1>8 DEF OpsEffect, OpenIsKnown
<1>9. CallInv(c)'
  BY <1>1, <1>2, <1>3, <1>4, <1>6, SameOps DEF CallInv
<1> QED
  BY <1>1, <1>3, <1>7, <1>8, <1>9, CallEffect DEF CASType

\* A step that only ends the call with an error.
LEMMA FailKeeps ==
    ASSUME CASInv, NEW c \in Caller, Fail(c), call[c].pc # "idle",
           server \subseteq server', server' \subseteq Blob, UNCHANGED <<known, ops, lost>>
    PROVE  CASInv'
<1> USE DEF CASInv
<1>1. call[c] \in Call /\ CallInv(c) /\ call[c].new \subseteq Blob
  BY DEF CASType, Call
<1>2. PICK r \in Call : /\ call' = [call EXCEPT ![c] = r]
                        /\ r.pc = "return" /\ r.err = TRUE
                        /\ r.n = call[c].n /\ r.new = call[c].new /\ r.pend = call[c].pend
  BY FailRecord
<1>3. call'[c] = r
  BY <1>2 DEF CASType
<1>4. OpsEffect(c) /\ KnownEffect(c)
  BY DEF OpsEffect, KnownEffect, CASType
<1>5. \A o \in DOMAIN ops : o.caller = c /\ ops'[o] = "open" => o.blob \in r.new
  BY <1>2 DEF OpenIsKnown
<1>6. CallInv(c)'
  BY <1>1, <1>2, <1>3, SameOps DEF CallInv
<1> QED
  BY <1>2, <1>4, <1>5, <1>6, CallEffect

\* The blobs of a batch are among those that are left.
LEMMA BatchIsLeft ==
    ASSUME NEW D, NEW batch \in NextBatches(D)
    PROVE  batch \subseteq D
BY DEF NextBatches

\* A batch request is answered: the ops of its blobs are finished, one way or the other.
LEMMA BatchUpdateKeeps ==
    ASSUME CASInv, NEW c \in Caller, NEW batch \in SUBSET call[c].smalls,
           NEW good \in SUBSET batch, BatchUpdate(c, batch, good)
    PROVE  CASInv'
<1> USE DEF CASInv
<1>1. /\ call[c].pc = "upload" /\ server' = server \cup good
      /\ UNCHANGED <<known, lost>>
  BY DEF BatchUpdate
<1>2. call[c] \in Call /\ CallInv(c) /\ call[c].new \subseteq Blob
  BY DEF CASType, Call
<1>3. batch \subseteq call[c].new /\ good \subseteq call[c].new
  BY <1>1, <1>2 DEF CallInv
<1>4. \A d \in call[c].new : /\ Op(c, d) \in DOMAIN ops
                             /\ Op(c, d).caller = c /\ Op(c, d).blob = d
  BY <1>1, <1>2, OpFields DEF CallInv
<1>5. /\ DOMAIN ops' = DOMAIN ops
      /\ \A d \in good : ops'[Op(c, d)] = "nil"
      /\ \A d \in batch \ good : ops'[Op(c, d)] = "err"
      /\ \A o \in DOMAIN ops : (\A d \in batch : o # Op(c, d)) => ops'[o] = ops[o]
  <2> DEFINE nil == {Op(c, d) : d \in good}
             bad == {Op(c, d) : d \in batch \ good}
  <2>1. ops' = [o \in DOMAIN ops |-> IF o \in nil THEN "nil" ELSE IF o \in bad THEN "err" ELSE ops[o]]
    BY DEF BatchUpdate
  <2>2. \A d \in good : Op(c, d) \in nil
    OBVIOUS
  <2>3. \A d \in batch \ good : Op(c, d) \in bad /\ Op(c, d) \notin nil
    BY <1>3, <1>4
  <2>4. \A o : (\A d \in batch : o # Op(c, d)) => o \notin nil /\ o \notin bad
    OBVIOUS
  <2> HIDE DEF nil, bad
  <2> QED
    BY <1>3, <1>4, <2>1, <2>2, <2>3, <2>4
<1>6. \A d \in call[c].new \ batch : ops'[Op(c, d)] = ops[Op(c, d)]
  BY <1>3, <1>4, <1>5
<1>7. OpsEffect(c)
  BY <1>1, <1>3, <1>4, <1>5 DEF OpsEffect
<1>8. KnownEffect(c)
  BY <1>1 DEF KnownEffect, CASType
<1>9. \A o \in DOMAIN ops : o.caller = c /\ ops'[o] = "open" => o.blob \in call[c].new
  BY <1>7 DEF OpsEffect, OpenIsKnown
<1>10. CASE good = batch
  <2> DEFINE r == [call[c] EXCEPT !.smalls = @ \ batch]
  <2>1. call' = [call EXCEPT ![c] = r]
    BY <1>10 DEF BatchUpdate
  <2>2. /\ r \in Call /\ r.pc = "upload" /\ r.n = call[c].n /\ r.todo = call[c].todo
        /\ r.new = call[c].new /\ r.pend = call[c].pend
        /\ r.smalls = call[c].smalls \ batch /\ r.larges = call[c].larges
    BY <1>1, <1>2 DEF Call
  <2> HIDE DEF r
  <2>3. call'[c] = r
    BY <2>1 DEF CASType
  <2>4. CallInv(c)'
    <3>1. \A d \in call[c].new : d \in r.smalls \cup r.larges \/
                                   (ops'[Op(c, d)] # "open" /\ (ops'[Op(c, d)] = "nil" \/ d \in lost))
      BY <1>1, <1>2, <1>5, <1>6, <1>10, <2>2 DEF CallInv, Sent
    <3>2. \A d \in Blob : Op(c, d)' = Op(c, d)
      BY <2>2, <2>3, SameOps
    <3> QED
      BY <1>1, <1>2, <1>5, <2>2, <2>3, <3>1, <3>2 DEF CallInv, Sent
  <2> QED
    BY <1>1, <1>2, <1>3, <1>7, <1>8, <1>9, <2>1, <2>2, <2>4, CallEffect DEF CASType
<1>11. CASE good # batch
  <2>1. PICK r \in Call : /\ call' = [call EXCEPT ![c] = r]
                          /\ r.pc = "return" /\ r.err = TRUE
                          /\ r.n = call[c].n /\ r.new = call[c].new /\ r.pend = call[c].pend
    BY <1>11, FailRecord DEF BatchUpdate
  <2>2. call'[c] = r
    BY <2>1 DEF CASType
  <2>3. CallInv(c)'
    BY <1>1, <1>2, <1>5, <2>1, <2>2, SameOps DEF CallInv
  <2> QED
    BY <1>1, <1>2, <1>3, <1>7, <1>8, <1>9, <2>1, <2>3, CallEffect DEF CASType
<1> QED
  BY <1>10, <1>11

\* A stream ends, and with it its op; if it failed, the blob is lost.
LEMMA StreamKeeps ==
    ASSUME CASInv, NEW c \in Caller, NEW d \in call[c].larges, Stream(c, d) \/ StreamFail(c, d)
    PROVE  CASInv'
<1> USE DEF CASInv
<1> DEFINE r == [call[c] EXCEPT !.larges = @ \ {d}]
<1>1. /\ call[c].pc = "upload" /\ call' = [call EXCEPT ![c] = r]
      /\ UNCHANGED known
      /\ server \subseteq server' /\ server' \subseteq server \cup {d} /\ lost \subseteq lost'
  BY DEF Stream, StreamFail
<1>2. call[c] \in Call /\ CallInv(c) /\ call[c].new \subseteq Blob
  BY DEF CASType, Call
<1>3. d \in call[c].new /\ d \in Blob
  BY <1>1, <1>2 DEF CallInv
<1>4. PICK st \in {"nil", "err"} : /\ Done(c, {d}, st)
                                   /\ st = "nil" => d \in server'
                                   /\ st = "err" => d \in lost'
  BY DEF Stream, StreamFail
<1>5. \A b \in call[c].new : /\ Op(c, b) \in DOMAIN ops
                             /\ Op(c, b).caller = c /\ Op(c, b).blob = b
  BY <1>1, <1>2, OpFields DEF CallInv
<1>6. /\ DOMAIN ops' = DOMAIN ops /\ ops'[Op(c, d)] = st
      /\ \A o \in DOMAIN ops : o # Op(c, d) => ops'[o] = ops[o]
  <2>1. Op(c, d) \in DOMAIN ops
    BY <1>3, <1>5
  <2> QED
    BY <1>4, <2>1, DoneOne
<1>7. /\ r \in Call /\ r.pc = "upload" /\ r.n = call[c].n /\ r.todo = call[c].todo
      /\ r.new = call[c].new /\ r.pend = call[c].pend
      /\ r.smalls = call[c].smalls /\ r.larges = call[c].larges \ {d}
  BY <1>1, <1>2 DEF Call
<1> HIDE DEF r
<1>8. call'[c] = r
  BY <1>1 DEF CASType
<1>9. OpsEffect(c)
  BY <1>3, <1>4, <1>5, <1>6 DEF OpsEffect
<1>10. KnownEffect(c)
  BY <1>1 DEF KnownEffect, CASType
<1>11. \A o \in DOMAIN ops : o.caller = c /\ ops'[o] = "open" => o.blob \in r.new
  BY <1>7, <1>9 DEF OpsEffect, OpenIsKnown
<1>12. CallInv(c)'
  <2>1. \A b \in call[c].new : b \in r.smalls \cup r.larges \/
                                 (ops'[Op(c, b)] # "open" /\ (ops'[Op(c, b)] = "nil" \/ b \in lost'))
    <3> SUFFICES ASSUME NEW b \in call[c].new, b \notin r.smalls \cup r.larges
                 PROVE  ops'[Op(c, b)] # "open" /\ (ops'[Op(c, b)] = "nil" \/ b \in lost')
      OBVIOUS
    <3>1. CASE b = d
      BY <1>4, <1>6, <3>1
    <3>2. CASE b # d
      <4>1. ops'[Op(c, b)] = ops[Op(c, b)]
        BY <1>3, <1>5, <1>6, <3>2
      <4> QED
        BY <1>1, <1>2, <1>7, <3>2, <4>1 DEF CallInv, Sent
    <3> QED
      BY <3>1, <3>2
  <2>2. \A b \in Blob : Op(c, b)' = Op(c, b)
    BY <1>7, <1>8, SameOps
  <2> QED
    BY <1>1, <1>2, <1>6, <1>7, <1>8, <2>1, <2>2 DEF CallInv, Sent
<1> QED
  BY <1>1, <1>3, <1>7, <1>9, <1>10, <1>11, <1>12, CallEffect DEF CASType

\* An op of another call is finished, or all are: the call goes on, or returns.
LEMMA WaitKeeps ==
    ASSUME CASInv, NEW c \in Caller, Wait(c) \/ WaitCanceled(c) \/ Waited(c)
    PROVE  CASInv'
<1> USE DEF CASInv
<1>1. /\ call[c].pc \in {"claim", "upload"} /\ call[c].todo = {} /\ UNCHANGED <<server, known, ops, lost>>
  BY DEF Wait, WaitCanceled, Waited, Waiting, CallInv
<1>2. call[c] \in Call /\ CallInv(c) /\ call[c].new \subseteq Blob
  BY DEF CASType, Call
<1>3. CASE Fail(c)
  BY <1>1, <1>3, FailKeeps DEF CASType
<1>4. CASE Waited(c)
  <2> DEFINE r == [call[c] EXCEPT !.pc = "return"]
  <2>1. call' = [call EXCEPT ![c] = r]
    BY <1>4 DEF Waited
  <2>2. /\ r \in Call /\ r.pc = "return" /\ r.n = call[c].n /\ r.todo = call[c].todo
        /\ r.new = call[c].new /\ r.pend = call[c].pend
    BY <1>2 DEF Call
  <2> HIDE DEF r
  <2>3. call'[c] = r
    BY <2>1 DEF CASType
  <2>4. \A d \in call[c].new : ops[Op(c, d)] # "open" /\ Sent(c, d)
    BY <1>2, <1>4 DEF Waited, Waiting, CallInv
  <2>5. call[c].pend = {}
    BY <1>4 DEF Waited
  <2>6. CallInv(c)'
    <3>1. \A d \in Blob : Op(c, d)' = Op(c, d)
      BY <2>2, <2>3, SameOps
    <3> QED
      BY <1>1, <1>2, <2>2, <2>3, <2>4, <2>5, <3>1 DEF CallInv, Sent
  <2> QED
    BY <1>1, <2>1, <2>2, <2>6, CallOnly
<1>5. ASSUME NEW o \in call[c].pend, call' = [call EXCEPT ![c].pend = @ \ {o}] PROVE CASInv'
  <2> DEFINE r == [call[c] EXCEPT !.pend = @ \ {o}]
  <2>1. call' = [call EXCEPT ![c] = r]
    BY <1>5
  <2>2. /\ r \in Call /\ r.pc = call[c].pc /\ r.n = call[c].n /\ r.todo = call[c].todo
        /\ r.new = call[c].new /\ r.pend = call[c].pend \ {o}
        /\ r.smalls = call[c].smalls /\ r.larges = call[c].larges
    BY <1>2 DEF Call
  <2> HIDE DEF r
  <2>3. call'[c] = r
    BY <2>1 DEF CASType
  <2>4. CallInv(c)'
    <3>1. \A d \in Blob : Op(c, d)' = Op(c, d)
      BY <2>2, <2>3, SameOps
    <3> QED
      BY <1>1, <1>2, <2>2, <2>3, <3>1 DEF CallInv, Sent
  <2> QED
    BY <1>1, <2>1, <2>2, <2>4, CallOnly
<1> QED
  BY <1>3, <1>4, <1>5 DEF Wait, WaitCanceled

\* The deferred function: the op of d is finished afterwards, and if it stays in the
\* map, it is finished there.
LEMMA SettleKeeps ==
    ASSUME CASInv, NEW c \in Caller, NEW d \in call[c].new, Settle(c, d)
    PROVE  CASInv'
<1> USE DEF CASInv
<1> DEFINE r == [call[c] EXCEPT !.new = @ \ {d}]
<1>1. /\ call[c].pc = "return" /\ call' = [call EXCEPT ![c] = r] /\ UNCHANGED <<server, lost>>
  BY DEF Settle
<1>2. call[c] \in Call /\ CallInv(c) /\ call[c].new \subseteq Blob /\ d \in Blob
  BY DEF CASType, Call
<1>3. \A b \in call[c].new : /\ Op(c, b) \in DOMAIN ops /\ Op(c, b) \in OpId
                             /\ Op(c, b).caller = c /\ Op(c, b).blob = b
  BY <1>1, <1>2, OpFields DEF CallInv
<1>4. /\ r \in Call /\ r.pc = "return" /\ r.n = call[c].n /\ r.todo = call[c].todo
      /\ r.new = call[c].new \ {d} /\ r.pend = call[c].pend /\ r.err = call[c].err
  BY <1>1, <1>2 DEF Call
<1> HIDE DEF r
<1>5. call'[c] = r
  BY <1>1 DEF CASType
<1>6. /\ DOMAIN ops' = DOMAIN ops
      /\ ops'[Op(c, d)] = ops[Op(c, d)] \/ ops'[Op(c, d)] = "err"
      /\ ops'[Op(c, d)] # "open"
      /\ \A o \in DOMAIN ops : o # Op(c, d) => ops'[o] = ops[o]
  <2>1. Op(c, d) \in DOMAIN ops
    BY <1>3
  <2>2. CASE ops[Op(c, d)] = "open" /\ Done(c, {d}, "err")
    <3>1. /\ DOMAIN ops' = DOMAIN ops /\ ops'[Op(c, d)] = "err"
          /\ \A o \in DOMAIN ops : o # Op(c, d) => ops'[o] = ops[o]
      BY <2>1, <2>2, DoneOne
    <3> QED
      BY <3>1
  <2>3. CASE ops[Op(c, d)] # "open" /\ UNCHANGED ops
    BY <2>3
  <2> QED
    BY <2>2, <2>3 DEF Settle
<1>7. OpsEffect(c)
  BY <1>3, <1>6 DEF OpsEffect
<1>8. KnownEffect(c)
  <2>1. CASE ops[Op(c, d)] = "nil" /\ known' = [known EXCEPT ![d] = IF @ = Op(c, d) THEN Present ELSE @]
    <3>1. d \in server
      BY <1>3, <2>1 DEF KnownIsThere
    <3> QED
      BY <1>1, <1>2, <1>3, <1>6, <2>1, <3>1 DEF KnownEffect, CASType
  <2>2. CASE known' = [known EXCEPT ![d] = IF @ = Op(c, d) THEN Absent ELSE @]
    BY <1>2, <1>3, <1>6, <2>2 DEF KnownEffect, CASType
  <2>3. CASE UNCHANGED known
    BY <2>3 DEF KnownEffect, CASType
  <2> QED
    BY <2>1, <2>2, <2>3 DEF Settle
<1>9. ASSUME NEW o \in DOMAIN ops, o.caller = c, ops'[o] = "open" PROVE o.blob \in r.new
  <2>1. ops[o] = "open" /\ o \in OpId
    BY <1>7, <1>9 DEF OpsEffect, CASType
  <2>2. o.blob \in call[c].new /\ o = Op(c, o.blob)
    BY <1>9, <2>1, OpIsRecord DEF OpenIsKnown
  <2> QED
    BY <1>4, <1>6, <1>9, <2>2
<1>10. CallInv(c)'
  <2>1. \A b \in Blob : Op(c, b)' = Op(c, b)
    BY <1>4, <1>5, SameOps
  <2>2. \A b \in r.new : ops'[Op(c, b)] = ops[Op(c, b)]
    BY <1>2, <1>3, <1>4, <1>6
  <2> QED
    BY <1>1, <1>2, <1>4, <1>5, <1>6, <2>1, <2>2 DEF CallInv, Sent
<1> QED
  BY <1>1, <1>4, <1>7, <1>8, <1>9, <1>10, CallEffect DEF CASType

\* Every step of a call keeps CASInv.
LEMMA CallStepKeeps ==
    ASSUME CASInv, NEW c \in Caller, CallStep(c)
    PROVE  CASInv'
<1>1. /\ call[c] \in Call /\ CallInv(c) /\ call[c].todo \subseteq Blob /\ server \subseteq Blob
      /\ call[c].smalls \subseteq Blob
  BY DEF CASInv, CASType, Call
<1>2. ASSUME NEW d \in call[c].todo, Claim(c, d) PROVE CASInv'
  BY <1>1, <1>2, ClaimKeeps
<1>3. CASE Missing(c) \/ MissingFail(c)
  BY <1>3, MissingKeeps, MissingFailKeeps
<1>4. CASE LookupFail(c)
  BY <1>1, <1>4, FailKeeps DEF LookupFail
<1>5. ASSUME NEW batch \in NextBatches(call[c].smalls), NEW S \in SUBSET batch,
             BatchUpdate(c, batch, S) \/ BatchFail(c, S)
      PROVE  CASInv'
  <2>1. batch \subseteq call[c].smalls
    BY BatchIsLeft
  <2>2. CASE BatchUpdate(c, batch, S)
    BY <2>1, <2>2, BatchUpdateKeeps
  <2>3. CASE BatchFail(c, S)
    BY <1>1, <2>1, <2>3, FailKeeps DEF BatchFail
  <2> QED
    BY <1>5, <2>2, <2>3
<1>6. ASSUME NEW d \in call[c].larges, Stream(c, d) \/ StreamFail(c, d) PROVE CASInv'
  BY <1>6, StreamKeeps
<1>7. CASE Wait(c) \/ WaitCanceled(c) \/ Waited(c)
  BY <1>7, WaitKeeps
<1>8. ASSUME NEW d \in call[c].new, Settle(c, d) PROVE CASInv'
  BY <1>8, SettleKeeps
<1> QED
  BY <1>2, <1>3, <1>4, <1>5, <1>6, <1>7, <1>8 DEF CallStep

-----------------------------------------------------------------------------
(***************************************************************************)
(* What the steps of a call do for its caller.                             *)
(***************************************************************************)
\* Nothing but blobs of newBlobs is stored, and what the call was given is not dropped.
Progress(c) ==
    /\ server \subseteq server' /\ lost \subseteq lost'
    /\ server' \subseteq server \cup call[c].new
    /\ \A e \in Caller \ {c} : call'[e] = call[e]
    /\ call'[c].todo \cup call'[c].new \subseteq call[c].todo \cup call[c].new

Covers(c, D) == Covered(c, D) => Covered(c, D)'

\* A step that fails, or that changes neither what is to be done nor who is waited for.
LEMMA FailProgress ==
    ASSUME CASType, NEW c \in Caller, Fail(c),
           server \subseteq server', server' \subseteq server \cup call[c].new, UNCHANGED lost,
           NEW D
    PROVE  Progress(c) /\ Covers(c, D)
<1>1. PICK r \in Call : /\ call' = [call EXCEPT ![c] = r] /\ r.err = TRUE
                        /\ r.todo = call[c].todo /\ r.new = call[c].new
  BY FailRecord
<1>2. \A e \in Caller : call'[e] = IF e = c THEN r ELSE call[e]
  BY <1>1 DEF CASType
<1> QED
  BY <1>1, <1>2 DEF Progress, Covers, Covered

\* The call keeps its blobs and whom it waits for, and may store some of them.
LEMMA PlainProgress ==
    ASSUME CASType, NEW c \in Caller, NEW r, call' = [call EXCEPT ![c] = r],
           r.err = call[c].err, r.todo = call[c].todo, r.new = call[c].new, r.pend = call[c].pend,
           server \subseteq server', server' \subseteq server \cup call[c].new, lost \subseteq lost',
           NEW D
    PROVE  Progress(c) /\ Covers(c, D)
<1>1. \A e \in Caller : call'[e] = IF e = c THEN r ELSE call[e]
  BY DEF CASType
<1> QED
  BY <1>1 DEF Progress, Covers, Covered, There

\* A blob that is looked up is stored, waited for, or the call has an op for it.
LEMMA ClaimProgress ==
    ASSUME CASInv, NEW c \in Caller, NEW d \in Blob, Claim(c, d), NEW D
    PROVE  Progress(c) /\ Covers(c, D)
<1> USE DEF CASInv
<1>1. call[c] \in Call /\ d \in call[c].todo /\ UNCHANGED <<server, lost>>
  BY DEF CASType, Claim
<1>2. PICK r : /\ call' = [call EXCEPT ![c] = r]
               /\ r.todo = call[c].todo \ {d} /\ r.err = call[c].err
               /\ call[c].new \subseteq r.new /\ r.new \subseteq call[c].new \cup {d}
               /\ call[c].pend \subseteq r.pend
               /\ d \in r.new \cup server \/ \E o \in r.pend : o.blob = d
  <2>1. CASE known[d] = Present
    <3> DEFINE r == [call[c] EXCEPT !.todo = @ \ {d}]
    <3>1. call' = [call EXCEPT ![c] = r]
      BY <2>1, OpIsRecord, Distinct DEF Claim
    <3>2. /\ r.todo = call[c].todo \ {d} /\ r.err = call[c].err
          /\ r.new = call[c].new /\ r.pend = call[c].pend
      BY <1>1 DEF Call
    <3>3. d \in server
      BY <2>1 DEF KnownIsThere
    <3> HIDE DEF r
    <3> QED
      BY <3>1, <3>2, <3>3
  <2>2. CASE known[d] \in OpId
    <3> DEFINE r == [call[c] EXCEPT !.todo = @ \ {d}, !.pend = @ \cup {known[d]}]
    <3>1. call' = [call EXCEPT ![c] = r]
      BY <2>2, OpIsRecord DEF Claim
    <3>2. /\ r.todo = call[c].todo \ {d} /\ r.err = call[c].err
          /\ r.new = call[c].new /\ r.pend = call[c].pend \cup {known[d]}
      BY <1>1 DEF Call
    <3>3. known[d].blob = d
      BY <2>2 DEF KnownIsMade
    <3> HIDE DEF r
    <3> QED
      BY <3>1, <3>2, <3>3
  <2>3. CASE known[d] = Absent
    <3> DEFINE r == [call[c] EXCEPT !.todo = @ \ {d}, !.new = @ \cup {d}]
    <3>1. call' = [call EXCEPT ![c] = r]
      BY <2>3, OpIsRecord, Distinct DEF Claim
    <3>2. /\ r.todo = call[c].todo \ {d} /\ r.err = call[c].err
          /\ r.new = call[c].new \cup {d} /\ r.pend = call[c].pend
      BY <1>1 DEF Call
    <3> HIDE DEF r
    <3> QED
      BY <3>1, <3>2
  <2> QED
    BY <2>1, <2>2, <2>3 DEF Claim
<1>3. \A e \in Caller : call'[e] = IF e = c THEN r ELSE call[e]
  BY <1>2 DEF CASType
<1> QED
  BY <1>1, <1>2, <1>3 DEF Progress, Covers, Covered, There

\* newBlobs loses only what is in the storage.
LEMMA MissingProgress ==
    ASSUME CASInv, NEW c \in Caller, Missing(c), NEW D
    PROVE  Progress(c) /\ Covers(c, D)
<1> USE DEF CASInv
<1> DEFINE missing == call[c].new \ server
           r == [call[c] EXCEPT !.pc = "upload", !.new = missing,
                                !.smalls = missing \ Larges(missing), !.larges = Larges(missing)]
<1>1. call[c] \in Call /\ UNCHANGED <<server, lost>> /\ call' = [call EXCEPT ![c] = r]
  BY DEF CASType, Missing
<1>2. /\ r.todo = call[c].todo /\ r.err = call[c].err
      /\ r.new = call[c].new \ server /\ r.pend = call[c].pend
  BY <1>1 DEF Call
<1> HIDE DEF r
<1>3. \A e \in Caller : call'[e] = IF e = c THEN r ELSE call[e]
  BY <1>1 DEF CASType
<1> QED
  BY <1>1, <1>2, <1>3 DEF Progress, Covers, Covered, There

\* An op leaves newBlobs when its blob is stored, is lost, or the call failed.
LEMMA SettleProgress ==
    ASSUME CASInv, NEW c \in Caller, NEW d \in call[c].new, Settle(c, d), NEW D
    PROVE  Progress(c) /\ Covers(c, D)
<1> USE DEF CASInv
<1> DEFINE r == [call[c] EXCEPT !.new = @ \ {d}]
<1>1. /\ call[c] \in Call /\ call[c].pc = "return" /\ d \in Blob /\ CallInv(c)
      /\ UNCHANGED <<server, lost>> /\ call' = [call EXCEPT ![c] = r]
  BY DEF CASType, Call, Settle
<1>2. /\ r.todo = call[c].todo /\ r.err = call[c].err
      /\ r.new = call[c].new \ {d} /\ r.pend = call[c].pend
  BY <1>1 DEF Call
<1> HIDE DEF r
<1>3. \A e \in Caller : call'[e] = IF e = c THEN r ELSE call[e]
  BY <1>1 DEF CASType
<1>4. call[c].err \/ d \in There
  BY <1>1, OpFields DEF CallInv, Sent, KnownIsThere, There
<1> QED
  BY <1>1, <1>2, <1>3, <1>4 DEF Progress, Covers, Covered, There

\* A call stops waiting for an op when the blob is stored, or with an error.
LEMMA WaitProgress ==
    ASSUME CASInv, NEW c \in Caller, Wait(c), NEW D
    PROVE  Progress(c) /\ Covers(c, D)
<1> USE DEF CASInv
<1>1. call[c] \in Call /\ CallInv(c) /\ UNCHANGED <<server, lost>>
  BY DEF CASType, Wait
<1>2. CASE Fail(c)
  BY <1>1, <1>2, FailProgress
<1>3. ASSUME NEW o \in call[c].pend, ops[o] = "nil", call' = [call EXCEPT ![c].pend = @ \ {o}]
      PROVE  Progress(c) /\ Covers(c, D)
  <2> DEFINE r == [call[c] EXCEPT !.pend = @ \ {o}]
  <2>1. call' = [call EXCEPT ![c] = r]
    BY <1>3
  <2>2. /\ r.todo = call[c].todo /\ r.err = call[c].err
        /\ r.new = call[c].new /\ r.pend = call[c].pend \ {o}
    BY <1>1 DEF Call
  <2> HIDE DEF r
  <2>3. \A e \in Caller : call'[e] = IF e = c THEN r ELSE call[e]
    BY <2>1 DEF CASType
  <2>4. o.blob \in server
    BY <1>1, <1>3 DEF CallInv, KnownIsThere
  <2> QED
    BY <1>1, <2>2, <2>3, <2>4 DEF Progress, Covers, Covered, There
<1> QED
  BY <1>2, <1>3 DEF Wait

\* No step of a call drops a blob silently, and none stores what it has no op for.
LEMMA CallStepProgress ==
    ASSUME CASInv, NEW c \in Caller, CallStep(c), NEW D
    PROVE  Progress(c) /\ Covers(c, D)
<1> USE DEF CASInv
<1>1. call[c] \in Call /\ CallInv(c) /\ call[c].todo \subseteq Blob
  BY DEF CASType, Call
<1>2. ASSUME NEW d \in call[c].todo, Claim(c, d) PROVE Progress(c) /\ Covers(c, D)
  BY <1>1, <1>2, ClaimProgress
<1>3. CASE Missing(c)
  BY <1>3, MissingProgress
<1>4. CASE MissingFail(c) \/ LookupFail(c) \/ WaitCanceled(c)
  BY <1>4, FailProgress DEF MissingFail, LookupFail, WaitCanceled
<1>5. ASSUME NEW batch \in NextBatches(call[c].smalls), NEW S \in SUBSET batch,
             BatchUpdate(c, batch, S) \/ BatchFail(c, S)
      PROVE  Progress(c) /\ Covers(c, D)
  <2>1. S \subseteq call[c].new
    BY <1>1, <1>5, BatchIsLeft DEF CallInv, BatchUpdate, BatchFail
  <2>2. server' = server \cup S /\ UNCHANGED lost
    BY <1>5 DEF BatchUpdate, BatchFail
  <2>3. CASE Fail(c)
    BY <2>1, <2>2, <2>3, FailProgress
  <2>4. CASE call' = [call EXCEPT ![c].smalls = @ \ batch]
    <3> DEFINE r == [call[c] EXCEPT !.smalls = @ \ batch]
    <3>1. /\ call' = [call EXCEPT ![c] = r]
          /\ r.todo = call[c].todo /\ r.err = call[c].err
          /\ r.new = call[c].new /\ r.pend = call[c].pend
      BY <1>1, <2>4 DEF Call
    <3> HIDE DEF r
    <3> QED
      BY <2>1, <2>2, <3>1, PlainProgress
  <2> QED
    BY <1>5, <2>3, <2>4 DEF BatchUpdate, BatchFail
<1>6. ASSUME NEW d \in call[c].larges, Stream(c, d) \/ StreamFail(c, d)
      PROVE  Progress(c) /\ Covers(c, D)
  <2> DEFINE r == [call[c] EXCEPT !.larges = @ \ {d}]
  <2>1. /\ call' = [call EXCEPT ![c] = r]
        /\ r.todo = call[c].todo /\ r.err = call[c].err
        /\ r.new = call[c].new /\ r.pend = call[c].pend
    BY <1>1, <1>6 DEF Call, Stream, StreamFail
  <2>2. d \in call[c].new
    BY <1>1, <1>6 DEF CallInv, Stream, StreamFail
  <2>3. server \subseteq server' /\ server' \subseteq server \cup {d} /\ lost \subseteq lost'
    BY <1>6 DEF Stream, StreamFail
  <2> HIDE DEF r
  <2> QED
    BY <2>1, <2>2, <2>3, PlainProgress
<1>7. CASE Wait(c)
  BY <1>7, WaitProgress
<1>8. CASE Waited(c)
  <2> DEFINE r == [call[c] EXCEPT !.pc = "return"]
  <2>1. /\ call' = [call EXCEPT ![c] = r]
        /\ r.todo = call[c].todo /\ r.err = call[c].err
        /\ r.new = call[c].new /\ r.pend = call[c].pend
        /\ UNCHANGED <<server, lost>>
    BY <1>1, <1>8 DEF Call, Waited
  <2> HIDE DEF r
  <2> QED
    BY <2>1, PlainProgress
<1>9. ASSUME NEW d \in call[c].new, Settle(c, d) PROVE Progress(c) /\ Covers(c, D)
  BY <1>9, SettleProgress
<1> QED
  BY <1>2, <1>3, <1>4, <1>5, <1>6, <1>7, <1>8, <1>9 DEF CallStep

-----------------------------------------------------------------------------
(***************************************************************************)
(* The inductive invariant of RemoteExec.                                  *)
(***************************************************************************)
Inv == CASInv /\ RemoteInv

\* What a step that was given t counts on does not go away.
StaysUsable(t) == Usable(t) => Usable(t)'

\* It can only go away when subtree.init moves on.
LEMMA UsableStays ==
    ASSUME NEW t \in Subtree, sub'[t] = sub[t], There \subseteq There', listed \subseteq listed'
    PROVE  StaysUsable(t)
BY DEF StaysUsable, Usable, Trusted

\* A call that returned nil has all its blobs stored, or their streams failed.
LEMMA ReturnedIsThere ==
    ASSUME CASInv, NEW c \in Caller, Returned(c), ~call[c].err, NEW D, Covered(c, D)
    PROVE  D \subseteq There
BY DEF CASInv, CallInv, Returned, Covered

\* A call that begins covers what it is given.
LEMMA UploadAllCovers ==
    ASSUME CASInv, NEW c \in Caller, NEW ds, UploadAll(c, ds)
    PROVE  /\ UNCHANGED <<server, lost>> /\ Covered(c, ds)'
           /\ call'[c].todo = ds /\ call'[c].new = {}
           /\ \A e \in Caller \ {c} : call'[e] = call[e]
<1> DEFINE r == [Idle EXCEPT !.pc = "claim", !.n = call[c].n + 1, !.todo = ds]
<1>1. call' = [call EXCEPT ![c] = r] /\ UNCHANGED <<server, lost>>
  BY DEF UploadAll
<1>2. r.todo = ds /\ r.new = {}
  BY DEF Idle
<1> HIDE DEF r
<1>3. \A e \in Caller : call'[e] = IF e = c THEN r ELSE call[e]
  BY <1>1 DEF CASInv, CASType
<1> QED
  BY <1>1, <1>2, <1>3 DEF Covered

\* A step or a subtree that does not move.
LEMMA StepStays ==
    ASSUME NEW s \in Step, StepInv(s), step'[s] = step[s], There \subseteq There',
           \A D : Covers(s, D), \A t \in Subtree : StaysUsable(t)
    PROVE  StepInv(s)'
<1>1. PICK D : D = Store[s][step[s].trees]
  OBVIOUS
<1>2. Store[s][step'[s].trees] = D
  BY <1>1
<1>3. Covered(s, D) => Covered(s, D)'
  BY DEF Covers
<1>4. step[s].pc \in {"prepare", "upload", "execute"} => \A t \in step[s].trees : Usable(t)'
  BY RemoteAssumption DEF StepInv, StaysUsable
<1> QED
  BY <1>1, <1>2, <1>3, <1>4 DEF StepInv, Covered

\* The same for a subtree.
LEMMA SubStays ==
    ASSUME NEW t \in Subtree, SubInv(t), sub'[t] = sub[t], There \subseteq There',
           listed \subseteq listed', Covers(t, TreeStore[t] \ {Root[t]}), Covers(t, {Root[t]})
    PROVE  SubInv(t)'
BY UsableStays DEF SubInv, Covers, StaysUsable

\* A caller whose call does not move stays covered.
LEMMA CallStays ==
    ASSUME NEW c \in Caller, call'[c] = call[c], There \subseteq There', NEW D
    PROVE  Covers(c, D)
BY DEF Covers, Covered

\* A step of c's call keeps RemoteInv.
LEMMA CallsKeep ==
    ASSUME Inv, NEW c \in Caller, Calls(c)
    PROVE  RemoteInv'
<1> USE DEF Inv, RemoteInv
<1>1. CallStep(c) /\ UNCHANGED <<step, sub, listed>>
  BY DEF Calls, remoteVars
<1>2. Progress(c) /\ \A D : Covers(c, D)
  BY <1>1, CallStepProgress
<1>3. There \subseteq There'
  BY <1>2 DEF Progress, There
<1>4. \A e \in Caller : \A D : Covers(e, D)
  BY <1>2, <1>3, CallStays DEF Progress
<1>5. RemoteType'
  BY <1>1 DEF RemoteType
<1>6. RootMeansTree'
  <2> SUFFICES ASSUME NEW t \in Subtree, Root[t] \in server' 
               PROVE TreeStore[t] \subseteq There' \/ t \in listed
    BY <1>1 DEF RootMeansTree
  <2>1. CASE Root[t] \in server
    BY <1>3, <2>1 DEF RootMeansTree
  <2>2. CASE Root[t] \in call[c].new
    BY <1>3, <2>2 DEF RootIsLast, There
  <2> QED
    BY <1>2, <2>1, <2>2 DEF Progress
<1>7. RootIsLast'
  BY <1>1, <1>2, <1>3 DEF RootIsLast, Progress
<1>8. \A t \in Subtree : SubInv(t)' /\ StaysUsable(t)
  BY <1>1, <1>3, <1>4, SubStays, UsableStays, RemoteAssumption
<1>9. \A s \in Step : StepInv(s)'
  BY <1>1, <1>3, <1>4, <1>8, StepStays, RemoteAssumption
<1> QED
  BY <1>5, <1>6, <1>7, <1>8, <1>9

\* A step that moves neither the storage nor a call.
LEMMA QuietStep ==
    ASSUME Inv, UNCHANGED <<server, lost, call, listed>>, RemoteType',
           \A t \in Subtree : sub'[t] = sub[t] \/ (SubInv(t)' /\ StaysUsable(t)),
           \A s \in Step : step'[s] = step[s] \/ StepInv(s)'
    PROVE  RemoteInv'
<1> USE DEF Inv, RemoteInv
<1>1. There' = There /\ \A c \in Caller : \A D : Covers(c, D)
  BY CallStays DEF There
<1>2. RootMeansTree' /\ RootIsLast'
  BY <1>1 DEF RootMeansTree, RootIsLast
<1>3. \A t \in Subtree : SubInv(t)' /\ StaysUsable(t)
  BY <1>1, SubStays, UsableStays, RemoteAssumption
<1>4. \A s \in Step : StepInv(s)'
  BY <1>1, <1>3, StepStays, RemoteAssumption
<1> QED
  BY <1>2, <1>3, <1>4

\* A caller that makes a call: the roots of others are listed, its own is the last.
LEMMA UploadStep ==
    ASSUME Inv, NEW c \in Caller, NEW ds \in SUBSET Blob, Upload(c, ds), RemoteType',
           c \in Subtree /\ Root[c] \in ds => TreeStore[c] \ {Root[c]} \subseteq There,
           \A t \in Subtree \ {c} : sub'[t] = sub[t],
           \A s \in Step \ {c} : step'[s] = step[s],
           c \in Subtree => SubInv(c)' /\ StaysUsable(c),
           c \in Step => StepInv(c)'
    PROVE  RemoteInv'
<1> USE DEF Inv, RemoteInv
<1>1. /\ UNCHANGED <<server, lost>>
      /\ call'[c].todo = ds /\ call'[c].new = {}
      /\ \A e \in Caller \ {c} : call'[e] = call[e]
      /\ listed \subseteq listed' /\ \A t \in Subtree \ {c} : Root[t] \in ds => t \in listed'
  BY UploadAllCovers DEF Upload
<1>2. There' = There /\ \A e \in Caller \ {c} : \A D : Covers(e, D)
  BY <1>1, CallStays DEF There
<1>3. RootMeansTree' /\ RootIsLast'
  BY <1>1, <1>2 DEF RootMeansTree, RootIsLast
<1>4. \A t \in Subtree : SubInv(t)' /\ StaysUsable(t)
  BY <1>1, <1>2, SubStays, UsableStays, RemoteAssumption
<1>5. \A s \in Step : StepInv(s)'
  BY <1>2, <1>4, StepStays, RemoteAssumption
<1> QED
  BY <1>3, <1>4, <1>5

\* The actions of a step, other than those of its call.
LEMMA StepKeeps ==
    ASSUME Inv, NEW s \in Step,
           TreeInput(s) \/ TreesReady(s) \/ PrepareFail(s) \/ Prepared(s) \/ Execute(s)
    PROVE  RemoteInv'
<1> USE DEF Inv, RemoteInv
<1>0. s \in Caller /\ Uses[s] \subseteq Subtree /\ step[s] \in StepRec
  BY RemoteAssumption DEF RemoteType
<1>1. CASE TreeInput(s)
  <2>1. /\ step' = [step EXCEPT ![s].pc = "trees"] /\ UNCHANGED <<server, lost, call, listed>>
        /\ sub' = [t \in Subtree |-> IF t \in Uses[s] /\ sub[t].pc = "none"
                                     THEN [sub[t] EXCEPT !.pc = "ask"] ELSE sub[t]]
    BY <1>1 DEF TreeInput, casVars
  <2>2. \A t \in Subtree : /\ sub'[t] \in SubRec
                           /\ sub'[t].ready = sub[t].ready /\ sub'[t].err = sub[t].err
                           /\ sub'[t].pc = sub[t].pc \/ (sub[t].pc = "none" /\ sub'[t].pc = "ask")
    BY <2>1 DEF RemoteType, SubRec
  <2>3. step' \in [Step -> StepRec] /\ step'[s].pc = "trees"
    BY <2>1 DEF RemoteType, StepRec
  <2>4. sub' \in [Subtree -> SubRec]
    BY <2>1, <2>2
  <2>5. \A t \in Subtree : SubInv(t)' /\ StaysUsable(t)
    <3> TAKE t \in Subtree
    <3>1. StaysUsable(t)
      BY <2>1, <2>2 DEF StaysUsable, Usable, Trusted, There
    <3> QED
      BY <2>1, <2>2, <3>1 DEF SubInv, StaysUsable, Covered, There
  <2>6. StepInv(s)'
    BY <2>3 DEF StepInv
  <2>7. \A r \in Step \ {s} : step'[r] = step[r]
    BY <2>1 DEF RemoteType
  <2> QED
    BY <2>1, <2>3, <2>4, <2>5, <2>6, <2>7, QuietStep DEF RemoteType
<1>2. ASSUME NEW r \in StepRec, step' = [step EXCEPT ![s] = r],
             UNCHANGED <<server, lost, call, sub, listed>>, StepInv(s)'
      PROVE  RemoteInv'
  <2>1. RemoteType' /\ \A q \in Step \ {s} : step'[q] = step[q]
    BY <1>2 DEF RemoteType
  <2> QED
    BY <1>2, <2>1, QuietStep
<1>3. CASE TreesReady(s)
  <2> DEFINE r == [step[s] EXCEPT !.pc = "prepare", !.trees = {t \in Uses[s] : ~sub[t].err}]
  <2>1. step' = [step EXCEPT ![s] = r] /\ UNCHANGED <<server, lost, call, sub, listed>>
    BY <1>3 DEF TreesReady, casVars
  <2>2. r \in StepRec /\ r.pc = "prepare" /\ r.trees = {t \in Uses[s] : ~sub[t].err}
    BY <1>0 DEF StepRec
  <2> HIDE DEF r
  <2>3. step'[s] = r
    BY <2>1 DEF RemoteType
  <2>4. \A t \in r.trees : Usable(t)'
    BY <1>0, <1>3, <2>1, <2>2 DEF TreesReady, SubInv, Usable, Trusted, There
  <2>5. StepInv(s)'
    BY <2>1, <2>2, <2>3, <2>4 DEF StepInv
  <2> QED
    BY <1>2, <2>1, <2>2, <2>5
<1>4. ASSUME NEW p \in {"prepare", "execute", "done", "failed"}, step' = [step EXCEPT ![s].pc = p],
             step[s].pc \in {"prepare", "upload", "execute"},
             p = "execute" => Store[s][step[s].trees] \subseteq There,
             UNCHANGED <<server, lost, call, sub, listed>>
      PROVE  RemoteInv'
  <2> DEFINE r == [step[s] EXCEPT !.pc = p]
  <2>1. step' = [step EXCEPT ![s] = r]
    BY <1>4
  <2>2. r \in StepRec /\ r.pc = p /\ r.trees = step[s].trees
    BY <1>0 DEF StepRec
  <2> HIDE DEF r
  <2>3. step'[s] = r
    BY <2>1 DEF RemoteType
  <2>4. StepInv(s)'
    BY <1>4, <2>2, <2>3 DEF StepInv, Usable, Trusted, There
  <2> QED
    BY <1>2, <1>4, <2>1, <2>2, <2>4
<1>5. CASE PrepareFail(s)
  BY <1>4, <1>5 DEF PrepareFail, casVars
<1>6. CASE Prepared(s)
  <2>1. /\ step[s].pc = "upload" /\ Returned(s) /\ UNCHANGED <<server, lost, call, sub, listed>>
    BY <1>6 DEF Prepared, casVars
  <2>2. CASE call[s].err
    BY <1>4, <1>6, <2>1, <2>2 DEF Prepared, Again
  <2>3. CASE ~call[s].err
    <3>1. Store[s][step[s].trees] \subseteq There
      BY <1>0, <2>1, <2>3, ReturnedIsThere DEF StepInv
    <3> QED
      BY <1>4, <1>6, <2>1, <2>3, <3>1 DEF Prepared
  <2> QED
    BY <2>2, <2>3
<1>7. CASE Execute(s)
  BY <1>4, <1>7 DEF Execute, Again, casVars
<1> QED
  BY <1>1, <1>3, <1>5, <1>6, <1>7

\* prepareInputs calls UploadAll: the roots in the store of the action are listed.
LEMMA PrepareKeeps ==
    ASSUME Inv, NEW s \in Step, Prepare(s)
    PROVE  RemoteInv'
<1> USE DEF Inv, RemoteInv
<1> DEFINE r == [step[s] EXCEPT !.pc = "upload"]
<1>1. /\ s \in Caller /\ s \notin Subtree
      /\ step[s] \in StepRec /\ step[s].pc = "prepare" /\ step[s].trees \subseteq Uses[s]
  BY RemoteAssumption DEF RemoteType, Prepare, StepInv
<1>2. PICK D : D = Store[s][step[s].trees]
  OBVIOUS
<1>3. D \in SUBSET Blob
  <2>1. step[s].trees \in SUBSET Uses[s]
    BY <1>1
  <2>2. Store[s] \in [SUBSET Uses[s] -> SUBSET Blob]
    BY RemoteAssumption
  <2> QED
    BY <1>2, <2>1, <2>2
<1>4. Upload(s, D) /\ step' = [step EXCEPT ![s] = r] /\ UNCHANGED sub
  BY <1>2 DEF Prepare
<1>5. r \in StepRec /\ r.pc = "upload" /\ r.trees = step[s].trees
  BY <1>1 DEF StepRec
<1>6. UNCHANGED <<server, lost>> /\ Covered(s, D)' /\ listed \subseteq listed'
  BY <1>1, <1>4, UploadAllCovers DEF Upload
<1> HIDE DEF r
<1>7. step'[s] = r /\ \A q \in Step \ {s} : step'[q] = step[q]
  BY <1>4 DEF RemoteType
<1>8. RemoteType'
  BY <1>4, <1>5 DEF RemoteType
<1>9. StepInv(s)'
  <2>1. Store[s][step'[s].trees] = D /\ There' = There
    BY <1>2, <1>5, <1>6, <1>7 DEF There
  <2>2. \A t \in step[s].trees : Usable(t)'
    BY <1>1, <1>4, <1>6, <2>1 DEF StepInv, Usable, Trusted
  <2> QED
    BY <1>1, <1>5, <1>6, <1>7, <2>1, <2>2 DEF StepInv, Covered
<1> QED
  BY <1>1, <1>3, <1>4, <1>7, <1>8, <1>9, UploadStep

\* The actions of subtree.init that make no call.
LEMMA SubKeeps ==
    ASSUME Inv, NEW t \in Subtree, AskRoot(t) \/ InitFails(t) \/ InitEnds(t)
    PROVE  RemoteInv'
<1> USE DEF Inv, RemoteInv
<1>1. t \in Caller /\ sub[t] \in SubRec
  BY RemoteAssumption DEF RemoteType
<1>2. ASSUME NEW r \in SubRec, sub' = [sub EXCEPT ![t] = r], r.pc \in {"data", "end"},
             r.pc = "data" => ~r.err /\ (r.ready => TreeStore[t] \subseteq There \/ t \in listed),
             r.pc = "end" => r.err \/ TreeStore[t] \subseteq There,
             UNCHANGED <<server, lost, call, step, listed>>
      PROVE  RemoteInv'
  <2>1. RemoteType' /\ sub'[t] = r /\ \A u \in Subtree \ {t} : sub'[u] = sub[u]
    BY <1>2 DEF RemoteType
  <2>2. SubInv(t)' /\ StaysUsable(t)
    BY <1>2, <2>1 DEF SubInv, StaysUsable, Usable, Trusted, There
  <2> QED
    BY <1>2, <2>1, <2>2, QuietStep
<1>3. CASE AskRoot(t)
  <2>1. sub[t].pc = "ask" /\ UNCHANGED <<server, lost, call, step, listed>>
    BY <1>3 DEF AskRoot
  <2>2. CASE sub' = [sub EXCEPT ![t].pc = "data"]
    <3> DEFINE r == [sub[t] EXCEPT !.pc = "data"]
    <3>1. sub' = [sub EXCEPT ![t] = r]
      BY <2>2
    <3>2. r \in SubRec /\ r.pc = "data" /\ r.ready = sub[t].ready /\ r.err = sub[t].err
      BY <1>1 DEF SubRec
    <3>3. ~r.err /\ (r.ready => TreeStore[t] \subseteq There \/ t \in listed)
      BY <2>1, <3>2 DEF SubInv, Usable, Trusted
    <3> HIDE DEF r
    <3> QED
      BY <1>2, <2>1, <3>1, <3>2, <3>3
  <2>3. CASE Root[t] \in server /\ sub' = [sub EXCEPT ![t].pc = "data", ![t].ready = TRUE]
    <3> DEFINE r == [sub[t] EXCEPT !.pc = "data", !.ready = TRUE]
    <3>1. sub' = [sub EXCEPT ![t] = r]
      BY <2>3
    <3>2. r \in SubRec /\ r.pc = "data" /\ ~r.err
      BY <1>1, <2>1 DEF SubRec, SubInv
    <3>3. TreeStore[t] \subseteq There \/ t \in listed
      BY <2>3 DEF RootMeansTree
    <3> HIDE DEF r
    <3> QED
      BY <1>2, <2>1, <3>1, <3>2, <3>3
  <2> QED
    BY <1>3, <2>2, <2>3 DEF AskRoot
<1>4. CASE InitFails(t)
  <2> DEFINE r == [sub[t] EXCEPT !.pc = "end", !.ready = TRUE, !.err = TRUE]
  <2>1. sub' = [sub EXCEPT ![t] = r] /\ UNCHANGED <<server, lost, call, step, listed>>
    BY <1>4 DEF InitFails, casVars
  <2>2. r \in SubRec /\ r.pc = "end" /\ r.err = TRUE
    BY <1>1 DEF SubRec
  <2> HIDE DEF r
  <2> QED
    BY <1>2, <2>1, <2>2
<1>5. CASE InitEnds(t)
  <2> DEFINE r == [sub[t] EXCEPT !.pc = "end", !.ready = TRUE, !.err = call[t].err]
  <2>1. sub' = [sub EXCEPT ![t] = r] /\ UNCHANGED <<server, lost, call, step, listed>>
    BY <1>5 DEF InitEnds, casVars
  <2>2. call[t].err \in BOOLEAN
    BY <1>1 DEF CASInv, CASType, Call
  <2>3. r \in SubRec /\ r.pc = "end" /\ r.err = call[t].err
    BY <1>1, <2>2 DEF SubRec
  <2>4. ASSUME ~call[t].err PROVE TreeStore[t] \subseteq There
    <3>1. sub[t].pc = "rootWait" /\ Returned(t)
      BY <1>5, <2>4 DEF InitEnds
    <3>2. TreeStore[t] \ {Root[t]} \subseteq There /\ Covered(t, {Root[t]})
      BY <3>1 DEF SubInv
    <3>3. {Root[t]} \subseteq There
      BY <1>1, <2>4, <3>1, <3>2, ReturnedIsThere
    <3> QED
      BY <3>2, <3>3
  <2> HIDE DEF r
  <2> QED
    BY <1>2, <2>1, <2>3, <2>4
<1> QED
  BY <1>3, <1>4, <1>5

\* fullUpload: the blobs that are not the root, then the root.
LEMMA UploadTreeKeeps ==
    ASSUME Inv, NEW t \in Subtree, UploadData(t) \/ UploadRoot(t)
    PROVE  RemoteInv'
<1> USE DEF Inv, RemoteInv
<1>1. /\ t \in Caller /\ t \notin Step /\ sub[t] \in SubRec
      /\ TreeStore[t] \subseteq Blob /\ Root[t] \in TreeStore[t]
  BY RemoteAssumption DEF RemoteType
<1>2. CASE UploadData(t)
  <2> DEFINE r == [sub[t] EXCEPT !.pc = "dataWait"]
             ds == TreeStore[t] \ {Root[t]}
  <2>1. Upload(t, ds) /\ sub[t].pc = "data" /\ sub' = [sub EXCEPT ![t] = r] /\ UNCHANGED step
    BY <1>2 DEF UploadData
  <2>2. r \in SubRec /\ r.pc = "dataWait" /\ r.ready = sub[t].ready /\ r.err = sub[t].err
    BY <1>1 DEF SubRec
  <2> HIDE DEF r
  <2>3. RemoteType' /\ sub'[t] = r /\ \A u \in Subtree \ {t} : sub'[u] = sub[u]
    BY <2>1, <2>2 DEF RemoteType
  <2>4. UNCHANGED <<server, lost>> /\ Covered(t, ds)' /\ listed \subseteq listed'
    BY <1>1, <2>1, UploadAllCovers DEF Upload
  <2>5. SubInv(t)' /\ StaysUsable(t)
    BY <2>1, <2>2, <2>3, <2>4 DEF SubInv, StaysUsable, Usable, Trusted, There
  <2>6. ds \in SUBSET Blob /\ Root[t] \notin ds
    BY <1>1
  <2> QED
    BY <1>1, <2>1, <2>3, <2>5, <2>6, UploadStep
<1>3. CASE UploadRoot(t)
  <2> DEFINE r == [sub[t] EXCEPT !.pc = "rootWait"]
  <2>1. Upload(t, {Root[t]}) /\ sub[t].pc = "dataWait" /\ sub' = [sub EXCEPT ![t] = r] /\ UNCHANGED step
    BY <1>3 DEF UploadRoot
  <2>2. r \in SubRec /\ r.pc = "rootWait" /\ r.ready = sub[t].ready /\ r.err = sub[t].err
    BY <1>1 DEF SubRec
  <2> HIDE DEF r
  <2>3. RemoteType' /\ sub'[t] = r /\ \A u \in Subtree \ {t} : sub'[u] = sub[u]
    BY <2>1, <2>2 DEF RemoteType
  <2>4. UNCHANGED <<server, lost>> /\ Covered(t, {Root[t]})' /\ listed \subseteq listed'
    BY <1>1, <2>1, UploadAllCovers DEF Upload
  <2>5. TreeStore[t] \ {Root[t]} \subseteq There
    <3>1. /\ sub[t].pc = "dataWait" /\ Returned(t) /\ ~call[t].err
          /\ Covered(t, TreeStore[t] \ {Root[t]})
      BY <1>3 DEF UploadRoot, SubInv
    <3> QED
      BY <1>1, <3>1, ReturnedIsThere
  <2>6. SubInv(t)' /\ StaysUsable(t)
    BY <2>1, <2>2, <2>3, <2>4, <2>5 DEF SubInv, StaysUsable, Usable, Trusted, There
  <2>7. {Root[t]} \in SUBSET Blob
    BY <1>1
  <2> QED
    BY <1>1, <2>1, <2>3, <2>5, <2>6, <2>7, UploadStep
<1> QED
  BY <1>2, <1>3

\* A client that has done nothing yet.
NewClient ==
    /\ server \subseteq Blob /\ RootMeansTree
    /\ known = Unknown /\ ops = <<>> /\ call = [c \in Caller |-> Idle]
    /\ step = Fresh.step /\ sub = Fresh.sub

\* A new client satisfies the invariant: only what is stored matters.
LEMMA FreshInv == NewClient => Inv
<1> SUFFICES ASSUME NewClient PROVE Inv
  OBVIOUS
<1> USE DEF NewClient
<1>1. DOMAIN ops = {}
  OBVIOUS
<1>2. /\ Idle \in Call /\ Idle.pc = "idle" /\ Idle.n = 0 /\ Idle.new = {} /\ Idle.todo = {}
      /\ Idle.pend = {}
  BY DEF Idle, Call
<1>3. \A c \in Caller : call[c] = Idle
  OBVIOUS
<1>4. \A d \in Blob : known[d] = Absent
  BY DEF Unknown
<1>5. CASType
  <2>1. known \in [Blob -> {Absent, Present} \cup OpId]
    BY DEF Unknown
  <2>2. call \in [Caller -> Call]
    BY <1>2
  <2> QED
    BY <1>1, <2>1, <2>2 DEF CASType
<1>6. KnownIsThere /\ KnownIsMade /\ OpenIsKnown
  BY <1>1, <1>4, Distinct, OpIsRecord DEF KnownIsThere, KnownIsMade, OpenIsKnown
<1>7. \A c \in Caller : CallInv(c)
  BY <1>2, <1>3 DEF CallInv
<1>8. /\ step = [s \in Step |-> [pc |-> "start", trees |-> {}]]
      /\ sub = [t \in Subtree |-> [pc |-> "none", ready |-> FALSE, err |-> FALSE]]
  BY DEF Fresh
<1>9. RemoteType
  BY <1>8 DEF RemoteType, StepRec, SubRec
<1>10. RootIsLast
  BY <1>2, <1>3 DEF RootIsLast
<1>11. (\A t \in Subtree : SubInv(t)) /\ \A s \in Step : StepInv(s)
  BY <1>8 DEF SubInv, StepInv
<1> QED
  BY <1>5, <1>6, <1>7, <1>9, <1>10, <1>11 DEF Inv, CASInv, RemoteInv

\* The storage at first: a root is there with what is below, or is listed.
LEMMA InitInv == Init => Inv
<1> SUFFICES ASSUME NEW stored \in Stored, CASInit(stored), step = Fresh.step, sub = Fresh.sub,
                    listed = {t \in Subtree : Root[t] \in stored /\ ~(TreeStore[t] \subseteq stored)}
             PROVE  NewClient
  BY FreshInv DEF Init
<1>1. server = stored /\ server \subseteq Blob
  BY RemoteAssumption DEF CASInit
<1>2. RootMeansTree
  BY <1>1 DEF RootMeansTree, There
<1> QED
  BY <1>1, <1>2 DEF CASInit, NewClient

\* Steps that touch neither the storage nor knownDigests nor a call keep CASInv.
LEMMA CASStays ==
    ASSUME CASInv, UNCHANGED <<server, known, ops, call, lost>>
    PROVE  CASInv'
<1>1. CASType' /\ KnownIsThere' /\ KnownIsMade' /\ OpenIsKnown'
  BY DEF CASInv, CASType, KnownIsThere, KnownIsMade, OpenIsKnown
<1>2. \A c \in Caller : CallInv(c)'
  BY DEF CASInv, CallInv, Sent, Op
<1> QED
  BY <1>1, <1>2 DEF CASInv

\* Every step keeps the invariant.
LEMMA NextKeeps == Inv /\ [Next]_vars => Inv'
<1> SUFFICES ASSUME Inv, [Next]_vars PROVE Inv'
  OBVIOUS
<1>1. ASSUME NEW c \in Caller, Calls(c) PROVE Inv'
  BY <1>1, CallStepKeeps, CallsKeep DEF Inv, Calls
<1>2. ASSUME UNCHANGED <<server, known, ops, call, lost>>, RemoteInv' PROVE Inv'
  BY <1>2, CASStays DEF Inv
<1>3. ASSUME NEW s \in Step, StepNext(s) PROVE Inv'
  <2>1. CASE TreeInput(s) \/ TreesReady(s) \/ PrepareFail(s) \/ Prepared(s) \/ Execute(s)
    <3>1. UNCHANGED casVars
      BY <2>1 DEF TreeInput, TreesReady, PrepareFail, Prepared, Execute
    <3> QED
      BY <1>2, <2>1, <3>1, StepKeeps DEF casVars
  <2>2. CASE Prepare(s)
    <3>1. PICK D : D = Store[s][step[s].trees]
      OBVIOUS
    <3>2. D \in SUBSET Blob /\ s \in Caller
      <4>1. step[s].trees \in SUBSET Uses[s]
        BY <2>2 DEF Inv, RemoteInv, StepInv, Prepare
      <4>2. Store[s] \in [SUBSET Uses[s] -> SUBSET Blob] /\ s \in Caller
        BY RemoteAssumption
      <4> QED
        BY <3>1, <4>1, <4>2
    <3>3. UploadAll(s, D)
      BY <2>2, <3>1 DEF Prepare, Upload
    <3> QED
      BY <2>2, <3>2, <3>3, UploadAllKeeps, PrepareKeeps DEF Inv
  <2>3. CASE Calls(s)
    BY <1>1, <2>3, RemoteAssumption
  <2> QED
    BY <1>3, <2>1, <2>2, <2>3 DEF StepNext
<1>4. ASSUME NEW t \in Subtree, SubtreeNext(t) PROVE Inv'
  <2>1. CASE AskRoot(t) \/ InitFails(t) \/ InitEnds(t)
    <3>1. UNCHANGED <<server, known, ops, call, lost>>
      BY <2>1 DEF AskRoot, InitFails, InitEnds, casVars
    <3> QED
      BY <1>2, <2>1, <3>1, SubKeeps
  <2>2. CASE UploadData(t) \/ UploadRoot(t)
    <3>1. t \in Caller /\ TreeStore[t] \ {Root[t]} \in SUBSET Blob /\ {Root[t]} \in SUBSET Blob
      BY RemoteAssumption
    <3>2. UploadAll(t, TreeStore[t] \ {Root[t]}) \/ UploadAll(t, {Root[t]})
      BY <2>2 DEF UploadData, UploadRoot, Upload
    <3> QED
      BY <2>2, <3>1, <3>2, UploadAllKeeps, UploadTreeKeeps DEF Inv
  <2>3. CASE Calls(t)
    BY <1>1, <2>3, RemoteAssumption
  <2> QED
    BY <1>4, <2>1, <2>2, <2>3 DEF SubtreeNext
<1>5. ASSUME UNCHANGED <<server, known, ops, call, lost, step, sub, listed>> PROVE Inv'
  <2>1. RemoteInv'
    BY <1>5, QuietStep DEF Inv, RemoteInv, RemoteType
  <2> QED
    BY <1>2, <1>5, <2>1
<1>6. ASSUME Restart PROVE Inv'
  <2>1. NewClient'
    BY <1>6 DEF Restart, NewClient, Inv, CASInv, CASType, RemoteInv, RootMeansTree, There
  <2>2. NewClient' => Inv'
    BY FreshInv, PTL
  <2> QED
    BY <2>1, <2>2
<1> QED
  <2>1. CASE UNCHANGED vars
    BY <1>5, <2>1 DEF vars, casVars, remoteVars
  <2>2. CASE Cancel({t \in Subtree : sub[t].ready}) /\ UNCHANGED remoteVars
    BY <1>5, <2>2 DEF Cancel, remoteVars
  <2> QED
    BY <1>3, <1>4, <1>6, <2>1, <2>2 DEF Next

-----------------------------------------------------------------------------
\* The inductive invariant of the uploads and of the remote steps.
THEOREM InvCorrect == Spec => []Inv
BY InitInv, NextKeeps, PTL DEF Spec

\* A blob that knownDigests holds true for, or whose op ended with nil, is in the
\* storage, whatever calls fail, are canceled or wait for each other (UploadAll).
THEOREM KnownIsThereCorrect == Spec => []KnownIsThere
<1>1. Inv => KnownIsThere
  BY DEF Inv, CASInv
<1> QED
  BY <1>1, InvCorrect, PTL

\* An open op is the one in knownDigests, and its call works on it and waits for no
\* other: no two uploads of a blob at a time, no circle of waits (UploadAll).
THEOREM OneUploaderCorrect == Spec => []OneUploader
<1>1. Inv => OneUploader
  <2> SUFFICES ASSUME Inv, NEW o \in DOMAIN ops, ops[o] = "open"
               PROVE  /\ known[o.blob] = o
                      /\ call[o.caller].n = o.n /\ o.blob \in call[o.caller].new
                      /\ ~Waiting(o.caller)
    BY DEF OneUploader
  <2>1. /\ known[o.blob] = o
        /\ call[o.caller].n = o.n /\ o.blob \in call[o.caller].new
    BY DEF Inv, CASInv, OpenIsKnown
  <2>2. o \in OpId /\ o.caller \in Caller /\ o = Op(o.caller, o.blob)
    BY <2>1, OpIsRecord DEF Inv, CASInv, CASType
  <2>3. CallInv(o.caller)
    BY <2>2 DEF Inv, CASInv
  <2>4. ~Waiting(o.caller)
    BY <2>1, <2>2, <2>3 DEF Waiting, CallInv
  <2> QED
    BY <2>1, <2>4
<1> QED
  BY <1>1, InvCorrect, PTL

\* When Execute is called, all that the action names is in the storage, except blobs
\* whose stream failed and those of a subtree whose root others have sent, while init
\* has not uploaded it (prepareInputs, subtree.init, UploadAll).
THEOREM ServiceSeesInputsCorrect == Spec => []ServiceSeesInputs
<1>1. Inv => ServiceSeesInputs
  BY DEF Inv, RemoteInv, StepInv, ServiceSeesInputs, Usable
<1> QED
  BY <1>1, InvCorrect, PTL
=============================================================================
