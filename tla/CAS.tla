-------------------------------- MODULE CAS --------------------------------
(***************************************************************************)
(* Client.UploadAll of reapi: concurrent calls upload sets of blobs to the *)
(* content-addressable storage of the service.  The map knownDigests holds *)
(* true for a blob that is known to be there, or the uploadOp of the call  *)
(* that is uploading it, on which other calls wait.                        *)
(* An uploadOp is named by its blob, its call and the number of that call. *)
(* Its state is "open" (errUploadNotFinished), "nil" or "err"; both of the *)
(* last close its channel.                                                 *)
(* Blobs that were stored are not evicted while siso runs.                 *)
(***************************************************************************)
EXTENDS Naturals, Sequences, FiniteSets, SequencesExt

CONSTANTS
    Caller,      \* goroutines that call UploadAll, one call at a time
    Blob,        \* digests
    Size,        \* the size of the request for a blob
    ByteLimit,   \* MaxBatchTotalSizeBytes of the service, less an empty request
    BatchLimit,  \* batchBlobUploadLimit
    MaxCalls     \* MaxCalls[c]: bound on the calls of caller c

ASSUME CASAssumption ==
    /\ Size \in [Blob -> Nat]
    /\ ByteLimit \in Nat \ {0} /\ BatchLimit \in Nat \ {0} /\ MaxCalls \in [Caller -> Nat]

VARIABLES
    server,      \* the blobs in the storage
    known,       \* knownDigests
    ops,         \* the state of every uploadOp that was made
    call,        \* where each caller is, see Idle
    canceled,    \* the callers whose context is canceled
    lost         \* history: blobs whose stream failed, see StreamFail

casVars == <<server, known, ops, call, canceled, lost>>

OpId == {o \in [blob : Blob, caller : Caller, n : Nat] : o.n \in 1..MaxCalls[o.caller]}

\* Values of knownDigests other than the ops.
Absent == [known |-> FALSE]
Present == [known |-> TRUE]

\* Before the first call.  todo: blobs not looked up in knownDigests; new: the blobs
\* this call has an op for, newBlobs; pend: ops of others, pendingBlobs; smalls: blobs
\* left for requests of BatchUpdateBlobs; larges: blobs left to be streamed.
Idle == [pc |-> "idle", n |-> 0, todo |-> {}, new |-> {}, pend |-> {},
         smalls |-> {}, larges |-> {}, err |-> FALSE]

Unknown == [d \in Blob |-> Absent]

\* server is what earlier runs and other clients left there.
CASInit(stored) ==
    /\ server = stored
    /\ known = Unknown
    /\ ops = <<>>
    /\ call = [c \in Caller |-> Idle]
    /\ canceled = {}
    /\ lost = {}

Op(c, d) == [blob |-> d, caller |-> c, n |-> call[c].n]

\* The ops of c for the blobs D get the state st.
Done(c, D, st) ==
    LET own == {Op(c, d) : d \in D}
    IN ops' = [o \in DOMAIN ops \cup own |-> IF o \in own THEN st ELSE ops[o]]

\* The call ends; the deferred function, Settle, comes next.
Fail(c) == call' = [call EXCEPT ![c].pc = "return", ![c].err = TRUE]

\* UploadAll has returned, with the error err if it is set.
Returned(c) == call[c].pc = "return" /\ call[c].new = {}

-----------------------------------------------------------------------------
UploadAll(c, ds) ==
    /\ (call[c].pc = "idle" \/ Returned(c))
    /\ call[c].n < MaxCalls[c]
    /\ call' = [call EXCEPT ![c] = [Idle EXCEPT !.pc = "claim", !.n = call[c].n + 1, !.todo = ds]]
    /\ UNCHANGED <<server, known, ops, canceled, lost>>

\* Mutant: Load and Store instead of LoadOrStore; an op of another call is replaced.
ClaimAlways(c, d) ==
    /\ call[c].pc = "claim" /\ d \in call[c].todo
    /\ IF known[d] = Present
       THEN call' = [call EXCEPT ![c].todo = @ \ {d}] /\ UNCHANGED <<known, ops>>
       ELSE /\ call' = [call EXCEPT ![c].todo = @ \ {d}, ![c].new = @ \cup {d}]
            /\ known' = [known EXCEPT ![d] = Op(c, d)]
            /\ Done(c, {d}, "open")
    /\ UNCHANGED <<server, canceled, lost>>

\* The three cases of a blob: it is there, another call uploads it, this one does.
Claim(c, d) ==
    /\ call[c].pc = "claim" /\ d \in call[c].todo
    /\ \/ /\ known[d] = Present
          /\ call' = [call EXCEPT ![c].todo = @ \ {d}]
          /\ UNCHANGED <<known, ops>>
       \/ /\ known[d] \in OpId
          /\ call' = [call EXCEPT ![c].todo = @ \ {d}, ![c].pend = @ \cup {known[d]}]
          /\ UNCHANGED <<known, ops>>
       \/ /\ known[d] = Absent
          /\ call' = [call EXCEPT ![c].todo = @ \ {d}, ![c].new = @ \cup {d}]
          /\ known' = [known EXCEPT ![d] = Op(c, d)]
          /\ Done(c, {d}, "open")
    /\ UNCHANGED <<server, canceled, lost>>

\* separateBlobs: what does not fit in a batch request alone is streamed.
Larges(D) == {d \in D : Size[d] >= ByteLimit}

Bytes(D) == MapThenSumSet(LAMBDA d : Size[d], D)

\* The blobs sorted by size; blobs of one size come in any order.
BySize(D) ==
    {s \in SetToSeqs(D) : \A i, j \in DOMAIN s : i < j => Size[s[i]] <= Size[s[j]]}

\* createBatchUpdateBlobsRequests: a batch is closed when it is full, or when the next
\* request would make it too large.
AddRequest(batches, d) ==
    IF \/ batches = <<>> \/ Len(Last(batches)) = BatchLimit
       \/ Bytes(ToSet(Last(batches))) + Size[d] > ByteLimit
    THEN Append(batches, <<d>>)
    ELSE Append(Front(batches), Append(Last(batches), d))

Batches(seq) == FoldLeft(AddRequest, <<>>, seq)

\* What may be the first batch when the blobs D are left: the smallest of them, as
\* many as fit.
NextBatches(D) ==
    {B \in SUBSET D \ {{}} :
        /\ Cardinality(B) <= BatchLimit /\ Bytes(B) <= ByteLimit
        /\ \A d \in B, e \in D \ B : Size[d] <= Size[e]
        /\ Cardinality(B) = BatchLimit \/ \A e \in D \ B : Bytes(B) + Size[e] > ByteLimit}

\* FindMissingBlobs.  What is not missing is there, and those who wait for it go on;
\* the rest is split in batches and streams.
Missing(c) ==
    LET found == call[c].new \cap server
        missing == call[c].new \ server
    IN /\ call[c].pc = "claim" /\ call[c].todo = {} /\ call[c].new # {}
       /\ known' = [d \in Blob |->
                       IF d \in found /\ known[d] = Op(c, d) THEN Present ELSE known[d]]
       /\ Done(c, found, "nil")
       /\ call' = [call EXCEPT ![c].pc = "upload", ![c].new = missing,
                               ![c].smalls = missing \ Larges(missing),
                               ![c].larges = Larges(missing)]
       /\ UNCHANGED <<server, canceled, lost>>

MissingFail(c) ==
    /\ call[c].pc = "claim" /\ call[c].todo = {} /\ call[c].new # {}
    /\ Done(c, call[c].new, "err")
    /\ Fail(c)
    /\ UNCHANGED <<server, known, canceled, lost>>

\* The contents of a blob cannot be read, before the first request: no op is finished.
LookupFail(c) ==
    /\ call[c].pc = "upload" /\ call[c].smalls # {}
    /\ call[c].smalls = call[c].new \ call[c].larges
    /\ Fail(c)
    /\ UNCHANGED <<server, known, ops, canceled, lost>>

\* The answer to a batch request has a status for each blob; if one is not OK, the
\* requests that are left, and the streams, are not made.
BatchUpdate(c, batch, good) ==
    /\ call[c].pc = "upload"
    /\ server' = server \cup good
    /\ ops' = [o \in DOMAIN ops |->
                  IF o \in {Op(c, d) : d \in good} THEN "nil"
                  ELSE IF o \in {Op(c, d) : d \in batch \ good} THEN "err"
                  ELSE ops[o]]
    /\ IF good = batch THEN call' = [call EXCEPT ![c].smalls = @ \ batch] ELSE Fail(c)
    /\ UNCHANGED <<known, canceled, lost>>

\* The request fails, its blobs may have been stored or not.
BatchFail(c, stored) ==
    /\ call[c].pc = "upload"
    /\ server' = server \cup stored
    /\ Fail(c)
    /\ UNCHANGED <<known, ops, canceled, lost>>

\* One goroutine of an errgroup per large blob, after the batches.  A blob is complete
\* for the service once the writer is closed.
Stream(c, d) ==
    /\ call[c].pc = "upload" /\ call[c].smalls = {} /\ d \in call[c].larges
    /\ server' = server \cup {d}
    /\ Done(c, {d}, "nil")
    /\ call' = [call EXCEPT ![c].larges = @ \ {d}]
    /\ UNCHANGED <<known, canceled, lost>>

\* The op gets the error, but upload returns nil: the call goes on.
StreamFail(c, d) ==
    /\ call[c].pc = "upload" /\ call[c].smalls = {} /\ d \in call[c].larges
    /\ server' \in {server, server \cup {d}}
    /\ Done(c, {d}, "err")
    /\ call' = [call EXCEPT ![c].larges = @ \ {d}]
    /\ lost' = lost \cup {d}
    /\ UNCHANGED <<known, canceled>>

\* The own uploads are made, or there are none: what is left are those of others.
Waiting(c) ==
    \/ call[c].pc = "claim" /\ call[c].todo = {} /\ call[c].new = {}
    \/ call[c].pc = "upload" /\ call[c].smalls = {} /\ call[c].larges = {}

Wait(c) ==
    /\ Waiting(c)
    /\ \E o \in call[c].pend :
          /\ ops[o] # "open"
          /\ IF ops[o] = "nil" THEN call' = [call EXCEPT ![c].pend = @ \ {o}] ELSE Fail(c)
    /\ UNCHANGED <<server, known, ops, canceled, lost>>

WaitCanceled(c) ==
    /\ Waiting(c) /\ call[c].pend # {} /\ c \in canceled
    /\ Fail(c)
    /\ UNCHANGED <<server, known, ops, canceled, lost>>

Waited(c) ==
    /\ Waiting(c) /\ call[c].pend = {}
    /\ call' = [call EXCEPT ![c].pc = "return"]
    /\ UNCHANGED <<server, known, ops, canceled, lost>>

\* Mutant: an op that was not finished is taken for a finished one.
SettleUnfinished(c, d) ==
    LET o == Op(c, d)
    IN /\ call[c].pc = "return" /\ d \in call[c].new
       /\ call' = [call EXCEPT ![c].new = @ \ {d}]
       /\ known' = [known EXCEPT ![d] = IF ops[o] = "err" THEN Absent ELSE Present]
       /\ Done(c, {d}, IF ops[o] = "open" THEN "nil" ELSE ops[o])
       /\ UNCHANGED <<server, canceled, lost>>

\* The deferred function, for one blob of newBlobs: a finished op becomes true, a
\* failed one leaves the map; an op that was not finished gets the error of the call
\* and stays in the map.
Settle(c, d) ==
    LET o == Op(c, d)
    IN /\ call[c].pc = "return" /\ d \in call[c].new
       /\ call' = [call EXCEPT ![c].new = @ \ {d}]
       /\ \/ /\ ops[o] = "nil"
             /\ known' = [known EXCEPT ![d] = IF @ = o THEN Present ELSE @]
             /\ UNCHANGED ops
          \/ /\ ops[o] = "open"
             /\ Done(c, {d}, "err")
             /\ UNCHANGED known
          \/ /\ ops[o] = "err"
             /\ known' = [known EXCEPT ![d] = IF @ = o THEN Absent ELSE @]
             /\ UNCHANGED ops
       /\ UNCHANGED <<server, canceled, lost>>

\* The signal handler cancels the context of the build; detached calls have one that
\* is not canceled with it.
Cancel(detached) ==
    /\ canceled = {}
    /\ canceled' = Caller \ detached
    /\ UNCHANGED <<server, known, ops, call, lost>>

\* A step of a call that was made.
CallStep(c) ==
    \/ \E d \in call[c].todo : Claim(c, d)
    \/ Missing(c) \/ MissingFail(c)
    \/ LookupFail(c)
    \/ \E batch \in NextBatches(call[c].smalls) : \E S \in SUBSET batch :
          BatchUpdate(c, batch, S) \/ BatchFail(c, S)
    \/ \E d \in call[c].larges : Stream(c, d) \/ StreamFail(c, d)
    \/ Wait(c) \/ WaitCanceled(c) \/ Waited(c)
    \/ \E d \in call[c].new : Settle(c, d)

CASNext ==
    \/ \E c \in Caller : CallStep(c) \/ \E ds \in SUBSET Blob : UploadAll(c, ds)
    \/ \E detached \in SUBSET Caller : Cancel(detached)

CASSpec == (\E stored \in SUBSET Blob : CASInit(stored)) /\ [][CASNext]_casVars

-----------------------------------------------------------------------------
\* knownDigests never claims too much: a blob marked as uploaded, or whose op ended
\* without an error, is in the storage, whatever calls failed in between (UploadAll
\* and its deferred function).
KnownIsThere ==
    /\ \A d \in Blob : known[d] = Present => d \in server
    /\ \A o \in DOMAIN ops : ops[o] = "nil" => o.blob \in server

\* One uploader: two calls never have an open op for the same blob, and an open op is
\* found in knownDigests by all who need the blob (LoadOrStore).  Its call is still at
\* work on it and waits for nobody, so calls never wait for each other in a circle, or
\* for an op that is never closed.
OneUploader ==
    \A o \in DOMAIN ops : ops[o] = "open" =>
        /\ known[o.blob] = o
        /\ call[o.caller].n = o.n /\ o.blob \in call[o.caller].new /\ ~Waiting(o.caller)
=============================================================================
