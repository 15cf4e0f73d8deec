---------------------------- MODULE MCRemoteExec ----------------------------
(***************************************************************************)
(* The inputs of s1 are a small file and a subtree with a large one; s2    *)
(* lists the large file by itself, and so has the message of its           *)
(* directory, the root of the subtree, in its store.  The other messages   *)
(* of the actions are left out: they are like inputs that nobody shares.   *)
(***************************************************************************)
EXTENDS RemoteExec, TLC

CONSTANTS s1, s2, t1,
          a,            \* an input of s1
          root, big,    \* the subtree: its directory and a large file
          x, y          \* blobs of no step, for BatchesFit

MCStep == {s1, s2}
MCSubtree == {t1}
MCCaller == MCStep \cup MCSubtree
MCBlob == {a, root, big, x, y}

MCUses == (s1 :> {t1}) @@ (s2 :> {})
MCStore == (s1 :> (({t1} :> {a}) @@ ({} :> {a, root, big}))) @@ (s2 :> ({} :> {root, big}))
MCTreeStore == (t1 :> {root, big})
MCRoot == (t1 :> root)

MCSize == [d \in MCBlob |-> CASE d = big -> 4 [] d = y -> 2 [] OTHER -> 1]
MCStored == {{}}
MCMaxCalls == (s1 :> 2) @@ (s2 :> 1) @@ (t1 :> 2)

\* createBatchUpdateBlobsRequests: the first batch of a list sorted by size is a next
\* batch of its blobs, in whatever order blobs of a size come, every next batch is the
\* first of some list, and the other batches are those of the rest of the list.
ASSUME BatchesFit ==
    \A D \in SUBSET Blob : LET small == D \ Larges(D) IN
        /\ {ToSet(Head(Batches(seq))) : seq \in BySize(small) \ {<<>>}} = NextBatches(small)
        /\ \A seq \in BySize(small) \ {<<>>} : LET first == Head(Batches(seq)) IN
              /\ IsPrefix(first, seq)
              /\ Tail(Batches(seq)) = Batches(SubSeq(seq, Len(first) + 1, Len(seq)))
=============================================================================
