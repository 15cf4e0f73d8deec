----------------------------- MODULE RemoteExec -----------------------------
(***************************************************************************)
(* Steps that run on the remote-execution service.  A step first asks for  *)
(* the subtrees of its inputs that are shared with other steps; each is    *)
(* digested once, and uploaded unless its root is in the storage already.  *)
(* Then it digests its action, uploads the blobs the service may miss and  *)
(* calls Execute.  On an error retry.Do may try it all again.              *)
(***************************************************************************)
EXTENDS CAS

CONSTANTS
    Step,       \* steps; Caller is Step and Subtree
    Subtree,
    Uses,       \* Uses[s]: the subtrees of the inputs of step s
    Store,      \* Store[s][T]: the digest store of the action of s when the subtrees T
                \* are given to it; the others are listed file by file
    TreeStore,  \* TreeStore[t]: the digests of subtree t
    Root,       \* Root[t]: the one of its directory
    Stored      \* what may be in the storage at first

ASSUME RemoteAssumption ==
    /\ Caller = Step \cup Subtree /\ Step \cap Subtree = {}
    /\ \A t \in Subtree : Root[t] \in TreeStore[t] /\ TreeStore[t] \subseteq Blob
    /\ \A s \in Step : Uses[s] \subseteq Subtree /\ Store[s] \in [SUBSET Uses[s] -> SUBSET Blob]
    /\ Stored \subseteq SUBSET Blob

VARIABLES
    step,       \* where each step is, and the subtrees it is given
    sub,        \* where subtree.init is; ready: once is done; err: st.err
    listed      \* history: the subtrees whose root came, or may have come, to the
                \* storage not as the last blob of its subtree: a step lists the files
                \* of that directory, or another subtree contains it

remoteVars == <<step, sub, listed>>
vars == <<casVars, remoteVars>>

-----------------------------------------------------------------------------
\* A client, its steps not started.
Fresh ==
    [step |-> [s \in Step |-> [pc |-> "start", trees |-> {}]],
     sub |-> [t \in Subtree |-> [pc |-> "none", ready |-> FALSE, err |-> FALSE]]]

Init ==
    /\ \E stored \in Stored :
          /\ CASInit(stored)
          /\ listed = {t \in Subtree : Root[t] \in stored /\ ~(TreeStore[t] \subseteq stored)}
    /\ step = Fresh.step /\ sub = Fresh.sub

\* UploadAll of a digest store.  Of two directories with the same contents the messages
\* are the same blob: the store of a tree holds the message of each of its directories.
Upload(c, ds) ==
    /\ UploadAll(c, ds)
    /\ listed' = listed \cup {t \in Subtree \ {c} : Root[t] \in ds}

\* treeInputs: the step that is first runs init of the subtree, others wait for it.
TreeInput(s) ==
    /\ step[s].pc = "start"
    /\ step' = [step EXCEPT ![s].pc = "trees"]
    /\ sub' = [t \in Subtree |->
                  IF t \in Uses[s] /\ sub[t].pc = "none"
                  THEN [sub[t] EXCEPT !.pc = "ask"] ELSE sub[t]]
    /\ UNCHANGED <<casVars, listed>>

\* subtree.init asks for the root.  If it is in the storage, the step goes on while
\* everything is uploaded in the background.
AskRoot(t) ==
    /\ sub[t].pc = "ask"
    /\ \/ sub' = [sub EXCEPT ![t].pc = "data"] /\ UNCHANGED canceled
       \/ /\ Root[t] \in server
          /\ sub' = [sub EXCEPT ![t].pc = "data", ![t].ready = TRUE]
          /\ canceled' = canceled \ {t}
    /\ UNCHANGED <<server, known, ops, call, lost, step, listed>>

\* The entries or the tree of the subtree have an error.
InitFails(t) ==
    /\ sub[t].pc = "ask"
    /\ sub' = [sub EXCEPT ![t].pc = "end", ![t].ready = TRUE, ![t].err = TRUE]
    /\ UNCHANGED <<casVars, step, listed>>

\* Mutant: one call uploads the root with the rest.
UploadDataAndRoot(t) ==
    /\ sub[t].pc = "data"
    /\ Upload(t, TreeStore[t])
    /\ sub' = [sub EXCEPT ![t].pc = "dataWait"]
    /\ UNCHANGED step

\* fullUpload: first what is not the root, then the root.
UploadData(t) ==
    /\ sub[t].pc = "data"
    /\ Upload(t, TreeStore[t] \ {Root[t]})
    /\ sub' = [sub EXCEPT ![t].pc = "dataWait"]
    /\ UNCHANGED step

UploadRoot(t) ==
    /\ sub[t].pc = "dataWait" /\ Returned(t) /\ ~call[t].err
    /\ Upload(t, {Root[t]})
    /\ sub' = [sub EXCEPT ![t].pc = "rootWait"]
    /\ UNCHANGED step

\* The end of init, or of its background upload.
InitEnds(t) ==
    /\ Returned(t)
    /\ sub[t].pc = "rootWait" \/ (sub[t].pc = "dataWait" /\ call[t].err)
    /\ sub' = [sub EXCEPT ![t].pc = "end", ![t].ready = TRUE, ![t].err = call[t].err]
    /\ UNCHANGED <<casVars, step, listed>>

\* The subtrees are ready; those that failed are left out of the command.
TreesReady(s) ==
    /\ step[s].pc = "trees"
    /\ \A t \in Uses[s] : sub[t].ready
    /\ step' = [step EXCEPT ![s].pc = "prepare", ![s].trees = {t \in Uses[s] : ~sub[t].err}]
    /\ UNCHANGED <<casVars, sub, listed>>

\* prepareInputs: the digest of the action, with a store of its own, and UploadAll.
Prepare(s) ==
    /\ step[s].pc = "prepare"
    /\ Upload(s, Store[s][step[s].trees])
    /\ step' = [step EXCEPT ![s].pc = "upload"]
    /\ UNCHANGED sub

\* The digest fails: an error of hashfs or of the tree, see ActionDigest.
PrepareFail(s) ==
    /\ step[s].pc = "prepare"
    /\ step' = [step EXCEPT ![s].pc = "failed"]
    /\ UNCHANGED <<casVars, sub, listed>>

\* An error is retried with the same subtrees, or not.
Again(s) ==
    \/ step' = [step EXCEPT ![s].pc = "failed"]
    \/ call[s].n < MaxCalls[s] /\ s \notin canceled /\ step' = [step EXCEPT ![s].pc = "prepare"]

Prepared(s) ==
    /\ step[s].pc = "upload" /\ Returned(s)
    /\ IF call[s].err THEN Again(s) ELSE step' = [step EXCEPT ![s].pc = "execute"]
    /\ UNCHANGED <<casVars, sub, listed>>

-----------------------------------------------------------------------------
\* What the service reads to run the action.
Needed(s) == Store[s][step[s].trees] \cup UNION {TreeStore[t] : t \in step[s].trees}

\* ExecuteAndWait.  The service refuses an action with missing blobs.
Execute(s) ==
    /\ step[s].pc = "execute"
    /\ \/ Needed(s) \subseteq server /\ step' = [step EXCEPT ![s].pc = "done"]
       \/ Again(s)
    /\ UNCHANGED <<casVars, sub, listed>>

\* siso is killed, or ends, and a new one runs: what is uploaded stays.
Restart ==
    /\ known' = Unknown /\ ops' = <<>> /\ canceled' = {}
    /\ call' = [c \in Caller |-> Idle]
    /\ step' = Fresh.step /\ sub' = Fresh.sub
    /\ UNCHANGED <<server, lost, listed>>

Terminated ==
    /\ \A s \in Step : step[s].pc \in {"done", "failed"}
    /\ \A t \in Subtree : sub[t].pc \in {"none", "end"}

Calls(c) == CallStep(c) /\ UNCHANGED remoteVars

StepNext(s) ==
    \/ TreeInput(s) \/ TreesReady(s) \/ Prepare(s) \/ PrepareFail(s)
    \/ Prepared(s) \/ Execute(s) \/ Calls(s)

SubtreeNext(t) == AskRoot(t) \/ InitFails(t) \/ UploadData(t) \/ UploadRoot(t) \/ InitEnds(t) \/ Calls(t)

Next ==
    \/ \E s \in Step : StepNext(s)
    \/ \E t \in Subtree : SubtreeNext(t)
    \/ Cancel({t \in Subtree : sub[t].ready}) /\ UNCHANGED remoteVars
    \/ Restart
    \/ Terminated /\ UNCHANGED vars

Spec == Init /\ [][Next]_vars

-----------------------------------------------------------------------------
There == server \cup lost

\* subtree.init has not uploaded the subtree (yet), and went by a root that others sent.
Trusted(t) == t \in listed /\ (sub[t].pc # "end" \/ sub[t].err)

\* When Execute is called, the service can read the whole action from the storage: no
\* blob is missing except one whose stream failed, or in a subtree that was taken for
\* stored because its root was, which a step or another subtree had sent
\* (prepareInputs, subtree.init, UploadAll).
ServiceSeesInputs ==
    \A s \in Step : step[s].pc = "execute" =>
        /\ Store[s][step[s].trees] \subseteq There
        /\ \A t \in step[s].trees : TreeStore[t] \subseteq There \/ Trusted(t)

\* "check subtree's root digest exist in CAS first. If so, we can assume subtree data
\* exist in CAS." (tree_input.go): when Execute is called, the subtrees that the step
\* was given are in the storage, except blobs whose stream failed.
SubtreeDataExist ==
    \A s \in Step : step[s].pc = "execute" =>
        \A t \in step[s].trees : TreeStore[t] \subseteq There
=============================================================================
