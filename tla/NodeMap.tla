------------------------------ MODULE NodeMap ------------------------------
(***************************************************************************)
(* nodeMap: the nodes of a build graph by path, filled by many goroutines  *)
(* without a lock. A slot holds a list of nodes; node() looks for the path *)
(* in the list it loaded, and otherwise puts a node of its own in front of *)
(* it if the slot has not changed, or starts again. The nodes come from a  *)
(* slab of the goroutine (a localNodeMap); one that was not needed goes    *)
(* back to the slab and is the next one handed out.                        *)
(*                                                                         *)
(* A node is <<m, i>>, the i-th of the slab of local map m; a list is the  *)
(* sequence of its nodes, from the head.                                   *)
(***************************************************************************)
EXTENDS Integers, Sequences, SequencesExt

CONSTANTS
    Local,          \* the local maps, one for each chunk of each file
    Path,           \* keys
    Slot,           \* a set of numbers, 0..nodeMapArraySize-1 in the code
    Hash(_),        \* the slot of a path
    NoNode

ASSUME NodeMapAssumption ==
    /\ \A p \in Path : Hash(p) \in Slot
    /\ NoNode \notin Local \X Nat

VARIABLES
    slots,          \* the list of each slot
    path,           \* the path written in each node of each slab
    slab,           \* nodes taken from each slab
    call,           \* the call of node() under way in each local map
    got             \* what the last call returned

nodeVars == <<slots, path, slab, call, got>>

Idle == [pc |-> "idle"]

Inserted == UNION {Range(slots[h]) : h \in Slot}

NodeMapInit ==
    /\ slots = [h \in Slot |-> <<>>]
    /\ path = <<>>
    /\ slab = [m \in Local |-> 0]
    /\ call = [m \in Local |-> Idle]
    /\ got = [m \in Local |-> NoNode]

\* A call of localNodeMap.node.
Node(m, key) ==
    /\ call[m] = Idle
    /\ call' = [call EXCEPT ![m] = [pc |-> "load", key |-> key, head |-> <<>>, new |-> NoNode]]
    /\ got' = [got EXCEPT ![m] = NoNode]
    /\ UNCHANGED <<slots, path, slab>>

Return(m, n) ==
    /\ call' = [call EXCEPT ![m] = Idle]
    /\ got' = [got EXCEPT ![m] = n]

\* slot.Load and the search of the list: the node is there. A node taken in an
\* earlier round goes back (unnew).
Found(m) ==
    /\ call[m].pc = "load"
    /\ \E n \in Range(slots[Hash(call[m].key)]) :
         /\ path[n] = call[m].key
         /\ Return(m, n)
    /\ slab' = [slab EXCEPT ![m] = IF call[m].new = NoNode THEN @ ELSE @ - 1]
    /\ UNCHANGED <<slots, path>>

\* It is not there: a node is taken, once for a call, to be put before the list.
NotFound(m) ==
    LET key == call[m].key
        head == slots[Hash(key)]
        new == IF call[m].new = NoNode THEN <<m, slab[m] + 1>> ELSE call[m].new
    IN /\ call[m].pc = "load"
       /\ \A n \in Range(head) : path[n] # key
       /\ call' = [call EXCEPT ![m].pc = "swap", ![m].head = head, ![m].new = new]
       /\ slab' = [slab EXCEPT ![m] = new[2]]
       /\ path' = [n \in DOMAIN path \cup {new} |-> IF n = new THEN key ELSE path[n]]
       /\ UNCHANGED <<slots, got>>

\* Mutant: the slot may have changed since it was loaded.
SwapAnyway(m) ==
    LET h == Hash(call[m].key)
    IN /\ call[m].pc = "swap"
       /\ slots' = [slots EXCEPT ![h] = <<call[m].new>> \o @]
       /\ Return(m, call[m].new)
       /\ UNCHANGED <<path, slab>>

\* slot.CompareAndSwap(head, newHead)
Swap(m) ==
    LET h == Hash(call[m].key)
    IN /\ call[m].pc = "swap"
       /\ slots[h] = call[m].head
       /\ slots' = [slots EXCEPT ![h] = <<call[m].new>> \o @]
       /\ Return(m, call[m].new)
       /\ UNCHANGED <<path, slab>>

SwapFails(m) ==
    /\ call[m].pc = "swap"
    /\ slots[Hash(call[m].key)] # call[m].head
    /\ call' = [call EXCEPT ![m].pc = "load"]
    /\ UNCHANGED <<slots, path, slab, got>>

NodeStep(m) == Found(m) \/ NotFound(m) \/ Swap(m) \/ SwapFails(m)

NodeMapNext == \E m \in Local : NodeStep(m) \/ \E key \in Path : Node(m, key)

NodeMapSpec == NodeMapInit /\ [][NodeMapNext]_nodeVars

\* nodeMap.freeze: the nodes in the order of their ids, 1, 2, ...
Freeze == FlattenSeq([i \in 1..Cardinality(Slot) |-> slots[SetToSortSeq(Slot, <)[i]]])

-----------------------------------------------------------------------------

(***************************************************************************)
(* Two nodes of the map never have one path, whichever goroutines asked    *)
(* for it at the same time (nodemap.go, node), and what a call returned is *)
(* in the map: a slab entry that was given back is not one that somebody   *)
(* uses.                                                                   *)
(***************************************************************************)
OneNode ==
    /\ \A h \in Slot : \A i, j \in DOMAIN slots[h] :
         path[slots[h][i]] = path[slots[h][j]] => i = j
    /\ \A m \in Local : got[m] # NoNode => got[m] \in Inserted
    /\ \A m \in Local : call[m] # Idle => call[m].new \notin Inserted
=============================================================================
