--------------------------- MODULE NodeMapProofs ---------------------------
(***************************************************************************)
(* Proofs about NodeMap, for all sets of goroutines, paths and slots and   *)
(* every hash function.                                                    *)
(***************************************************************************)
EXTENDS NodeMap, TLAPS

SlabNode == Local \X Nat

Calls == [pc : {"load", "swap"}, key : Path, head : Seq(SlabNode),
          new : SlabNode \cup {NoNode}]

TypeOK ==
    /\ slots \in [Slot -> Seq(SlabNode)]
    /\ slab \in [Local -> Nat]
    /\ call \in [Local -> Calls \cup {Idle}]
    /\ got \in [Local -> SlabNode \cup {NoNode}]

-----------------------------------------------------------------------------
(***************************************************************************)
(* OneNode is not inductive.  A compare-and-swap that succeeds must know   *)
(* that the list it searched still has no node with the key: lists are     *)
(* never shortened, and the path of a node is not written again once the   *)
(* node is in a list.                                                      *)
(***************************************************************************)

\* The call of m has taken a node from the slab.
Took(m) == call[m] # Idle /\ call[m].new # NoNode

\* The node a call has taken is the last one of its slab and has the path.
PendingIsLast ==
    \A m \in Local : Took(m) =>
        /\ call[m].new = <<m, slab[m]>>
        /\ slab[m] > 0
        /\ call[m].new \in DOMAIN path
        /\ path[call[m].new] = call[m].key

\* A node in a list is among the nodes taken from a slab, is no pending one, and is
\* in the slot of its path.
InsertedIsTaken ==
    \A h \in Slot : \A n \in Range(slots[h]) :
        /\ n[2] <= slab[n[1]]
        /\ Took(n[1]) => n[2] < slab[n[1]]
        /\ n \in DOMAIN path
        /\ Hash(path[n]) = h

\* The list that a call searched is still part of its slot, and has no such path.
SearchedHasNoKey ==
    \A m \in Local : call[m].pc = "swap" =>
        /\ call[m].new # NoNode
        /\ \A n \in Range(call[m].head) :
             n \in Range(slots[Hash(call[m].key)]) /\ path[n] # call[m].key

UniqueInSlot ==
    \A h \in Slot : \A i, j \in DOMAIN slots[h] :
        path[slots[h][i]] = path[slots[h][j]] => i = j

GotInserted == \A m \in Local : got[m] # NoNode => got[m] \in Inserted

Inv ==
    /\ TypeOK
    /\ PendingIsLast /\ InsertedIsTaken /\ SearchedHasNoKey
    /\ UniqueInSlot /\ GotInserted

-----------------------------------------------------------------------------
\* A list with a new node in front of it.
LEMMA ConsList ==
    ASSUME NEW S, NEW x \in S, NEW s \in Seq(S)
    PROVE  /\ <<x>> \o s \in Seq(S)
           /\ DOMAIN (<<x>> \o s) = 1..(Len(s) + 1)
           /\ (<<x>> \o s)[1] = x
           /\ \A i \in 2..(Len(s) + 1) : (<<x>> \o s)[i] = s[i - 1]
           /\ Range(<<x>> \o s) = Range(s) \cup {x}
<1>1. /\ <<x>> \o s \in Seq(S)
      /\ DOMAIN (<<x>> \o s) = 1..(Len(s) + 1)
      /\ (<<x>> \o s)[1] = x
      /\ \A i \in 2..(Len(s) + 1) : (<<x>> \o s)[i] = s[i - 1]
  OBVIOUS
<1>2. DOMAIN s = 1..Len(s) /\ Len(s) \in Nat
  OBVIOUS
<1>3. ASSUME NEW n \in Range(<<x>> \o s) PROVE n \in Range(s) \cup {x}
  <2>1. PICK i \in 1..(Len(s) + 1) : n = (<<x>> \o s)[i]
    BY <1>1 DEF Range
  <2>2. CASE i = 1
    BY <1>1, <2>1, <2>2
  <2>3. CASE i # 1
    <3>1. i \in 2..(Len(s) + 1) /\ i - 1 \in 1..Len(s)
      BY <1>2, <2>3
    <3> QED
      BY <1>1, <1>2, <2>1, <3>1 DEF Range
  <2> QED
    BY <2>2, <2>3
<1>4. ASSUME NEW n \in Range(s) PROVE n \in Range(<<x>> \o s)
  <2>1. PICK i \in 1..Len(s) : n = s[i]
    BY <1>2 DEF Range
  <2>2. i + 1 \in 2..(Len(s) + 1) /\ (i + 1) - 1 = i /\ i + 1 \in 1..(Len(s) + 1)
    BY <1>2
  <2> QED
    BY <1>1, <2>1, <2>2 DEF Range
<1>5. x \in Range(<<x>> \o s)
  <2>1. 1 \in 1..(Len(s) + 1)
    BY <1>2
  <2> QED
    BY <1>1, <2>1 DEF Range
<1> QED
  BY <1>1, <1>3, <1>4, <1>5

\* The nodes of a list are nodes of slabs.
LEMMA ListNodes ==
    ASSUME TypeOK, NEW h \in Slot
    PROVE  Range(slots[h]) \subseteq SlabNode
BY DEF TypeOK, Range

\* A call under way is a record of Calls, and its key has a slot.
LEMMA CallType ==
    ASSUME TypeOK, NEW m \in Local, call[m] # Idle
    PROVE  call[m] \in Calls /\ Hash(call[m].key) \in Slot
BY NodeMapAssumption DEF TypeOK, Calls

\* An idle call is not at a position of a call under way.
LEMMA IdleCall ==
    ASSUME NEW m \in Local, call[m].pc \in {"load", "swap"}
    PROVE  call[m] # Idle
BY DEF Idle

-----------------------------------------------------------------------------
(***************************************************************************)
(* Every action keeps Inv.                                                 *)
(***************************************************************************)
\* A call begins: it has no node yet.
LEMMA NodeKeeps ==
    ASSUME Inv, NEW m \in Local, NEW key \in Path, Node(m, key)
    PROVE  Inv'
<1> USE DEF Inv
<1> DEFINE c == [pc |-> "load", key |-> key, head |-> <<>>, new |-> NoNode]
<1>1. c \in Calls /\ c # Idle /\ c.new = NoNode /\ c.pc = "load"
  BY DEF Calls, Idle
<1>2. /\ call' = [call EXCEPT ![m] = c] /\ call[m] = Idle
      /\ got' = [got EXCEPT ![m] = NoNode]
      /\ UNCHANGED <<slots, path, slab>>
  BY DEF Node
<1> HIDE DEF c
<1>3. TypeOK'
  BY <1>1, <1>2 DEF TypeOK
<1>4. \A l \in Local : /\ l # m => call'[l] = call[l] /\ got'[l] = got[l]
                       /\ l = m => call'[l] = c /\ got'[l] = NoNode
  BY <1>2 DEF TypeOK
<1>5. ~Took(m) /\ ~Took(m)' /\ \A l \in Local : Took(l)' <=> Took(l)
  BY <1>1, <1>2, <1>4 DEF Took
<1>6. PendingIsLast'
  BY <1>2, <1>4, <1>5 DEF PendingIsLast
<1>7. InsertedIsTaken'
  <2> SUFFICES ASSUME NEW h \in Slot, NEW n \in Range(slots[h])
               PROVE  /\ n[2] <= slab[n[1]]
                      /\ Took(n[1])' => n[2] < slab[n[1]]
                      /\ n \in DOMAIN path
                      /\ Hash(path[n]) = h
    BY <1>2 DEF InsertedIsTaken
  <2>1. n[1] \in Local
    BY ListNodes DEF SlabNode
  <2> QED
    BY <1>5, <2>1 DEF InsertedIsTaken
<1>8. SearchedHasNoKey'
  BY <1>1, <1>2, <1>4 DEF SearchedHasNoKey
<1>9. UniqueInSlot'
  BY <1>2 DEF UniqueInSlot
<1>10. GotInserted'
  BY <1>2, <1>4 DEF GotInserted, Inserted
<1> QED
  BY <1>3, <1>6, <1>7, <1>8, <1>9, <1>10

\* The path is found: a node that was taken goes back to the slab (unnew), and it is
\* the last one there, so no list has it.
LEMMA FoundKeeps ==
    ASSUME Inv, NEW m \in Local, Found(m)
    PROVE  Inv'
<1> USE DEF Inv
<1>1. call[m] # Idle /\ call[m] \in Calls /\ Hash(call[m].key) \in Slot
  BY IdleCall, CallType DEF Found
<1>2. PICK r \in Range(slots[Hash(call[m].key)]) :
        got' = [got EXCEPT ![m] = r] /\ call' = [call EXCEPT ![m] = Idle]
  BY DEF Found, Return
<1>3. /\ slab' = [slab EXCEPT ![m] = IF call[m].new = NoNode THEN @ ELSE @ - 1]
      /\ UNCHANGED <<slots, path>>
  BY DEF Found
<1>4. r \in SlabNode /\ r \in Inserted
  BY <1>1, ListNodes DEF Inserted
<1>5. Took(m) => slab[m] > 0 /\ slab[m] - 1 \in Nat
  BY DEF PendingIsLast, TypeOK
<1>6. TypeOK'
  BY <1>1, <1>2, <1>3, <1>4, <1>5 DEF TypeOK, Took
<1>7. \A l \in Local : /\ l # m => call'[l] = call[l] /\ got'[l] = got[l] /\ slab'[l] = slab[l]
                       /\ l = m => call'[l] = Idle /\ got'[l] = r
  BY <1>2, <1>3 DEF TypeOK
<1>8. slab'[m] = IF Took(m) THEN slab[m] - 1 ELSE slab[m]
  BY <1>1, <1>3 DEF Took, TypeOK
<1>9. ~Took(m)' /\ \A l \in Local \ {m} : Took(l)' <=> Took(l)
  BY <1>7 DEF Took
<1>10. PendingIsLast'
  BY <1>3, <1>7, <1>9 DEF PendingIsLast
<1>11. InsertedIsTaken'
  <2> SUFFICES ASSUME NEW h \in Slot, NEW n \in Range(slots[h])
               PROVE  /\ n[2] <= slab'[n[1]]
                      /\ Took(n[1])' => n[2] < slab'[n[1]]
                      /\ n \in DOMAIN path
                      /\ Hash(path[n]) = h
    BY <1>3 DEF InsertedIsTaken
  <2>1. n[1] \in Local /\ n[2] \in Nat /\ slab[n[1]] \in Nat
    BY ListNodes DEF SlabNode, TypeOK
  <2>2. /\ n[2] <= slab[n[1]]
        /\ Took(n[1]) => n[2] < slab[n[1]]
        /\ n \in DOMAIN path
        /\ Hash(path[n]) = h
    BY DEF InsertedIsTaken
  <2> QED
    BY <1>7, <1>8, <1>9, <2>1, <2>2
<1>12. SearchedHasNoKey'
  BY <1>3, <1>7 DEF SearchedHasNoKey, Idle
<1>13. UniqueInSlot'
  BY <1>3 DEF UniqueInSlot
<1>14. GotInserted'
  BY <1>3, <1>4, <1>7 DEF GotInserted, Inserted
<1> QED
  BY <1>6, <1>10, <1>11, <1>12, <1>13, <1>14

\* The path is not found: the node whose path is written is in no list.
LEMMA NotFoundKeeps ==
    ASSUME Inv, NEW m \in Local, NotFound(m)
    PROVE  Inv'
<1> USE DEF Inv
<1> DEFINE key == call[m].key
           head == slots[Hash(key)]
           new == IF call[m].new = NoNode THEN <<m, slab[m] + 1>> ELSE call[m].new
           c == [call[m] EXCEPT !.pc = "swap", !.head = head, !.new = new]
<1>1. call[m] # Idle /\ call[m] \in Calls /\ Hash(key) \in Slot /\ key \in Path
  BY IdleCall, CallType DEF NotFound, Calls
<1>2. /\ \A n \in Range(head) : path[n] # key
      /\ slab' = [slab EXCEPT ![m] = new[2]]
      /\ path' = [n \in DOMAIN path \cup {new} |-> IF n = new THEN key ELSE path[n]]
      /\ UNCHANGED <<slots, got>>
  BY DEF NotFound
<1>3. call' = [call EXCEPT ![m] = c]
  BY DEF NotFound
<1>4. /\ new = <<m, new[2]>> /\ new[2] \in Nat /\ new[2] > 0
      /\ new[2] = IF Took(m) THEN slab[m] ELSE slab[m] + 1
  BY <1>1 DEF PendingIsLast, Took, TypeOK
<1>5. new \in SlabNode /\ new # NoNode
  BY <1>4, NodeMapAssumption DEF SlabNode
<1> HIDE DEF new
<1>6. c \in Calls /\ c # Idle /\ c.pc = "swap" /\ c.key = key /\ c.head = head /\ c.new = new
  <2>1. head \in Seq(SlabNode)
    BY <1>1 DEF TypeOK
  <2>2. c = [call[m] EXCEPT !.pc = "swap", !.head = head, !.new = new]
    OBVIOUS
  <2> HIDE DEF head, c
  <2> QED
    BY <1>1, <1>5, <2>1, <2>2 DEF Calls, Idle
<1> HIDE DEF c
<1>7. TypeOK'
  BY <1>2, <1>3, <1>4, <1>6 DEF TypeOK
<1>8. \A l \in Local : /\ l # m => call'[l] = call[l] /\ slab'[l] = slab[l]
                       /\ l = m => call'[l] = c /\ slab'[l] = new[2]
  BY <1>2, <1>3 DEF TypeOK
<1>9. Took(m)' /\ \A l \in Local \ {m} : Took(l)' <=> Took(l)
  BY <1>5, <1>6, <1>8 DEF Took
<1>10. \A h \in Slot : new \notin Range(slots[h])
  <2> SUFFICES ASSUME NEW h \in Slot, new \in Range(slots[h]) PROVE FALSE
    OBVIOUS
  <2>1. new[1] = m /\ slab[m] \in Nat
    BY <1>4 DEF TypeOK
  <2>2. new[2] <= slab[m] /\ (Took(m) => new[2] < slab[m])
    BY <2>1 DEF InsertedIsTaken
  <2> QED
    BY <1>4, <2>1, <2>2
<1>11. \A h \in Slot : \A n \in Range(slots[h]) : n \in DOMAIN path' /\ path'[n] = path[n]
  BY <1>2, <1>10 DEF InsertedIsTaken
<1>12. PendingIsLast'
  <2> SUFFICES ASSUME NEW l \in Local, Took(l)'
               PROVE  /\ call'[l].new = <<l, slab'[l]>>
                      /\ slab'[l] > 0
                      /\ call'[l].new \in DOMAIN path'
                      /\ path'[call'[l].new] = call'[l].key
    BY DEF PendingIsLast
  <2>1. CASE l = m
    BY <1>2, <1>4, <1>6, <1>8, <2>1
  <2>2. CASE l # m
    <3>1. /\ call[l].new = <<l, slab[l]>>
          /\ slab[l] > 0
          /\ call[l].new \in DOMAIN path
          /\ path[call[l].new] = call[l].key
      BY <1>9, <2>2 DEF PendingIsLast
    <3>2. call[l].new # new
      BY <1>4, <2>2, <3>1
    <3> QED
      BY <1>2, <1>8, <2>2, <3>1, <3>2
  <2> QED
    BY <2>1, <2>2
<1>13. InsertedIsTaken'
  <2> SUFFICES ASSUME NEW h \in Slot, NEW n \in Range(slots[h])
               PROVE  /\ n[2] <= slab'[n[1]]
                      /\ Took(n[1])' => n[2] < slab'[n[1]]
                      /\ n \in DOMAIN path'
                      /\ Hash(path'[n]) = h
    BY <1>2 DEF InsertedIsTaken
  <2>1. n[1] \in Local /\ n[2] \in Nat /\ slab[n[1]] \in Nat
    BY ListNodes DEF SlabNode, TypeOK
  <2>2. /\ n[2] <= slab[n[1]]
        /\ Took(n[1]) => n[2] < slab[n[1]]
        /\ Hash(path[n]) = h
    BY DEF InsertedIsTaken
  <2> QED
    BY <1>4, <1>8, <1>9, <1>11, <2>1, <2>2
<1>14. SearchedHasNoKey'
  <2> SUFFICES ASSUME NEW l \in Local, call'[l].pc = "swap"
               PROVE  /\ call'[l].new # NoNode
                      /\ \A n \in Range(call'[l].head) :
                           n \in Range(slots[Hash(call'[l].key)]) /\ path'[n] # call'[l].key
    BY <1>2 DEF SearchedHasNoKey
  <2>1. CASE l = m
    <3>1. \A n \in Range(head) : path'[n] # key
      BY <1>1, <1>2, <1>11
    <3>2. call'[l].new # NoNode /\ call'[l].head = head /\ call'[l].key = key
      BY <1>5, <1>6, <1>8, <2>1
    <3> QED
      BY <3>1, <3>2
  <2>2. CASE l # m
    <3>1. call[l] # Idle /\ Hash(call[l].key) \in Slot
      BY <1>8, <2>2, IdleCall, CallType
    <3>2. /\ call[l].new # NoNode
          /\ \A n \in Range(call[l].head) :
               n \in Range(slots[Hash(call[l].key)]) /\ path[n] # call[l].key
      BY <1>8, <2>2 DEF SearchedHasNoKey
    <3> QED
      BY <1>8, <1>11, <2>2, <3>1, <3>2
  <2> QED
    BY <2>1, <2>2
<1>15. UniqueInSlot'
  <2>1. \A h \in Slot : \A i \in DOMAIN slots[h] : path'[slots[h][i]] = path[slots[h][i]]
    BY <1>11 DEF Range
  <2>2. slots' = slots
    BY <1>2
  <2> QED
    BY <2>1, <2>2 DEF UniqueInSlot
<1>16. GotInserted'
  BY <1>2 DEF GotInserted, Inserted
<1> QED
  BY <1>7, <1>12, <1>13, <1>14, <1>15, <1>16

\* The compare-and-swap succeeds: the slot has the list that was searched.
LEMMA SwapKeeps ==
    ASSUME Inv, NEW m \in Local, Swap(m)
    PROVE  Inv'
<1> USE DEF Inv
<1> DEFINE h == Hash(call[m].key)
           new == call[m].new
           list == <<new>> \o slots[h]
<1>1. call[m] # Idle /\ call[m] \in Calls /\ h \in Slot
  BY IdleCall, CallType DEF Swap
<1>2. /\ slots[h] = call[m].head
      /\ slots' = [slots EXCEPT ![h] = list]
      /\ call' = [call EXCEPT ![m] = Idle]
      /\ got' = [got EXCEPT ![m] = new]
      /\ UNCHANGED <<path, slab>>
  BY DEF Swap, Return
<1>3. /\ new # NoNode /\ new \in SlabNode /\ Took(m)
      /\ \A n \in Range(slots[h]) : path[n] # call[m].key
  BY <1>1, <1>2 DEF Swap, SearchedHasNoKey, Calls, Took
<1>4. /\ new = <<m, slab[m]>> /\ new \in DOMAIN path /\ path[new] = call[m].key
  BY <1>3 DEF PendingIsLast
<1>5. /\ list \in Seq(SlabNode)
      /\ DOMAIN list = 1..(Len(slots[h]) + 1)
      /\ list[1] = new
      /\ \A i \in 2..(Len(slots[h]) + 1) : list[i] = slots[h][i - 1]
      /\ Range(list) = Range(slots[h]) \cup {new}
  BY <1>1, <1>3, ConsList DEF TypeOK
<1> HIDE DEF list
<1>6. \A g \in Slot : slots'[g] = IF g = h THEN list ELSE slots[g]
  BY <1>1, <1>2 DEF TypeOK
<1>7. TypeOK'
  BY <1>1, <1>2, <1>3, <1>5 DEF TypeOK
<1>8. \A l \in Local : /\ l # m => call'[l] = call[l] /\ got'[l] = got[l]
                       /\ l = m => call'[l] = Idle /\ got'[l] = new
  BY <1>2 DEF TypeOK
<1>9. ~Took(m)' /\ \A l \in Local \ {m} : Took(l)' <=> Took(l)
  BY <1>8 DEF Took
<1>10. PendingIsLast'
  BY <1>2, <1>8, <1>9 DEF PendingIsLast
<1>11. InsertedIsTaken'
  <2> SUFFICES ASSUME NEW g \in Slot, NEW n \in Range(slots'[g])
               PROVE  /\ n[2] <= slab[n[1]]
                      /\ Took(n[1])' => n[2] < slab[n[1]]
                      /\ n \in DOMAIN path
                      /\ Hash(path[n]) = g
    BY <1>2 DEF InsertedIsTaken
  <2>1. CASE n = new /\ g = h
    BY <1>4, <1>9, <2>1 DEF TypeOK
  <2>2. CASE n \in Range(slots[g])
    <3>1. n[1] \in Local
      BY <2>2, ListNodes DEF SlabNode
    <3>2. /\ n[2] <= slab[n[1]]
          /\ Took(n[1]) => n[2] < slab[n[1]]
          /\ n \in DOMAIN path
          /\ Hash(path[n]) = g
      BY <2>2 DEF InsertedIsTaken
    <3> QED
      BY <1>9, <3>1, <3>2
  <2> QED
    BY <1>5, <1>6, <2>1, <2>2
<1>12. SearchedHasNoKey'
  <2> SUFFICES ASSUME NEW l \in Local, call'[l].pc = "swap"
               PROVE  /\ call'[l].new # NoNode
                      /\ \A n \in Range(call'[l].head) :
                           n \in Range(slots'[Hash(call'[l].key)]) /\ path[n] # call'[l].key
    BY <1>2 DEF SearchedHasNoKey
  <2>1. l # m /\ call'[l] = call[l]
    BY <1>8 DEF Idle
  <2>2. call[l] # Idle /\ Hash(call[l].key) \in Slot
    BY <2>1, IdleCall, CallType
  <2>3. /\ call[l].new # NoNode
        /\ \A n \in Range(call[l].head) :
             n \in Range(slots[Hash(call[l].key)]) /\ path[n] # call[l].key
    BY <2>1 DEF SearchedHasNoKey
  <2> QED
    BY <1>5, <1>6, <2>1, <2>2, <2>3
<1>13. UniqueInSlot'
  <2> SUFFICES ASSUME NEW g \in Slot, NEW i \in DOMAIN slots'[g], NEW j \in DOMAIN slots'[g],
                      path[slots'[g][i]] = path[slots'[g][j]]
               PROVE  i = j
    BY <1>2 DEF UniqueInSlot
  <2>1. CASE g # h
    BY <1>6, <2>1 DEF UniqueInSlot
  <2>2. CASE g = h
    <3>1. /\ i \in 1..(Len(slots[h]) + 1) /\ j \in 1..(Len(slots[h]) + 1)
          /\ slots'[g] = list
          /\ Len(slots[h]) \in Nat /\ DOMAIN slots[h] = 1..Len(slots[h])
      BY <1>1, <1>5, <1>6, <2>2 DEF TypeOK
    <3>2. \A k \in 2..(Len(slots[h]) + 1) :
            /\ k - 1 \in DOMAIN slots[h]
            /\ list[k] = slots[h][k - 1]
            /\ path[list[k]] # path[list[1]]
      <4> SUFFICES ASSUME NEW k \in 2..(Len(slots[h]) + 1)
                   PROVE  /\ k - 1 \in DOMAIN slots[h]
                          /\ list[k] = slots[h][k - 1]
                          /\ path[list[k]] # path[list[1]]
        OBVIOUS
      <4>1. k - 1 \in DOMAIN slots[h]
        BY <3>1
      <4>2. list[k] = slots[h][k - 1]
        BY <1>5
      <4>3. list[k] \in Range(slots[h])
        BY <4>1, <4>2 DEF Range
      <4> QED
        BY <1>3, <1>4, <1>5, <4>1, <4>2, <4>3
    <3>3. CASE i = 1 /\ j = 1
      BY <3>3
    <3>4. CASE i = 1 /\ j # 1
      BY <3>1, <3>2, <3>4
    <3>5. CASE i # 1 /\ j = 1
      BY <3>1, <3>2, <3>5
    <3>6. CASE i # 1 /\ j # 1
      <4>1. i \in 2..(Len(slots[h]) + 1) /\ j \in 2..(Len(slots[h]) + 1)
        BY <3>1, <3>6
      <4>2. path[slots[h][i - 1]] = path[slots[h][j - 1]]
        BY <3>1, <3>2, <4>1
      <4>3. i - 1 \in DOMAIN slots[h] /\ j - 1 \in DOMAIN slots[h]
        BY <3>2, <4>1
      <4>4. i - 1 = j - 1
        BY <1>1, <4>2, <4>3 DEF UniqueInSlot
      <4> QED
        BY <4>1, <4>4
    <3> QED
      BY <3>3, <3>4, <3>5, <3>6
  <2> QED
    BY <2>1, <2>2
<1>14. GotInserted'
  <2>1. \A g \in Slot : Range(slots[g]) \subseteq Range(slots'[g])
    BY <1>5, <1>6
  <2>2. new \in Range(slots'[h])
    BY <1>1, <1>5, <1>6
  <2>3. Inserted \subseteq Inserted' /\ new \in Inserted'
    BY <1>1, <2>1, <2>2 DEF Inserted
  <2> QED
    BY <1>8, <2>3 DEF GotInserted
<1> QED
  BY <1>7, <1>10, <1>11, <1>12, <1>13, <1>14

\* The compare-and-swap fails: the call keeps its node.
LEMMA SwapFailsKeeps ==
    ASSUME Inv, NEW m \in Local, SwapFails(m)
    PROVE  Inv'
<1> USE DEF Inv
<1>1. call[m] # Idle /\ call[m] \in Calls
  BY IdleCall, CallType DEF SwapFails
<1>2. call' = [call EXCEPT ![m].pc = "load"] /\ UNCHANGED <<slots, path, slab, got>>
  BY DEF SwapFails
<1>3. \A l \in Local : /\ l # m => call'[l] = call[l]
                       /\ l = m => call'[l] = [call[m] EXCEPT !.pc = "load"]
  BY <1>2 DEF TypeOK
<1>4. /\ call'[m] \in Calls /\ call'[m] # Idle
      /\ call'[m].pc = "load" /\ call'[m].key = call[m].key /\ call'[m].new = call[m].new
  BY <1>1, <1>3 DEF Calls, Idle
<1>5. TypeOK'
  BY <1>2, <1>4 DEF TypeOK
<1>6. \A l \in Local : Took(l)' <=> Took(l)
  BY <1>1, <1>3, <1>4 DEF Took
<1>7. PendingIsLast'
  BY <1>2, <1>3, <1>4, <1>6 DEF PendingIsLast
<1>8. InsertedIsTaken'
  <2>1. \A h \in Slot : \A n \in Range(slots[h]) : n[1] \in Local
    BY ListNodes DEF SlabNode
  <2> QED
    BY <1>2, <1>6, <2>1 DEF InsertedIsTaken
<1>9. SearchedHasNoKey'
  BY <1>2, <1>3, <1>4 DEF SearchedHasNoKey
<1>10. UniqueInSlot' /\ GotInserted'
  BY <1>2 DEF UniqueInSlot, GotInserted, Inserted
<1> QED
  BY <1>5, <1>7, <1>8, <1>9, <1>10

-----------------------------------------------------------------------------
\* Inv holds in every reachable state.
THEOREM InvCorrect == NodeMapSpec => []Inv
<1>1. NodeMapInit => Inv
  <2> SUFFICES ASSUME NodeMapInit PROVE Inv
    OBVIOUS
  <2>1. \A h \in Slot : slots[h] = <<>> /\ Range(slots[h]) = {} /\ DOMAIN slots[h] = {}
    BY DEF NodeMapInit, Range
  <2>2. \A m \in Local : call[m] = Idle /\ got[m] = NoNode /\ call[m].pc = "idle"
    BY DEF NodeMapInit, Idle
  <2>3. TypeOK
    BY DEF NodeMapInit, TypeOK
  <2> QED
    BY <2>1, <2>2, <2>3 DEF Inv, PendingIsLast, InsertedIsTaken, SearchedHasNoKey,
       UniqueInSlot, GotInserted, Took
<1>2. Inv /\ [NodeMapNext]_nodeVars => Inv'
  <2> SUFFICES ASSUME Inv, [NodeMapNext]_nodeVars PROVE Inv'
    OBVIOUS
  <2>1. CASE UNCHANGED nodeVars
    BY <2>1 DEF nodeVars, Inv, TypeOK, PendingIsLast, InsertedIsTaken, SearchedHasNoKey,
       UniqueInSlot, GotInserted, Took, Inserted
  <2>2. CASE NodeMapNext
    BY <2>2, NodeKeeps, FoundKeeps, NotFoundKeeps, SwapKeeps, SwapFailsKeeps
       DEF NodeMapNext, NodeStep
  <2> QED
    BY <2>1, <2>2
<1> QED
  BY <1>1, <1>2, PTL DEF NodeMapSpec

\* However the goroutines interleave their calls of node(): a path has one node in its
\* slot, a call returns a node of the map, and a node that goes back is in no list.
THEOREM OneNodeCorrect == NodeMapSpec => []OneNode
<1>1. Inv => OneNode
  <2> SUFFICES ASSUME Inv PROVE OneNode
    OBVIOUS
  <2> USE DEF Inv
  <2>1. ASSUME NEW m \in Local, call[m] # Idle, call[m].new \in Inserted PROVE FALSE
    <3>1. PICK h \in Slot : call[m].new \in Range(slots[h])
      BY <2>1 DEF Inserted
    <3>2. call[m].new \in SlabNode /\ call[m].new # NoNode
      BY <3>1, ListNodes, NodeMapAssumption DEF SlabNode
    <3>3. Took(m) /\ call[m].new = <<m, slab[m]>> /\ slab[m] \in Nat
      BY <2>1, <3>2 DEF Took, PendingIsLast, TypeOK
    <3>4. slab[m] < slab[m]
      BY <3>1, <3>3 DEF InsertedIsTaken
    <3> QED
      BY <3>3, <3>4
  <2> QED
    BY <2>1 DEF OneNode, UniqueInSlot, GotInserted
<1> QED
  BY <1>1, InvCorrect, PTL

\* Over all slots: two different nodes of the map never have one path.
UniquePaths == \A n, o \in Inserted : path[n] = path[o] => n = o

\* nodeMap.freeze numbers every path once: no two slots share a path either.
THEOREM UniquePathsCorrect == NodeMapSpec => []UniquePaths
<1>1. Inv => UniquePaths
  <2> SUFFICES ASSUME Inv, NEW n \in Inserted, NEW o \in Inserted, path[n] = path[o]
               PROVE  n = o
    BY DEF UniquePaths
  <2>1. PICK g \in Slot : n \in Range(slots[g])
    BY DEF Inserted
  <2>2. PICK h \in Slot : o \in Range(slots[h])
    BY DEF Inserted
  <2>3. g = h
    BY <2>1, <2>2 DEF Inv, InsertedIsTaken
  <2>4. PICK i \in DOMAIN slots[g] : n = slots[g][i]
    BY <2>1 DEF Range
  <2>5. PICK j \in DOMAIN slots[g] : o = slots[g][j]
    BY <2>2, <2>3 DEF Range
  <2>6. i = j
    BY <2>4, <2>5 DEF Inv, UniqueInSlot
  <2> QED
    BY <2>4, <2>5, <2>6
<1> QED
  BY <1>1, InvCorrect, PTL

=============================================================================
