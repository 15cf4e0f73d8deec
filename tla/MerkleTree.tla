----------------------------- MODULE MerkleTree -----------------------------
(***************************************************************************)
(* The merkle tree of a remote action: entries are set one by one, by a    *)
(* path that need not be clean, and Build digests the directories from the *)
(* leaves up.  A path is the sequence of its elements, as splitElem gives  *)
(* it.  Hashes are taken to be free of collisions: the digest of a message *)
(* is the message, so the digest of a directory is the record of its       *)
(* nodes, with the lists sorted by name as sets.  The errors of Set,       *)
(* SetTree and Build are told apart as far as treeDigest does: "subtree"   *)
(* for ErrPrecomputedSubTree, "bad" for the others.                        *)
(***************************************************************************)
EXTENDS Naturals, Sequences, FiniteSets, SequencesExt

CONSTANTS
    NoData,       \* the zero digest
    Precomputed,  \* what the tree holds for a directory of a subtree
    MaxDepth      \* bound on the depth of the directories that are read back

EmptyDir == [files |-> <<>>, symlinks |-> <<>>, dirs |-> <<>>]

\* m maps the directories to their nodes, <<>> is the root; ds is the digest store.
New == [m |-> [d \in {<<>>} |-> EmptyDir], ds |-> {}, err |-> "nil"]

IsSymlink(e) == e.data = NoData /\ e.target # <<>>

\* An absolute name starts with a slash, so its first element is empty.
IsAbs(name) == Len(name) > 1 /\ name[1] = ""

\* The name "" is the root, and is the only one with one, empty, element.
Key(name) == IF name = <<"">> THEN <<>> ELSE name

Node(t, dir, field, node) == [t EXCEPT !.m[dir][field] = Append(@, node)]

\* Mutant: a directory that exists gets a second, empty map of nodes.
SetDirFresh(t, dir, name) ==
    LET sub == Append(dir, name)
        added == Node(t, dir, "dirs", [name |-> name, digest |-> NoData])
    IN [added EXCEPT !.m = [d \in DOMAIN @ \cup {sub} |->
                               IF d = sub THEN EmptyDir ELSE @[d]]]

\* The directory name of dir is made if it is not there; below a precomputed
\* subtree nothing can be set.
SetDir(t, dir, name) ==
    LET sub == Append(dir, name)
        added == Node(t, dir, "dirs", [name |-> name, digest |-> NoData])
    IN IF sub \notin DOMAIN t.m
       THEN [added EXCEPT !.m = [d \in DOMAIN @ \cup {sub} |->
                                    IF d = sub THEN EmptyDir ELSE @[d]]]
       ELSE IF t.m[sub] = Precomputed THEN [t EXCEPT !.err = "subtree"] ELSE t

\* One element of the way to the leaf, w = [t, dir].  The stack of directories of
\* the code is the path of dir.
Enter(w, elem) ==
    CASE w.t.err # "nil" \/ elem \in {"", "."} -> w
      [] elem = ".." /\ w.dir = <<>> -> [w EXCEPT !.t.err = "bad"]
      [] elem = ".." -> [w EXCEPT !.dir = Front(@)]
      [] OTHER -> [t |-> SetDir(w.t, w.dir, elem), dir |-> Append(w.dir, elem)]

Walk(t, name) == FoldLeft(Enter, [t |-> t, dir |-> <<>>], Front(name))

Bad(t) == [t EXCEPT !.err = "bad"]

\* Mutant: the contents of a file are not put in the store.
SetFileNoStore(t, dir, name, e) ==
    Node(t, dir, "files", [name |-> name, digest |-> e.data, exec |-> e.exec])

\* Files are kept in the store, whether or not Build succeeds.
SetFile(t, dir, name, e) ==
    [Node(t, dir, "files", [name |-> name, digest |-> e.data, exec |-> e.exec])
        EXCEPT !.ds = @ \cup {e.data}]

SetLeaf(t, dir, name, e) ==
    CASE e.data # NoData /\ name \in {".", ".."} -> Bad(t)
      [] e.data # NoData -> SetFile(t, dir, name, e)
      [] name = "" \/ (name = ".." /\ dir = <<>>) -> Bad(t)
      [] name \in {".", ".."} -> t
      [] IsSymlink(e) -> Node(t, dir, "symlinks", [name |-> name, target |-> e.target])
      [] OTHER -> SetDir(t, dir, name)

Set(t, e) ==
    LET w == Walk(t, e.name)
    IN CASE e.target # <<>> /\ e.data # NoData -> Bad(t)
         [] IsAbs(e.name) -> Bad(t)
         [] e.data = NoData /\ Key(e.name) \in DOMAIN t.m -> t
         [] w.t.err # "nil" -> w.t
         [] OTHER -> SetLeaf(w.t, w.dir, Last(e.name), e)

\* A precomputed subtree: its digest, and the blobs it was made of unless they are
\* known to be uploaded.
SetTreeLeaf(t, dir, name, te) ==
    LET sub == Append(dir, name)
        added == Node(t, dir, "dirs", [name |-> name, digest |-> te.digest])
    IN [added EXCEPT !.m = [d \in DOMAIN @ \cup {sub} |->
                               IF d \in DOMAIN @ THEN @[d] ELSE Precomputed],
                     !.ds = @ \cup te.store]

SetTree(t, te) ==
    LET w == Walk(t, te.name)
    IN CASE te.digest = NoData \/ IsAbs(te.name) -> Bad(t)
         [] Key(te.name) \in DOMAIN t.m -> [t EXCEPT !.err = "subtree"]
         [] w.t.err # "nil" -> w.t
         [] Last(te.name) \in {"", ".", ".."} -> Bad(t)
         [] OTHER -> SetTreeLeaf(w.t, w.dir, Last(te.name), te)

Clash(S, T) == \E x \in S, y \in T : x # y /\ x.name = y.name

Hidden(dir, s) == \E l \in ToSet(dir.symlinks) : l.name = s.name

\* Nodes of one name must be equal; a directory behind a symlink of its name is left
\* out, and is not built.
Build(t) ==
    LET sub[d \in DOMAIN t.m] ==
          LET dir == t.m[d]
              seen == {s \in ToSet(dir.dirs) : ~Hidden(dir, s)}
              built == {s \in seen : s.digest = NoData}
              Sub(s) == sub[Append(d, s.name)]
              files == ToSet(dir.files)
              links == ToSet(dir.symlinks)
              dirs == {s \in seen : s.digest # NoData}
                        \cup {[s EXCEPT !.digest = Sub(s).digest] : s \in built}
              digest == [files |-> files, symlinks |-> links, dirs |-> dirs]
          IN [digest |-> digest,
              ds |-> {digest} \cup UNION {Sub(s).ds : s \in built},
              bad |-> \/ Clash(files, files) \/ Clash(links, links) \/ Clash(dirs, dirs)
                      \/ Clash(files, links \cup dirs)
                      \/ \E s \in built : Sub(s).bad]
    IN [digest |-> sub[<<>>].digest,
        ds |-> t.ds \cup sub[<<>>].ds,
        err |-> IF sub[<<>>].bad THEN "bad" ELSE "nil"]

-----------------------------------------------------------------------------
\* The directories below dir whose message is in ds, with their paths, by depth.
Level(dir, ds) ==
    LET at[n \in 0..MaxDepth] ==
          IF n = 0 THEN {[path |-> <<>>, dir |-> dir]}
          ELSE {[path |-> Append(x.path, s.name), dir |-> s.digest] :
                  <<x, s>> \in {y \in UNION {{<<x, s>> : s \in x.dir.dirs} : x \in at[n - 1]} :
                                   y[2].digest \in ds}}
    IN UNION {at[n] : n \in 0..MaxDepth}

\* What a reader of the tree finds: files, symlinks and directories with their paths.
Traverse(dir, ds) ==
    LET dirs == Level(dir, ds)
    IN [files |-> UNION {{[path |-> Append(x.path, f.name), digest |-> f.digest,
                           exec |-> f.exec] : f \in x.dir.files} : x \in dirs},
        symlinks |-> UNION {{[path |-> Append(x.path, l.name), target |-> l.target] :
                               l \in x.dir.symlinks} : x \in dirs},
        dirs |-> {x.path : x \in dirs} \ {<<>>}]
=============================================================================
