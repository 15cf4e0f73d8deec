---------------------------- MODULE ActionDigest ----------------------------
(***************************************************************************)
(* Cmd.Digest: the action of a command is its command message and the      *)
(* merkle tree of its inputs.  The inputs are taken from hashfs, some are  *)
(* substituted for remote execution, and the working directory may be      *)
(* replaced by a canonical one of the same depth, so that builds in        *)
(* different directories share the cache.                                  *)
(* A command is a record with                                              *)
(*     dir      the working directory, a path; <<"">> is the exec root     *)
(*     inputs   the sequence of input names; rsp: the response file or     *)
(*              <<>>                                                       *)
(*     remote   RemoteInputs, from remote to local names                   *)
(*     trees    TreeInputs, a sequence                                     *)
(*     args     what else is in the command message; None for no args      *)
(*     pure     Pure                                                       *)
(*     system   UseSystemInput                                             *)
(*     canon    CanonicalizeDir                                            *)
(* The state machine digests a command, one step for each entry of its     *)
(* tree, and then the same command of a build in another directory.        *)
(***************************************************************************)
EXTENDS MerkleTree

CONSTANTS
    FS,         \* what hashfs has, by clean path: [data, exec, target]
    MaxLinks,   \* maxSymlinks
    Cmds,       \* the commands
    Moved(_),   \* the same command in another directory
    None

VARIABLES
    cmd,        \* the command
    trees, ents, \* the subtrees and entries that are not in the tree yet
    tree,       \* the merkle tree, None before and after treeDigest
    result,     \* the action, the store with the blobs to upload and the error; None before
    first       \* history: the result in the first directory

vars == <<cmd, trees, ents, tree, result, first>>

-----------------------------------------------------------------------------
\* Lexical cleaning of a relative path; what leaves the root keeps its "..".
Clean(name) ==
    LET Up(p) == p # <<>> /\ Last(p) # ".."
        Add(p, elem) == CASE elem \in {"", "."} -> p
                          [] elem = ".." /\ Up(p) -> Front(p)
                          [] OTHER -> Append(p, elem)
        clean == FoldLeft(Add, <<>>, name)
    IN IF clean = <<>> THEN <<".">> ELSE clean

Outside(path) == path[1] = ".."

IsLocal(name) == ~IsAbs(name) /\ name # <<"">> /\ ~Outside(Clean(name))

NoEntry == [data |-> NoData, exec |-> FALSE, target |-> <<>>]

Lookup(path) == IF path \in DOMAIN FS THEN FS[path] ELSE NoEntry

\* A symlink that leaves the root, or leads to the root itself, is followed until a
\* link leads into the root, or to something that is not a link.
Follow(path) ==
    LET at[n \in 0..MaxLinks] ==
          IF n = 0 THEN [path |-> path, e |-> FS[path]]
          ELSE LET p == at[n - 1]
                   to == Clean(Front(p.path) \o p.e.target)
               IN IF p.e.target = <<>> \/ ~(Outside(to) \/ to = <<".">>)
                  THEN p ELSE [path |-> to, e |-> Lookup(to)]
    IN at[MaxLinks].e

Named(name, e) == [name |-> name, data |-> e.data, exec |-> e.exec, target |-> e.target]

\* Names hashfs has no entry of are left out.
Entries(names) ==
    LET there == SelectSeq(names, LAMBDA n : Clean(n) \in DOMAIN FS)
    IN [i \in DOMAIN there |-> Named(there[i], Follow(Clean(there[i])))]

AllInputs(c) == IF c.rsp = <<>> THEN c.inputs ELSE Append(c.inputs, c.rsp)

\* The entries of RemoteInputs under their remote names.
Substitutes(c) ==
    {Named(r, Follow(Clean(c.remote[r]))) : r \in {x \in DOMAIN c.remote : Clean(c.remote[x]) \in DOMAIN FS}}

\* The first entry of a substituted name is replaced, the other substitutes are
\* added, and all are sorted by name.  Of that order only this matters to Set: a path
\* comes before the paths below it.
InputTree(c) ==
    LET own == Entries(SelectSeq(AllInputs(c), LAMBDA n : c.system => IsLocal(n)))
        subst == Substitutes(c)
        First(i) == \A j \in 1..(i - 1) : own[j].name # own[i].name
        Replaced(i) == {s \in subst : s.name = own[i].name /\ First(i)}
        new == [i \in DOMAIN own |->
                   IF Replaced(i) = {} THEN own[i] ELSE CHOOSE s \in Replaced(i) : TRUE]
        rest == {s \in subst : \A i \in DOMAIN own : own[i].name # s.name}
    IN IF DOMAIN c.remote = {} THEN own
       ELSE SortSeq(new \o SetToSeq(rest), LAMBDA a, b : Len(a.name) < Len(b.name))

CanonicalDir(dir) ==
    IF dir \in {<<"">>, <<".">>} THEN <<"">>
    ELSE <<"out">> \o [i \in 1..(Len(dir) - 1) |-> "x"]

\* Mutant: only the names below dir are moved, not dir itself.
CanonicalizeBelow(name, dir, cdir) ==
    IF dir # cdir /\ IsStrictPrefix(dir, name)
    THEN cdir \o SubSeq(name, Len(dir) + 1, Len(name)) ELSE name

\* dir, and what is below it, is moved to cdir.
Canonicalize(name, dir, cdir) ==
    CASE dir = cdir -> name
      [] name = dir -> cdir
      [] IsStrictPrefix(dir, name) -> Clean(cdir \o SubSeq(name, Len(dir) + 1, Len(name)))
      [] OTHER -> name

\* Canonicalize for every entry of a list; the exec root is left alone.
CanonicalizeDir(c, list) ==
    LET cdir == CanonicalDir(c.dir)
    IN IF ~c.canon \/ cdir = <<"">> THEN list
       ELSE [i \in DOMAIN list |-> [list[i] EXCEPT !.name = Canonicalize(@, c.dir, cdir)]]

WorkingDir(c) == IF c.canon THEN CanonicalDir(c.dir) ELSE c.dir

\* Mutant: an entry in a precomputed subtree is an error of the digest.
IgnoringNothing(t) == t

\* What lies in a precomputed subtree is taken from it: ErrPrecomputedSubTree is not
\* an error of the digest, any other error is.
Ignoring(t) == IF t.err = "subtree" THEN [t EXCEPT !.err = "nil"] ELSE t

\* The command message: outputs are relative to the working directory, so it is the
\* only place where the directory is named.
CommandDigest(c) == [args |-> c.args, workingDirectory |-> WorkingDir(c)]

-----------------------------------------------------------------------------
Init == cmd \in Cmds /\ trees = <<>> /\ ents = <<>> /\ tree = None /\ result = None /\ first = None

\* Digest, as far as the entries of the tree; the last one is the working directory.
ListInputs ==
    /\ tree = None /\ result = None /\ cmd.pure
    /\ trees' = CanonicalizeDir(cmd, cmd.trees)
    /\ ents' = Append(CanonicalizeDir(cmd, InputTree(cmd)), Named(WorkingDir(cmd), NoEntry))
    /\ tree' = New
    /\ UNCHANGED <<cmd, result, first>>

Failed(err) == [action |-> None, ds |-> {}, err |-> err]

\* There is no digest of an impure command, and Entries fails when it is canceled.
DigestFails ==
    /\ tree = None /\ result = None
    /\ result' = Failed(IF cmd.pure THEN "canceled" ELSE "refused")
    /\ UNCHANGED <<cmd, trees, ents, tree, first>>

\* treeDigest: the subtrees come first.
Setting == tree # None /\ tree.err = "nil"
AddTree ==
    /\ Setting /\ trees # <<>>
    /\ tree' = Ignoring(SetTree(tree, Head(trees)))
    /\ trees' = Tail(trees)
    /\ UNCHANGED <<cmd, ents, result, first>>
AddEntry ==
    /\ Setting /\ trees = <<>> /\ ents # <<>>
    /\ tree' = Ignoring(Set(tree, Head(ents)))
    /\ ents' = Tail(ents)
    /\ UNCHANGED <<cmd, trees, result, first>>

\* treeDigest returns the root, and Digest makes the command, if there are args, and
\* the action; or there was an error.
Action(root) ==
    LET action == [command |-> CommandDigest(cmd), inputRoot |-> root.digest]
    IN [action |-> action, ds |-> root.ds \cup {action.command, action}, err |-> "nil"]
Digest ==
    /\ tree # None
    /\ \/ tree.err # "nil" /\ result' = Failed("bad")
       \/ /\ Setting /\ trees = <<>> /\ ents = <<>>
          /\ \E root \in {Build(tree)} :
                result' = CASE root.err # "nil" -> Failed("bad")
                            [] cmd.args = None -> Failed("refused")
                            [] OTHER -> Action(root)
    /\ tree' = None /\ trees' = <<>> /\ ents' = <<>>
    /\ UNCHANGED <<cmd, first>>

\* The command of a build in another directory.
Move ==
    /\ result # None /\ first = None
    /\ first' = result /\ result' = None
    /\ cmd' = Moved(cmd)
    /\ UNCHANGED <<trees, ents, tree>>

Terminated == first # None /\ result # None

Next == ListInputs \/ DigestFails \/ AddTree \/ AddEntry \/ Digest \/ Move \/ (Terminated /\ UNCHANGED vars)

Spec == Init /\ [][Next]_vars

-----------------------------------------------------------------------------
\* Where a name of a command is expected in the tree.
Place(c, name) ==
    LET n == Clean(name)
    IN IF c.canon /\ IsPrefix(c.dir, n)
       THEN CanonicalDir(c.dir) \o SubSeq(n, Len(c.dir) + 1, Len(n)) ELSE n

\* The inputs of a command that hashfs has, each with its entry.
Given(c) ==
    LET names == {n \in ToSet(AllInputs(c)) : c.system => IsLocal(n)}
    IN {Named(n, Follow(Clean(IF n \in DOMAIN c.remote THEN c.remote[n] ELSE n))) :
           n \in {x \in names \cup DOMAIN c.remote :
                     Clean(IF x \in DOMAIN c.remote THEN c.remote[x] ELSE x) \in DOMAIN FS}}

WantedFiles(c) ==
    {[path |-> Place(c, e.name), digest |-> e.data, exec |-> e.exec] :
        e \in {x \in Given(c) : x.data # NoData}}
WantedLinks(c) ==
    {[path |-> Place(c, e.name), target |-> e.target] : e \in {x \in Given(c) : IsSymlink(x)}}
Trees(c) == {Place(c, c.trees[i].name) : i \in DOMAIN c.trees}

\* path is below one of P.
Below(path, P) == \E p \in P : IsStrictPrefix(p, path)

Digested == result # None /\ result.err = "nil"

\* What the service reads: the directories it has, their files and symlinks.
Read == Traverse(result.action.inputRoot, result.ds)

\* The tree has every input at its place and nothing else, except that what is in a
\* precomputed subtree comes from there, and that a symlink hides the entries below
\* it, or is hidden by them (inputTree, canonicalizeDir, treeDigest, Build).
TreeIsExact ==
    Digested =>
        LET links == {l.path : l \in WantedLinks(cmd)}
            all == {Place(cmd, e.name) : e \in Given(cmd)}
        IN /\ Read.files \subseteq WantedFiles(cmd) /\ Read.symlinks \subseteq WantedLinks(cmd)
           /\ \A f \in WantedFiles(cmd) : f \in Read.files \/ Below(f.path, links \cup Trees(cmd))
           /\ \A l \in WantedLinks(cmd) :
                 \/ l \in Read.symlinks
                 \/ Below(l.path, links \cup Trees(cmd)) \/ l.path \in Trees(cmd)
                 \/ Below(l.path, {WorkingDir(cmd)}) \/ \E p \in all \cup {WorkingDir(cmd)} : Below(p, {l.path})
           /\ WorkingDir(cmd) # <<"">> =>
                 \/ WorkingDir(cmd) \in Read.dirs
                 \/ WorkingDir(cmd) \in links \cup Trees(cmd) \/ Below(WorkingDir(cmd), links \cup Trees(cmd))

\* The store and the subtrees have every blob that is reached from the action: the
\* command, each directory, each file (Set, SetTree, Build, Digest).
StoreIsComplete ==
    Digested =>
        LET dirs == {x.dir : x \in Level(result.action.inputRoot, result.ds)}
            sub == UNION {{s.digest : s \in d.dirs} : d \in dirs}
            given == {cmd.trees[i].digest : i \in DOMAIN cmd.trees}
        IN /\ {result.action, result.action.command, result.action.inputRoot} \subseteq result.ds
           /\ sub \subseteq result.ds \cup given
           /\ UNION {{f.digest : f \in d.files} : d \in dirs} \subseteq result.ds

\* Two entries that no tree can have both: different ones at a place, or one below a
\* file.
Conflict(c) ==
    LET all == {[path |-> Place(c, e.name), e |-> Named(<<>>, e)] : e \in Given(c)}
        files == {f.path : f \in WantedFiles(c)}
        dirs == {x.path : x \in all} \cup Trees(c) \cup {WorkingDir(c)}
    IN \/ \E x, y \in all : x # y /\ x.path = y.path
       \/ \E f \in files : f \in Trees(c) \cup {WorkingDir(c)} \/ \E p \in dirs : Below(p, {f})

\* The tree of a command fails only for inputs that cannot be in one, or that are
\* outside of it: a file that is named twice, or that is in a subtree, is no error
\* (Set, Build, treeDigest).
ErrorIsReal ==
    result # None /\ result.err = "bad" =>
        Conflict(cmd) \/ \E e \in Given(cmd) : ~IsLocal(e.name) \/ Last(e.name) \in {"", ".", ".."}

\* Builds in two directories of the same depth have the same action, so they share
\* the remote cache (canonicalizeDir, commandDigest).
SameAction ==
    /\ first # None /\ result # None /\ cmd.canon
    /\ first.err # "canceled" /\ result.err # "canceled"
    => first = result
=============================================================================
