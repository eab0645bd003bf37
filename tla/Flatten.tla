------------------------------- MODULE Flatten -------------------------------
(***************************************************************************)
(* flatten_directory and ensure_safe_flatten of scripts/test/benchmark.py, *)
(* which stage_store calls on the results directory once collection is     *)
(* complete: the entries of every subdirectory move up one level, and the  *)
(* emptied subdirectories are removed.                                      *)
(*                                                                          *)
(* A directory is a function from entry names to entries [kind, from,      *)
(* kids]: a file, or a subdirectory with the set of its entries' names.    *)
(* "from" is the subdirectory an entry was moved out of ("" if none).  An  *)
(* entry of a subdirectory is moved as a whole, so it is kept as one file  *)
(* item, and os.rename is modelled for a file: it replaces a file of the   *)
(* same name and fails on a directory.  The order os.walk lists the        *)
(* subdirectories in is a parameter; the order inside one subdirectory     *)
(* does not matter, as its names are distinct.                             *)
(***************************************************************************)
EXTENDS FiniteSets, Sequences, SequencesExt, FiniteSetsExt

File(from) == [kind |-> "file", from |-> from, kids |-> {}]
SubDir(kids) == [kind |-> "dir", from |-> "", kids |-> kids]

SubDirs(dir) == {n \in DOMAIN dir : dir[n].kind = "dir"}

\* The items os.walk yields in walk order: the top level, then the entries
\* of each subdirectory.
WalkGroups(dir, order) == <<DOMAIN dir>> \o [i \in 1..Len(order) |-> dir[order[i]].kids]

\* One os.walk iteration of ensure_safe_flatten.
CollisionStep(acc, items) ==
    [used |-> acc.used \cup items, coll |-> acc.coll \cup (items \cap acc.used)]

\* A variant that starts used_names after the top level.
CollisionsSubdirsOnly(dir, order) ==
    FoldLeft(CollisionStep, [used |-> {}, coll |-> {}], Tail(WalkGroups(dir, order))).coll

\* ensure_safe_flatten: the names seen at two places of the two levels.
Collisions(dir, order) ==
    FoldLeft(CollisionStep, [used |-> {}, coll |-> {}], WalkGroups(dir, order)).coll

\* os.rename(root/c, folder/c) for the entry c of subdirectory d.
MoveChild(c, acc, d) ==
    IF acc.exc # "none" THEN acc
    ELSE IF c \in DOMAIN acc.dir /\ acc.dir[c].kind = "dir"
    THEN [acc EXCEPT !.exc = "error"]
    ELSE [acc EXCEPT !.dir = [n \in DOMAIN acc.dir \cup {c} |->
                                IF n = c THEN File(d)
                                ELSE IF n = d THEN SubDir(acc.dir[d].kids \ {c})
                                ELSE acc.dir[n]]]

\* try_rmdir: an empty directory is removed, a non-empty one is kept.
TryRmdir(dir, d) ==
    IF dir[d].kids = {} THEN [n \in DOMAIN dir \ {d} |-> dir[n]] ELSE dir

\* One os.walk iteration of flatten_directory below the top level.
FlattenSubdir(acc, d) ==
    LET moved == FoldSet(LAMBDA c, a : MoveChild(c, a, d), acc, acc.dir[d].kids)
    IN  IF moved.exc # "none" THEN moved ELSE [moved EXCEPT !.dir = TryRmdir(@, d)]

\* flatten_directory: FlattenException and the directory untouched, or an
\* OSError part-way, or the flattened directory.
FlattenDirectory(dir, order) ==
    IF Collisions(dir, order) # {}
    THEN [exc |-> "collision", dir |-> dir]
    ELSE FoldLeft(FlattenSubdir, [exc |-> "none", dir |-> dir], order)

-----------------------------------------------------------------------------

\* What flattening promises, without walk order: the directory is left as
\* it is if a name occurs twice among the top level and the subdirectories'
\* entries, and otherwise holds the top-level files and every entry of every
\* subdirectory, each exactly once.
Lifted(dir) == UNION {dir[d].kids : d \in SubDirs(dir)}

SpecFlatten(dir) ==
    IF \/ DOMAIN dir \cap Lifted(dir) # {}
       \/ \E d1, d2 \in SubDirs(dir) : d1 # d2 /\ dir[d1].kids \cap dir[d2].kids # {}
    THEN [exc |-> "collision", dir |-> dir]
    ELSE [exc |-> "none",
          dir |-> [n \in (DOMAIN dir \ SubDirs(dir)) \cup Lifted(dir) |->
                     IF n \in DOMAIN dir THEN dir[n]
                     ELSE File(CHOOSE d \in SubDirs(dir) : n \in dir[d].kids)]]

\* The results directories whose entries, and their subdirectories' entries,
\* are named from Names.
Dirs(Names) ==
    UNION {[D -> {File("")} \cup {SubDir(k) : k \in SUBSET Names}] : D \in SUBSET Names}

\* The orders os.walk may list the subdirectories in.
WalkOrders(dir) == {s \in [1..Cardinality(SubDirs(dir)) -> SubDirs(dir)] : Range(s) = SubDirs(dir)}

=============================================================================
