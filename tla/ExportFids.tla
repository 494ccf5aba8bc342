----------------------------- MODULE ExportFids -----------------------------
(***************************************************************************)
(* The fids and Files of the exported tree (exportfs/exportfs.c and the    *)
(* handlers of exportsrv.c that work on them).  A File is a name below a   *)
(* parent, shared by all fids walked to it and counted: one for each fid   *)
(* and one for each child.  Each operator is what one request does; only   *)
(* the master process runs them, one at a time.                            *)
(*                                                                         *)
(* What the host says of a name is not known: it exists or it does not,    *)
(* create and remove work or they fail.  Qids are left out.                *)
(***************************************************************************)
EXTENDS Naturals, Sequences, SequencesExt, FiniteSets

CONSTANTS
  Fids,         \* fid numbers of the client
  Files,        \* bound: the Files there may be at a time
  Root,         \* root
  Names,        \* names in the tree
  Nil           \* nil; no name

ASSUME RootIsFile == Root \in Files
ASSUME FiniteAre == IsFiniteSet(Files) /\ IsFiniteSet(Fids)
ASSUME NilIsNew == Nil \notin Fids /\ Nil \notin Files /\ Nil \notin Names

VARIABLES
  fidfile,      \* f->f of each fid, Nil when the fid is not in the table
  fd,           \* whether f->fid >= 0
  ref,          \* ref of each File, 0 when it is free
  name, parent,
  child         \* the children of each File, newest first

tree == <<ref, name, parent, child>>
fidVars == <<fidfile, fd, tree>>

(* fids that are attached, and those of them that are open, are given *)
FidInit(attached, open) ==
  /\ fidfile = [f \in Fids |-> IF f \in attached THEN Root ELSE Nil]
  /\ fd = [f \in Fids |-> f \in open]
  /\ ref = [x \in Files |-> IF x = Root THEN 1 + Cardinality(attached) ELSE 0]
  /\ name = [x \in Files |-> Nil]
  /\ parent = [x \in Files |-> Nil]
  /\ child = [x \in Files |-> <<>>]

Known(f) == fidfile[f] # Nil

(***************************************************************************)
(* The tree is passed through the calls of a request as a record.          *)
(***************************************************************************)
Tree == [ref |-> ref, name |-> name, parent |-> parent, child |-> child]

SetTree(t) == ref' = t.ref /\ name' = t.name /\ parent' = t.parent /\ child' = t.child

AddRef(t, x) == [t EXCEPT !.ref[x] = @ + 1]

(* one turn of freefile's loop: the File at loses a reference; if that was *)
(* its last it is taken from its parent's children, and the parent is next *)
FreeOne(s) ==
  LET t == s.tree
      x == s.at
      p == t.parent[x]
      place == CHOOSE i \in DOMAIN t.child[p] : t.child[p][i] = x
  IN IF x = Nil THEN s
     ELSE IF t.ref[x] > 1 THEN [tree |-> [t EXCEPT !.ref[x] = @ - 1], at |-> Nil]
     ELSE [tree |-> [t EXCEPT !.ref[x] = 0, !.name[x] = Nil, !.parent[x] = Nil,
                              !.child[p] = RemoveAt(@, place)],
           at   |-> p]

(* Variant: a File that is freed does not give up its parent. *)
FreeFileOnly(t, x) == FreeOne([tree |-> t, at |-> x]).tree

(* freefile: the loop ends before it has seen every File *)
FreeFile(t, x) ==
  LET loop[n \in 0 .. Cardinality(Files)] ==
        IF n = 0 THEN [tree |-> t, at |-> x] ELSE FreeOne(loop[n-1])
  IN loop[Cardinality(Files)].tree

Unused(t) == {y \in Files : t.ref[y] = 0}

(* file(dir, s), of a name s the host knows: the child of that name, or a  *)
(* new one                                                                 *)
File(t, dir, s) ==
  LET same == {i \in DOMAIN t.child[dir] : t.name[t.child[dir][i]] = s}
      x    == IF same # {} THEN t.child[dir][CHOOSE i \in same : \A j \in same : i <= j]
              ELSE CHOOSE y \in Unused(t) : TRUE
  IN [file |-> x,
      tree |-> IF same # {} THEN AddRef(t, x)
               ELSE [t EXCEPT !.ref[x] = 1, !.ref[dir] = @ + 1, !.name[x] = s,
                              !.parent[x] = dir, !.child[dir] = <<x>> \o @]]

Parent(t, x) == [file |-> t.parent[x], tree |-> AddRef(t, t.parent[x])]

(* the File that a name leads to takes the place of x *)
Accept(to, x) == [file |-> to.file, tree |-> FreeFile(to.tree, x), ok |-> TRUE]

(* One name of a walk that has come to r: a name the host does not know,   *)
(* and ".." in the root, end it.                                           *)
WalkOne(r, s) ==
  LET ends == {[r EXCEPT !.ok = FALSE]} IN
  IF ~r.ok THEN {r}
  ELSE IF s = ".." THEN IF r.tree.parent[r.file] = Nil THEN ends
                        ELSE {Accept(Parent(r.tree, r.file), r.file)}
  ELSE ends \cup {Accept(to, r.file) : to \in IF Unused(r.tree) = {} THEN {}
                                              ELSE {File(r.tree, r.file, s)}}

(* the loop of Xwalk: what may come of path, from x *)
Walks(t, x, path) ==
  LET after[n \in 0 .. Len(path)] ==
        IF n = 0 THEN {[file |-> x, tree |-> t, ok |-> TRUE]}
        ELSE UNION {WalkOne(r, path[n]) : r \in after[n-1]}
  IN after[Len(path)]

-----------------------------------------------------------------------------
(* the requests *)

BadFid(f) == ~Known(f) /\ UNCHANGED fidVars

(* Xattach: newfid refuses a fid that is in the table *)
AttachFid(f) ==
  \/ Known(f) /\ UNCHANGED fidVars
  \/ /\ ~Known(f)
     /\ fidfile' = [fidfile EXCEPT ![f] = Root]
     /\ SetTree(AddRef(Tree, Root))
     /\ UNCHANGED fd

(* clonefid of a fid in use: its File loses a reference *)
TakeFid(t, nf) == IF Known(nf) THEN FreeFile(t, fidfile[nf]) ELSE t

(* Xwalk of a fid to itself may leave it half way *)
WalkFid(f, path) ==
  /\ Known(f)
  /\ \E r \in Walks(Tree, fidfile[f], path) :
       /\ fidfile' = [fidfile EXCEPT ![f] = r.file]
       /\ SetTree(r.tree)
  /\ UNCHANGED fd

(* Xwalk to another fid, which is closed and taken over if it is in use,   *)
(* and freed again if not all of path can be walked                        *)
CloneWalkFid(f, nf, path) ==
  /\ Known(f) /\ nf # f
  /\ LET t == AddRef(TakeFid(Tree, nf), fidfile[f]) IN
     \E r \in Walks(t, fidfile[f], path) :
       /\ fidfile' = [fidfile EXCEPT ![nf] = IF r.ok THEN r.file ELSE Nil]
       /\ SetTree(IF r.ok THEN r.tree ELSE FreeFile(r.tree, r.file))
  /\ fd' = [fd EXCEPT ![nf] = FALSE]

(* Xclunk, and Xremove if the host removes the file *)
ClunkFid(f) ==
  /\ Known(f)
  /\ fidfile' = [fidfile EXCEPT ![f] = Nil]
  /\ fd' = [fd EXCEPT ![f] = FALSE]
  /\ SetTree(FreeFile(Tree, fidfile[f]))

(* Xcreate: create fails, or the name is gone when file() asks for it, or  *)
(* the fid is open at the new file                                         *)
CreateFid(f, s) ==
  /\ Known(f)
  /\ \E opened \in BOOLEAN : fd' = [fd EXCEPT ![f] = opened]
  /\ \/ UNCHANGED <<fidfile, tree>>
     \/ /\ fd'[f] /\ Unused(Tree) # {}
        /\ LET r == Accept(File(Tree, fidfile[f], s), fidfile[f]) IN
             /\ fidfile' = [fidfile EXCEPT ![f] = r.file]
             /\ SetTree(r.tree)

(* Xwstat that renames *)
RenameFid(f, s) ==
  /\ Known(f)
  /\ name' = [name EXCEPT ![fidfile[f]] = s]
  /\ UNCHANGED <<fidfile, fd, ref, parent, child>>

(* Xstat, and the requests above when the host refuses them *)
KeepFid(f) == Known(f) /\ UNCHANGED fidVars

(* slaveopen: the fid is closed if it is open, then opened or not *)
CloseFd(f) == fd' = [fd EXCEPT ![f] = FALSE] /\ UNCHANGED <<fidfile, tree>>

OpenFd(f) ==
  /\ \E opened \in BOOLEAN : fd' = [fd EXCEPT ![f] = opened]
  /\ UNCHANGED <<fidfile, tree>>

-----------------------------------------------------------------------------
FidTypeOK ==
  /\ fidfile \in [Fids -> Files \cup {Nil}]
  /\ fd \in [Fids -> BOOLEAN]
  /\ ref \in [Files -> Nat]
  /\ name \in [Files -> Names \cup {Nil}]
  /\ parent \in [Files -> Files \cup {Nil}]
  /\ child \in [Files -> Seq(Files)]

(***************************************************************************)
(* A File is counted once for each fid walked to it, once for each child   *)
(* and, if it is the root, once more; a File that nothing counts is free   *)
(* and in nobody's list.  So no fid and no child leads to a freed File,    *)
(* and none is kept that nothing leads to.                                 *)
(***************************************************************************)
FilesAreCounted ==
  \A x \in Files :
    /\ ref[x] = Cardinality({f \in Fids : fidfile[f] = x}) + Len(child[x])
                  + (IF x = Root THEN 1 ELSE 0)
    /\ \A i \in DOMAIN child[x] : ref[child[x][i]] > 0 /\ parent[child[x][i]] = x
    /\ (ref[x] > 0 /\ x # Root) => parent[x] # Nil /\ ref[parent[x]] > 0 /\
         Cardinality({i \in DOMAIN child[parent[x]] : child[parent[x]][i] = x}) = 1
=============================================================================
