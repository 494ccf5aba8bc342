----------------------------- MODULE MCSysFile -----------------------------
(***************************************************************************)
(* Trees and loads for module SysFile.  The root device has /d, and the    *)
(* devices x and y are mounted there.  /d/e is in the root and in x, the   *)
(* file s in x and y.                                                      *)
(***************************************************************************)
EXTENDS SysFile

CONSTANTS p1, p2

MCDirs == {<<"/">>, <<"/", "d">>, <<"/", "d", "e">>, <<"x">>, <<"x", "e">>, <<"y">>}
MCFiles == MCDirs \cup {<<"x", "s">>, <<"y", "s">>}

Opens(n) == [call |-> "open", name |-> n]
Closes(i) == [call |-> "close", fd |-> i]
Dups(i, j) == [call |-> "dup", fd |-> i, to |-> j]
Reads(i) == [call |-> "read", fd |-> i]
Writes(i) == [call |-> "write", fd |-> i]
Binds(x, n, o) == [call |-> "bind", from |-> x, name |-> n, order |-> o]
Unmounts(x, n) == [call |-> "unmount", from |-> x, name |-> n]

d == <<"/", "d">>
ds == <<"/", "d", "s">>
deep == <<"/", "d", "e", "..", "s">>
out == <<"/", "d", "..", "d">>

Two(a, b) == p1 :> a @@ p2 :> b

MCLoads ==
  {Two(<<Binds("x", d, o), b, Unmounts(u, d)>>, <<Opens(n)>>) :
     o \in {"repl", "before", "after"}, b \in {Opens(ds), Binds("y", d, "before")},
     u \in {None, "x", "y"}, n \in {deep, ds, out}}
  \cup
  {Two(<<Opens(<<"x", "s">>), Writes(0), a>>, <<b, c>>) :
     a \in {Writes(0), Closes(0), Dups(0, 0), Dups(0, -1)},
     b \in {Writes(0), Reads(0), Dups(0, -1), Dups(0, 1), Dups(0, 2)},
     c \in {Writes(0), Closes(0), Reads(0), Dups(0, -1)}}
  \cup
  {Two(<<Opens(d), Writes(0), Opens(d)>>, <<Opens(d), Closes(1)>>)}
=============================================================================
