-------------------------------- MODULE MCVfs --------------------------------
(***************************************************************************)
(* Vfs with a root directory that holds a file and a directory with a file *)
(* in it: the initrd's tree is flat, an ext2 one need not be.  "d/f" has   *)
(* no slash in front.                                                      *)
(***************************************************************************)
EXTENDS Vfs

MCRelative == {<<"d", "f">>}

MCPaths ==
  {<<>>, <<"init">>, <<"init", "">>, <<"d">>, <<"d", "", "f">>, <<"init", "f">>} \cup MCRelative

MCNode  == {"root", "init", "d", "f"}

MCChild ==
  [n \in MCNode |-> [name \in {"init", "d", "f", ""} |->
     IF <<n, name>> \in {<<"root", "init">>, <<"root", "d">>, <<"d", "f">>} THEN name
     ELSE "null"]]
=============================================================================
