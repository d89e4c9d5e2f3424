---------------------------- MODULE MCFileSystem ----------------------------
(***************************************************************************)
(* FileSystem with blocks of four cells.                                   *)
(***************************************************************************)
EXTENDS FileSystem, TLC

Member(name, digits) == [name |-> name, digits |-> digits]

(* No file; sizes around a block (0, 3, 4, 5 and octal 11), digits that end *)
(* early or fill what is parsed of their field, one name twice, and one     *)
(* file more than the table has room for.                                   *)
MCArchives ==
  {<<>>,
   <<Member("init", <<1, 1, -1>>)>>,
   <<Member("a", <<0, 0>>), Member("init", <<0, 4>>)>>,
   <<Member("a", <<0, 5, -1, -1>>), Member("a", <<3>>), Member("init", <<2>>)>>,
   <<Member("a", <<4>>), Member("b", <<-1>>), Member("init", <<5>>), Member("c", <<1>>)>>,
   <<Member("a", <<1>>), Member("b", <<2>>), Member("c", <<3>>), Member("init", <<1, 0>>)>>}

(* Images with files of a block and of more, directories in directories,   *)
(* deleted entries at the start of a block and stale ones inside another,  *)
(* and no file system.                                                     *)
Dirent(n, rec_len, name) == [inode |-> n, rec_len |-> rec_len, name |-> name]
Stale == Dirent(4, 1, "stale")
Data(n, from) == [k \in 1 .. 4 |-> <<n, from + k>>]
Free  == [dir |-> FALSE, size |-> 0, block |-> <<>>]
Inode(size, block) == [dir |-> FALSE, size |-> size, block |-> block]
Dir(block) == [dir |-> TRUE, size |-> 4, block |-> block]

(* Inodes 1 to 6 in blocks 3 to 5: 2 is the root, 3 a file "a" of six      *)
(* cells, 4 the directory "d" with the file "b", inode 5, and itself.      *)
Tree == [magic |-> TRUE, inode_table |-> 3, inodes_per_group |-> 6,
  blocks |-> [n \in 3 .. 10 |->
    CASE n = 3  -> <<Free, Dir(<<8>>)>>
      [] n = 4  -> <<Inode(6, <<7, 6>>), Dir(<<9>>)>>
      [] n = 5  -> <<Inode(3, <<10>>), Free>>
      [] n = 6  -> Data(3, 4)
      [] n = 7  -> Data(3, 0)
      [] n = 8  -> <<Dirent(2, 1, "."), Dirent(3, 2, "a"), Stale, Dirent(4, 1, "d")>>
      [] n = 9  -> <<Dirent(0, 1, "gone"), Dirent(4, 1, "."), Dirent(5, 2, "b"), Stale>>
      [] n = 10 -> Data(5, 0)],
  tree |-> 2 :> ("." :> 2 @@ "a" :> 3 @@ "d" :> 4) @@ 4 :> ("." :> 4 @@ "b" :> 5),
  files |-> << [inode |-> 3, contents |-> [o \in 1 .. 6 |-> <<3, o>>]],
               [inode |-> 5, contents |-> [o \in 1 .. 3 |-> <<5, o>>]] >>]

MCReads  == {<<0, 3>>, <<0, 9>>, <<3, 4>>, <<3, 0>>, <<4, 1>>, <<4, 9>>}
MCWrites == {<<0, 3>>, <<4, 1>>}

MCImages == {Tree, [Tree EXCEPT !.magic = FALSE]}
MCPaths == {<<>>, <<"a">>, <<"d">>, <<"d", "b">>, <<"d", ".">>, <<".", "d", "b">>, <<"d", "a">>,
            <<"a", "b">>, <<"gone">>, <<"d", "gone">>, <<"stale">>, <<"d", "stale">>}
=============================================================================
