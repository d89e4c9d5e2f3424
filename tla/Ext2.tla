-------------------------------- MODULE Ext2 --------------------------------
(***************************************************************************)
(* The ext2 reader: kernel/fs/ext2.c under the path lookup of vfs.c, over  *)
(* a disk of blocks.  Every lookup ends in one of two static nodes, root   *)
(* and target_node, and each component found overwrites the latter, also   *)
(* when its own directory was read through it.                             *)
(*                                                                         *)
(* The images are those the code can read: blocks of 1024 bytes (for other *)
(* sizes ext2_mount looks for the group descriptor where it is not),       *)
(* inodes of 128 bytes in one group, directories of one block, files of    *)
(* direct blocks without holes.  Names have at most 127 characters, where  *)
(* ext2_node_readdir would cut them, and every inode is a directory or a   *)
(* regular file: the bit of i_mode that ext2_node_finddir takes for a      *)
(* directory's is also set in block devices and sockets.  Sizes and        *)
(* offsets are counted in cells.                                           *)
(***************************************************************************)
EXTENDS Integers, Sequences, FiniteSets, SequencesExt, FiniteSetsExt

CONSTANTS
  Images,   \* [magic, inode_table, inodes_per_group, blocks, tree, files]:
            \* blocks as on the disk, and what is in them: the inodes of the
            \* names in each directory, and the files with their contents
  Paths,    \* the paths that are looked up, as sequences of names
  BS,       \* cells in a block
  IPB,      \* inodes in a block
  New,      \* what is written
  Reads, Writes   \* bound: the offsets and sizes considered

VARIABLES
  image,        \* what mkfs made
  disk,         \* the blocks
  mounted,      \* "no", "yes" or "refused"
  sb, bg,       \* inodes_per_group of the superblock, inode_table of the group
  target_node,  \* the static node of ext2_node_finddir
  cached_dirent,\* the static entry of ext2_node_readdir
  held,         \* the last path a caller looked up, and the node it got
  last          \* the last read or write

vars == <<image, disk, mounted, sb, bg, target_node, cached_dirent, held, last>>

NoNode == [inode |-> 0, flags |-> "none", length |-> 0]
Root   == [inode |-> 2, flags |-> "directory", length |-> 0]

Init ==
  /\ image \in Images
  /\ disk = image.blocks
  /\ mounted = "no"
  /\ sb = 0 /\ bg = 0
  /\ target_node = NoNode
  /\ cached_dirent = [ino |-> 0, name |-> ""]
  /\ held = [path |-> <<>>, node |-> "NULL"]
  /\ last = [file |-> 1, offset |-> 0, size |-> 0, bytes |-> <<>>]

(* ext2_mount. *)
ext2_mount ==
  /\ mounted = "no"
  /\ IF image.magic
     THEN /\ mounted' = "yes"
          /\ sb' = image.inodes_per_group
          /\ bg' = image.inode_table
     ELSE mounted' = "refused" /\ UNCHANGED <<sb, bg>>
  /\ UNCHANGED <<image, disk, target_node, cached_dirent, held, last>>

-----------------------------------------------------------------------------
(* Inode n, counted from 1, as it is in the blocks: [dir, size, block]. *)
Inode(blocks, table, per_group, n) ==
  LET index == (n - 1) % per_group IN blocks[table + index \div IPB][(index % IPB) + 1]

ext2_read_inode(n) == Inode(disk, bg, sb, n)

(* Mutant: entries of deleted files are used. *)
Entries_Deleted(n) ==
  LET inode == ext2_read_inode(n)
      walk[offset \in Nat] ==
        IF offset >= inode.size THEN <<>>
        ELSE LET entry == disk[inode.block[1]][offset + 1]
             IN  <<entry>> \o walk[offset + entry.rec_len]
  IN walk[0]

(* The entries of directory n in the order both loops meet them: each one  *)
(* says how far the next is, and one without an inode is no file.          *)
Entries(n) ==
  LET inode == ext2_read_inode(n)
      walk[offset \in Nat] ==
        IF offset >= inode.size THEN <<>>
        ELSE LET entry == disk[inode.block[1]][offset + 1]
                 rest  == IF entry.rec_len = 0 THEN <<>> ELSE walk[offset + entry.rec_len]
             IN  IF entry.inode # 0 /\ entry.rec_len # 0 THEN <<entry>> \o rest ELSE rest
  IN walk[0]

(* What ext2_node_finddir writes into target_node for an entry it found. *)
NodeOf(entry) ==
  LET inode == ext2_read_inode(entry.inode) IN
  [inode  |-> entry.inode,
   flags  |-> IF inode.dir THEN "directory" ELSE "file",
   length |-> inode.size]

(* The first entry of directory n with a name, or none. *)
Matches(n, name) ==
  LET entries == Entries(n) IN
  {entries[k] : k \in {k \in 1 .. Len(entries) :
     /\ entries[k].name = name
     /\ \A j \in 1 .. k - 1 : entries[j].name # name}}

(* Mutant: the directory of the first component is searched every time. *)
finddir_FromRoot(found, name) ==
  IF found.node = "NULL" \/ Matches(2, name) = {}
  THEN [found EXCEPT !.node = "NULL"]
  ELSE [node |-> "target", target |-> NodeOf(CHOOSE entry \in Matches(2, name) : TRUE)]

(* One round of vfs_resolve_path's loop: vfs_finddir, ext2_node_finddir.   *)
(* found says which of the two nodes is current, and what target_node is.  *)
finddir(found, name) ==
  LET current == IF found.node = "root" THEN Root ELSE found.target
      match   == Matches(current.inode, name)
  IN
  IF found.node = "NULL" \/ current.flags # "directory" \/ match = {}
  THEN [found EXCEPT !.node = "NULL"]
  ELSE [node |-> "target", target |-> NodeOf(CHOOSE entry \in match : TRUE)]

vfs_resolve_path(path) ==
  LET found[k \in 0 .. Len(path)] ==
        IF k = 0 THEN [node |-> "root", target |-> target_node]
        ELSE finddir(found[k - 1], path[k])
  IN
  /\ mounted = "yes"
  /\ held' = [path |-> path, node |-> found[Len(path)].node]
  /\ target_node' = found[Len(path)].target
  /\ UNCHANGED <<image, disk, mounted, sb, bg, cached_dirent, last>>

Held == IF held.node = "root" THEN Root ELSE target_node

(* Reading the held directory, until there is no entry of that index. *)
vfs_readdir(index) ==
  /\ held.node # "NULL"
  /\ Held.flags = "directory"
  /\ index < Len(Entries(Held.inode))
  /\ LET entry == Entries(Held.inode)[index + 1] IN
     cached_dirent' = [ino |-> entry.inode, name |-> entry.name]
  /\ UNCHANGED <<image, disk, mounted, sb, bg, target_node, held, last>>

(* Mutant: the last piece is not cut at the end of the file. *)
Chunk_Uncut(inode, offset, end) == Min({BS - (offset % BS), end - offset})

(* How much of a block a round of ext2_read_data's loop takes. *)
Chunk(inode, offset, end) ==
  Min({BS - (offset % BS), end - offset, inode.size - offset})

ext2_read_data(inode, offset, size) ==
  LET end == offset + size
      from[o \in Nat] ==
        IF o >= end \/ o >= inode.size THEN <<>>
        ELSE LET n == Chunk(inode, o, end)
                 b == disk[inode.block[o \div BS + 1]]
             IN  SubSeq(b, (o % BS) + 1, (o % BS) + n) \o from[o + n]
  IN from[offset]

(* Which file of the image the held node is. *)
FileOf(n) == CHOOSE f \in DOMAIN image.files : image.files[f].inode = n

ext2_node_read(offset, size) ==
  /\ held.node = "target" /\ target_node.flags = "file"
  /\ last' = [file |-> FileOf(target_node.inode), offset |-> offset, size |-> size,
              bytes |-> ext2_read_data(ext2_read_inode(target_node.inode), offset, size)]
  /\ UNCHANGED <<image, disk, mounted, sb, bg, target_node, cached_dirent, held>>

(* It writes into one block and looks at no size: the caller stays within  *)
(* the file and the block, and does not begin at the file's end.           *)
ext2_node_write(offset, size) ==
  LET inode == ext2_read_inode(target_node.inode) IN
  /\ held.node = "target" /\ target_node.flags = "file"
  /\ offset < inode.size /\ offset + size <= inode.size /\ (offset % BS) + size <= BS
  /\ disk' = [disk EXCEPT ![inode.block[offset \div BS + 1]] =
                [k \in 1 .. BS |-> IF k \in (offset % BS) + 1 .. (offset % BS) + size
                                   THEN New ELSE @[k]]]
  /\ last' = [file |-> FileOf(target_node.inode), offset |-> offset, size |-> size,
              bytes |-> <<>>]
  /\ UNCHANGED <<image, mounted, sb, bg, target_node, cached_dirent, held>>

(* The device cannot be mounted: there is nothing to do. *)
refused == mounted = "refused" /\ UNCHANGED vars

Next ==
  \/ ext2_mount \/ refused
  \/ \E path \in Paths : vfs_resolve_path(path)
  \/ \E index \in 0 .. BS : vfs_readdir(index)
  \/ \E r \in Reads : ext2_node_read(r[1], r[2])
  \/ \E w \in Writes : ext2_node_write(w[1], w[2])

Spec == Init /\ [][Next]_vars

-----------------------------------------------------------------------------
(* An image im as mkfs and the programs that filled it left it.            *)
InodeOn(im, n)    == Inode(im.blocks, im.inode_table, im.inodes_per_group, n)
TableBlock(im, n) == im.inode_table + ((n - 1) % im.inodes_per_group) \div IPB
Record(im, n, o)  == im.blocks[InodeOn(im, n).block[1]][o + 1]
FileInode(im, f)  == InodeOn(im, im.files[f].inode)
DataBlock(im, f, o) == FileInode(im, f).block[o \div BS + 1]
Inodes(im) == DOMAIN im.tree \cup {im.files[f].inode : f \in DOMAIN im.files}

(* From each record the next one follows, up to the directory's end; those *)
(* with an inode are the names of the directory, each once.                *)
IsDirectory(im, n) ==
  LET inode == InodeOn(im, n) IN
  /\ inode.dir = TRUE /\ inode.size \in 1 .. BS /\ inode.block[1] \in DOMAIN im.blocks
  /\ \A o \in 0 .. BS - 1 : Record(im, n, o) \in [inode : Nat, rec_len : Nat, name : STRING]
  /\ \E starts \in SUBSET (0 .. inode.size - 1) :
       LET used == {o \in starts : Record(im, n, o).inode # 0} IN
       /\ 0 \in starts
       /\ \A o \in starts :
            LET next == o + Record(im, n, o).rec_len IN
            o < next /\ next \in starts \cup {inode.size} /\ \A p \in starts : p <= o \/ next <= p
       /\ \A o, p \in used : Record(im, n, o).name = Record(im, n, p).name => o = p
       /\ {<<Record(im, n, o).name, Record(im, n, o).inode>> : o \in used}
            = {<<name, im.tree[n][name]>> : name \in DOMAIN im.tree[n]}

(* A file has blocks of its own. *)
IsFile(im, f) ==
  LET size == FileInode(im, f).size IN
  /\ FileInode(im, f).dir = FALSE /\ size \in Nat
  /\ im.files[f].contents =
       [o \in 1 .. size |-> im.blocks[DataBlock(im, f, o - 1)][((o - 1) % BS) + 1]]
  /\ \A o \in 0 .. size - 1 :
       /\ DataBlock(im, f, o) \in DOMAIN im.blocks
       /\ DOMAIN im.blocks[DataBlock(im, f, o)] = 1 .. BS
       /\ \A n \in Inodes(im) : DataBlock(im, f, o) # TableBlock(im, n)
       /\ \A n \in DOMAIN im.tree : DataBlock(im, f, o) # InodeOn(im, n).block[1]
       /\ \A g \in DOMAIN im.files : \A p \in 0 .. FileInode(im, g).size - 1 :
            DataBlock(im, f, o) = DataBlock(im, g, p) => f = g /\ o \div BS = p \div BS

WellFormed(im) ==
  im.magic =>
    /\ im.inodes_per_group \in Nat \ {0} /\ im.inode_table \in Nat
    /\ Inodes(im) \subseteq Nat \ {0} /\ 2 \in DOMAIN im.tree
    /\ \A n \in Inodes(im) : TableBlock(im, n) \in DOMAIN im.blocks
    /\ \A n \in DOMAIN im.tree : IsDirectory(im, n)
    /\ \A n \in DOMAIN im.tree : \A name \in DOMAIN im.tree[n] : im.tree[n][name] \in Inodes(im)
    /\ \A f \in DOMAIN im.files :
         /\ IsFile(im, f)
         /\ im.files[f].inode \notin DOMAIN im.tree
         /\ \A g \in DOMAIN im.files : im.files[f].inode = im.files[g].inode => f = g

-----------------------------------------------------------------------------
(* Where a path leads in the tree mkfs made: 0 for nowhere. *)
Leads(path) ==
  LET next(n, name) == IF n \in DOMAIN image.tree /\ name \in DOMAIN image.tree[n]
                       THEN image.tree[n][name] ELSE 0
      leads[k \in 0 .. Len(path)] == IF k = 0 THEN 2 ELSE next(leads[k - 1], path[k])
  IN leads[Len(path)]

(* The node a caller was given is the one its path leads to, whatever was  *)
(* looked up before and left in the static node, whatever was read through *)
(* it on the way, and a path that leads nowhere gives none.                *)
PathsResolve ==
  mounted = "yes" /\ held.path # <<>> =>
    IF Leads(held.path) = 0
    THEN held.node = "NULL"
    ELSE /\ held.node = "target"
         /\ target_node.inode = Leads(held.path)
         /\ (target_node.flags = "directory") = (target_node.inode \in DOMAIN image.tree)

(* Reading the held directory from index 0 until there is no entry lists   *)
(* each of its names once, with its inode, and no name that was deleted.   *)
ListingAgrees ==
  held.node # "NULL" /\ Held.flags = "directory" =>
    LET entries == Entries(Held.inode)
        names   == image.tree[Held.inode]
    IN
    /\ {<<e.name, e.inode>> : e \in ToSet(entries)} = {<<n, names[n]>> : n \in DOMAIN names}
    /\ Len(entries) = Cardinality(DOMAIN names)

(* The files as they are seen, off the disk, and as they were made. *)
Ext2Made == [f \in DOMAIN image.files |-> image.files[f].contents]

Ext2Files ==
  [f \in DOMAIN image.files |->
    LET inode == ext2_read_inode(image.files[f].inode) IN
    [o \in 1 .. inode.size |-> disk[inode.block[(o - 1) \div BS + 1]][((o - 1) % BS) + 1]]]
=============================================================================
