----------------------------- MODULE FileSystem -----------------------------
(***************************************************************************)
(* The file systems under kernel/fs/vfs.c.  A node carries the operations  *)
(* of the file system it belongs to, and vfs_read, vfs_write, vfs_readdir  *)
(* and vfs_finddir call whatever the node has there.  One root is mounted: *)
(* kmain mounts the initrd's, and ext2_mount returns one of the same kind. *)
(*                                                                         *)
(* Tar and Ext2 model the operations behind the nodes.  Whichever root is  *)
(* mounted, a caller of vfs sees one store of files.                       *)
(***************************************************************************)
EXTENDS Tar

CONSTANTS
  Images, Paths, BS, IPB   \* of Ext2

ASSUME FileSystemAssumption ==
  BS \in Nat \ {0} /\ IPB \in Nat \ {0} /\ \A path \in Paths : path \in Seq(STRING)

VARIABLES
  root,   \* the file system the root node belongs to
  image, disk, mounted, sb, bg, target_node, cached_dirent, held   \* of Ext2

tar  == <<archive, mem, stage, current_address, file_count, tables>>
ext2 == <<image, disk, mounted, sb, bg, target_node, cached_dirent, held>>

Ext2 == INSTANCE Ext2

ASSUME ImagesAreExt2 == \A im \in Images : Ext2!WellFormed(im)

FileSystemInit == TarInit /\ Ext2!Init /\ root \in {"tar", "ext2"}

OnTar(action)  == root = "tar" /\ action /\ UNCHANGED <<root, ext2>>
OnExt2(action) == root = "ext2" /\ action /\ UNCHANGED <<root, tar>>

(* kmain's way to the initrd's root, or ext2_mount. *)
mount ==
  \/ OnTar(tar_parse) \/ OnTar(parse_header) \/ OnTar(parse_end)
  \/ OnExt2(Ext2!ext2_mount)

(* node->read and node->write of the file a caller holds. *)
vfs_read(offset, size) ==
  \/ \E node \in Nodes : OnTar(tar_read(node, offset, size))
  \/ OnExt2(Ext2!ext2_node_read(offset, size))

vfs_write(offset, size) ==
  \/ \E node \in Nodes : OnTar(tar_write(node, offset, size))
  \/ OnExt2(Ext2!ext2_node_write(offset, size))

(* finddir and readdir of the archive change nothing: see DirectoryAgrees. *)
vfs_resolve_path(path) == OnExt2(Ext2!vfs_resolve_path(path))
vfs_readdir(index) == OnExt2(Ext2!vfs_readdir(index))

(* There is nothing to do without files. *)
idle == OnTar(init_missing) \/ OnExt2(Ext2!refused)

FileSystemNext ==
  \/ mount \/ idle
  \/ \E r \in Reads : vfs_read(r[1], r[2])
  \/ \E w \in Writes : vfs_write(w[1], w[2])
  \/ \E path \in Paths : vfs_resolve_path(path)
  \/ \E index \in 0 .. BS : vfs_readdir(index)

FileSystemSpec == FileSystemInit /\ [][FileSystemNext]_<<root, tar, ext2, last>>

-----------------------------------------------------------------------------
(* A path in an ext2 file system gives the node it names, although all     *)
(* nodes are one, and listing a directory gives the names it has.          *)
PathsResolve  == Ext2!PathsResolve
ListingAgrees == Ext2!ListingAgrees

(* Refinement: both file systems keep one promise: reads return the bytes  *)
(* of the file they name, cut at its end, and writes change no other file. *)
Least(a, b) == IF a <= b THEN a ELSE b

Store == INSTANCE FileStore WITH
  archive <- IF root = "tar" THEN SubSeq(TarMade, 1, Least(MAX_TAR_FILES, Len(TarMade)))
                             ELSE Ext2!Ext2Made,
  open    <- IF root = "tar" THEN stage = "ready" ELSE mounted = "yes",
  files   <- IF root = "tar"
             THEN IF stage = "ready" THEN TarFiles ELSE <<>>
             ELSE IF mounted = "yes" THEN Ext2!Ext2Files ELSE <<>>

ImplementsFileStore == Store!Spec
=============================================================================
