--------------------------------- MODULE Vfs ---------------------------------
(***************************************************************************)
(* Mounts and path lookup, kernel/fs/vfs.c, with the system calls that     *)
(* reach them: open, mount and umount, mkdir, link and unlink.  System     *)
(* calls run with interrupts off, so each is one action.                   *)
(*                                                                         *)
(* A path is the sequence of its components; "" stands between two slashes *)
(* and after a last one, so that "/a" is <<"a">> and "/a/" <<"a", "">>.    *)
(* string_compare tells such paths apart, path lookup does not.  A path in *)
(* Relative has no slash before its first component.                       *)
(*                                                                         *)
(* Paths are shorter than 128 bytes: string_copy into a slot's path and    *)
(* the loop that fills token test no length, so that a longer one would    *)
(* run over what follows, the slot's node first.                           *)
(***************************************************************************)
EXTENDS Integers, Sequences

CONSTANTS
  MAX_MOUNTS,   \* vfs.c:3, 8
  Paths,        \* the paths that programs use
  Relative,     \* the ones that do not begin with a slash
  Node, NULL,   \* the nodes of the mounted file system, and no node
  TarRoot,      \* the root of the initrd
  IsDir,        \* the nodes that are directories
  Child         \* what the finddir of each node returns for each name

Root == <<>>    \* "/"

ASSUME VfsAssumption ==
  /\ MAX_MOUNTS \in Nat \ {0}
  /\ Root \in Paths /\ Paths \subseteq Seq(STRING)
  /\ Relative \subseteq Paths \ {Root}
  /\ TarRoot \in Node /\ NULL \notin Node /\ IsDir \subseteq Node
  /\ Child \in [Node -> [UNION {{p[k] : k \in DOMAIN p} : p \in Paths} -> Node \cup {NULL}]]

Slot == 0 .. MAX_MOUNTS - 1

VARIABLES
  root_node, mounts, mount_count,
  boot,        \* "start", then whether kmain found an "initrd" or "none"
  replaced,    \* history: a program has mounted "/"
  result       \* what the last system call returned

table == <<mounts, mount_count>>
vars  == <<root_node, table, boot, replaced, result>>

(* vfs_init, with mounts as .bss left it. *)
Init ==
  /\ root_node = NULL
  /\ mounts = [i \in Slot |-> [path |-> Root, node |-> NULL]]
  /\ mount_count = 0
  /\ boot = "start"
  /\ replaced = FALSE
  /\ result = 0

-----------------------------------------------------------------------------
(* Mutant: a second mount of "/" goes to the end like any other. *)
vfs_mount_RootAppended(path, node) ==
  \/ /\ mount_count < MAX_MOUNTS
     /\ root_node' = IF path = Root THEN node ELSE root_node
     /\ mounts' = [mounts EXCEPT ![mount_count] = [path |-> path, node |-> node]]
     /\ mount_count' = mount_count + 1
     /\ result' = 0
  \/ mount_count = MAX_MOUNTS /\ result' = -1 /\ UNCHANGED <<root_node, table>>

(* Mutant: no test for a full table. *)
vfs_mount_NoLimit(path, node) ==
  LET i == IF path = Root THEN 0 ELSE mount_count IN
  /\ root_node' = IF path = Root THEN node ELSE root_node
  /\ mounts' = [j \in DOMAIN mounts \cup {i} |->
                  IF j = i THEN [path |-> path, node |-> node] ELSE mounts[j]]
  /\ mount_count' = IF i >= mount_count THEN i + 1 ELSE mount_count
  /\ result' = 0

(* "/" always goes to slot 0, any other path to the first unused slot. *)
vfs_mount(path, node) ==
  \/ /\ path = Root
     /\ root_node' = node
     /\ mounts' = [mounts EXCEPT ![0] = [path |-> Root, node |-> node]]
     /\ mount_count' = IF mount_count = 0 THEN 1 ELSE mount_count
     /\ result' = 0
  \/ /\ path # Root
     /\ mount_count < MAX_MOUNTS
     /\ mounts' = [mounts EXCEPT ![mount_count] = [path |-> path, node |-> node]]
     /\ mount_count' = mount_count + 1
     /\ result' = 0
     /\ UNCHANGED root_node
  \/ /\ path # Root
     /\ mount_count >= MAX_MOUNTS
     /\ result' = -1
     /\ UNCHANGED <<root_node, table>>

(* Mutant: the last mount moves into the gap. *)
Removed_LastMoves(i) ==
  [j \in Slot |-> IF j = i THEN mounts[mount_count - 1] ELSE mounts[j]]

(* The slots behind i move up by one; the last one keeps its contents. *)
Removed(i) ==
  [j \in Slot |-> IF i <= j /\ j < mount_count - 1 THEN mounts[j + 1] ELSE mounts[j]]

vfs_umount(path) ==
  \/ \E i \in 0 .. mount_count - 1 :
       /\ mounts[i].path = path
       /\ \A j \in 0 .. i - 1 : mounts[j].path # path
       /\ mounts' = Removed(i)
       /\ mount_count' = mount_count - 1
       /\ result' = 0
  \/ /\ \A i \in 0 .. mount_count - 1 : mounts[i].path # path
     /\ result' = -1
     /\ UNCHANGED table

vfs_finddir(node, name) ==
  IF node \in IsDir THEN Child[node][name] ELSE NULL

(* Component by component from root_node; the mount table plays no part, *)
(* and a path that does not begin with a slash leads nowhere.            *)
vfs_resolve_path(path) ==
  LET current[k \in 0 .. Len(path)] ==
        IF k = 0 \/ root_node = NULL THEN root_node
        ELSE IF path[k] = "" \/ current[k - 1] = NULL THEN current[k - 1]
        ELSE vfs_finddir(current[k - 1], path[k])
  IN IF path \in Relative THEN NULL ELSE current[Len(path)]

-----------------------------------------------------------------------------
(* kmain mounts the initrd, or goes on without one. *)
kmain_mount ==
  /\ boot = "start"
  /\ \/ boot' = "initrd" /\ vfs_mount(Root, TarRoot)
     \/ boot' = "none" /\ UNCHANGED <<root_node, table, result>>
  /\ UNCHANGED replaced

sys_open(path) ==
  /\ boot # "start"
  /\ result' = IF vfs_resolve_path(path) = NULL THEN -1 ELSE 3
  /\ UNCHANGED <<root_node, table, boot, replaced>>

(* syscall_handler passes NULL for the data, which sys_mount takes for the *)
(* root of the new file system.                                            *)
sys_mount(dir) ==
  /\ boot # "start"
  /\ vfs_mount(dir, NULL)
  /\ replaced' = (replaced \/ dir = Root)
  /\ UNCHANGED boot

sys_umount(path) ==
  /\ boot # "start"
  /\ vfs_umount(path)
  /\ UNCHANGED <<root_node, boot, replaced>>

(* mkdir asks the root, link and unlink the node the path leads to; the    *)
(* operations of the initrd all return 0 and do nothing.                   *)
sys_mkdir ==
  /\ boot # "start"
  /\ result' = IF root_node = NULL THEN -1 ELSE 0
  /\ UNCHANGED <<root_node, table, boot, replaced>>

sys_link_or_unlink(path) ==
  /\ boot # "start"
  /\ result' = IF vfs_resolve_path(path) = NULL THEN -1 ELSE 0
  /\ UNCHANGED <<root_node, table, boot, replaced>>

Next ==
  \/ kmain_mount \/ sys_mkdir
  \/ \E path \in Paths :
       sys_open(path) \/ sys_mount(path) \/ sys_umount(path) \/ sys_link_or_unlink(path)

Spec == Init /\ [][Next]_vars

-----------------------------------------------------------------------------
(* Type invariant. *)
TypeOK ==
  /\ root_node \in Node \cup {NULL}
  /\ mounts \in [Slot -> [path : Paths, node : Node \cup {NULL}]]
  /\ mount_count \in 0 .. MAX_MOUNTS
  /\ boot \in {"start", "initrd", "none"}
  /\ replaced \in BOOLEAN
  /\ result \in {-1, 0, 3}

(* However mounts and unmounts move the slots, "/" is in slot 0 or nowhere, *)
(* never in two slots, and its slot names the node that lookup starts from. *)
(* That node is the initrd's root from the moment kmain mounted it until a  *)
(* program mounts "/", whatever else is mounted or unmounted, "/" included: *)
(* unmounting it takes the entry and leaves root_node.                      *)
RootIsSlotZero ==
  /\ \A i \in 0 .. mount_count - 1 :
       mounts[i].path = Root => i = 0 /\ mounts[i].node = root_node
  /\ root_node = IF boot = "initrd" /\ ~ replaced THEN TarRoot ELSE NULL

(* Refinement: the array with its shifting slots is a list of mounts. *)
List(m, n) == [i \in 1 .. n |-> m[i - 1]]
list       == List(mounts, mount_count)

Table == INSTANCE MountList WITH
  MaxMounts <- MAX_MOUNTS, Path <- Paths, Node <- Node \cup {NULL}, Root <- Root,
  list <- list

ImplementsMountList == Table!Spec
=============================================================================
