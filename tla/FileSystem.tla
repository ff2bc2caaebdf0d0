----------------------------- MODULE FileSystem -----------------------------
(***************************************************************************)
(* The rootfs as user programs meet it: the path calls and open files of   *)
(* src/kernel/vfs.c and proc.c on top of simplefs.c, the image             *)
(* tools/mkfs_rootfs.c makes, the choice of a root file system at boot,    *)
(* the reinstallation of a damaged disk in recovery mode, and a power      *)
(* failure between any two writes to the disk.                             *)
(*                                                                         *)
(* A path is the sequence of its components. A call is atomic for the      *)
(* other tasks (interrupts are off in the kernel), so the tasks differ     *)
(* only in the user they run as. No mode the kernel or mkfs gives          *)
(* distinguishes the group from the others, so groups are left out.        *)
(***************************************************************************)
EXTENDS Simplefs

CONSTANTS
  ImageDirs,    \* the directories of the image's root, in order
  ImageFiles,   \* the image's files: their directory, name and bytes
  FilePaths,    \* the paths the programs use for files,
  DirPaths,     \* and for directories,
  MadeBy,       \* and which of them each user makes
  Workloads,    \* sets of paths: the programs of a behaviour name those of one of them
  Users,        \* user ids; 0 is the superuser
  Bytes,        \* the bytes the programs write
  Offsets,      \* the offsets they seek to
  Lengths,      \* the lengths they read and write
  MAX_SIZE,     \* bound: no file grows beyond it
  VFS_MAX_FILES \* entries of the open file table; 32 in the code

VARIABLES
  fs,       \* simplefs's tables in memory
  disk,     \* the rootfs partition
  files,    \* the open file table
  root,     \* root_device: "disk", "ramdisk" or "none"
  recovery, \* BOOT_FLAG_RECOVERY
  load,     \* bound: the paths that the programs name
  power,    \* whether the power has been on since the disk was made or reinstalled
  call,     \* history: the last call, or the one that a power failure interrupted
  tree,     \* history: what the programs see at each path
  sound     \* history: whether simplefs's tables are in order

Paths == FilePaths \union DirPaths

vars == <<fs, disk, files, root, recovery, load, power, call, tree, sound>>

-----------------------------------------------------------------------------
(* The image: tools/mkfs_rootfs.c *)

FileInode(k) == Len(ImageDirs) + k
FilesIn(name) == SelectSeq([k \in DOMAIN ImageFiles |-> [ImageFiles[k] EXCEPT !.inode = FileInode(k)]],
                           LAMBDA f : f.dir = name)

RootCells == [k \in DOMAIN ImageDirs |-> Cell(k, ImageDirs[k])]
DirCells(name) == [k \in DOMAIN FilesIn(name) |-> Cell(FilesIn(name)[k].inode, FilesIn(name)[k].name)]
ByteCells(bytes) == [k \in DOMAIN bytes |-> Cell(bytes[k], NoName)]

\* What the inodes hold, in the order their extents are laid out.
ImageCells ==
  <<RootCells>> \o [k \in DOMAIN ImageDirs |-> DirCells(ImageDirs[k])]
                \o [k \in DOMAIN ImageFiles |-> ByteCells(ImageFiles[k].bytes)]

ImageBlock(i) ==   \* the first block of inode i's extent
  1 + FoldLeft(LAMBDA n, cells : n + RequiredBlocks(Len(cells)), 0, SubSeq(ImageCells, 1, i))

ImageMode(i) == CASE i = Root -> "0755"
                  [] i \in DOMAIN ImageDirs -> IF ImageDirs[i] = "tmp" THEN "1777" ELSE "0755"
                  [] OTHER -> IF ImageFiles[i - Len(ImageDirs)].dir = "bin" THEN "0755" ELSE "0644"

ImageNode(i) ==
  LET size == Len(ImageCells[i + 1])
      isdir == i <= Len(ImageDirs)
  IN  [kind |-> IF isdir THEN "dir" ELSE "file", size |-> size,
       data_block |-> IF size = 0 THEN 0 ELSE ImageBlock(i),
       block_count |-> RequiredBlocks(size),
       child_count |-> IF isdir THEN size ELSE 0, mode |-> ImageMode(i), uid |-> 0]

Image ==
  LET used == 0 .. Len(ImageDirs) + Len(ImageFiles)
      node == [i \in Inodes |-> IF i \in used THEN ImageNode(i) ELSE FreeInode]
      At(i, b, c) == (b - node[i].data_block) * CELLS + c + 1
      Holder(b) == {i \in used : b \in ExtentOf(node[i])}
      CellAt(b, c) == LET i == CHOOSE i \in Holder(b) : TRUE
                      IN  IF Holder(b) # {} /\ At(i, b, c) <= node[i].size
                            THEN ImageCells[i + 1][At(i, b, c)] ELSE ZeroCell
  IN  [table |-> node, inodes |-> used, blocks |-> {b \in Blocks : Holder(b) # {}},
       data |-> [b \in Blocks |-> [c \in 0 .. CELLS - 1 |-> CellAt(b, c)]]]

ImageMounted == Mount(Image).fs

-----------------------------------------------------------------------------
(* Lookup and access: vfs.c *)

Grants(mode, owner) ==   \* the bits a mode gives to the owner, or to the others
  CASE mode = "0755" -> IF owner THEN {"r", "w", "x"} ELSE {"r", "x"}
    [] mode = "0644" -> IF owner THEN {"r", "w"} ELSE {"r"}
    [] mode = "1777" -> {"r", "w", "x"}
    [] mode = "0000" -> {}

HasAccess(f, i, uid, mask) ==
  uid = 0 \/ mask \subseteq Grants(f.node[i].mode, uid = f.node[i].uid)

\* vfs_resolve_path, one component at a time; Null when a component is missing, is
\* not below a directory, or is below one that may not be searched.
RECURSIVE Walk(_, _, _, _)
Walk(f, d, path, uid) ==
  IF path = <<>> THEN d
  ELSE IF d \notin Inodes \/ f.kind[d] # "dir" \/ ~HasAccess(f, d, uid, {"x"}) THEN Null
  ELSE LET k == Find(f, d, Head(path))
       IN  IF k = 0 THEN Null ELSE Walk(f, Children(f, d)[k], Tail(path), uid)

ResolvePath(f, path, uid) == Walk(f, Root, path, uid)

\* Mutant: anybody may write to the directory.
WritableParentAnybodys(f, path, uid) ==
  LET d == ResolvePath(f, Front(path), uid)
  IN  IF d \in Inodes /\ f.kind[d] = "dir" THEN d ELSE Null

\* vfs_resolve_parent and the test that an entry may be made or removed there.
WritableParent(f, path, uid) ==
  LET d == ResolvePath(f, Front(path), uid)
  IN  IF d \in Inodes /\ f.kind[d] = "dir" /\ HasAccess(f, d, uid, {"w", "x"}) THEN d ELSE Null

-----------------------------------------------------------------------------
(* The state, and the calls as functions on it *)

NoFile == [inode |-> Null, offset |-> 0, flags |-> {}, uid |-> 0]
NoFiles == [f \in 1 .. VFS_MAX_FILES |-> NoFile]

\* A call and what it was told: first to last are the bytes it writes. A boot and a
\* reinstallation count as calls of the superuser.
NoCall == [op |-> "none", uid |-> 0, path |-> <<>>, create |-> FALSE, trunc |-> FALSE,
           first |-> 0, last |-> 0, byte |-> 0, result |-> "ok"]
Called(op, uid, path) == [NoCall EXCEPT !.op = op, !.uid = uid, !.path = path]
Result(ok) == IF ok THEN "ok" ELSE "failed"

OpenInodes == {files[f].inode : f \in 1 .. VFS_MAX_FILES} \ {Null}   \* ref_count # 0
FreeFiles == {f \in 1 .. VFS_MAX_FILES : files[f].inode = Null}

Now == [fs |-> fs, disk |-> disk, log |-> <<>>, ok |-> TRUE, child |-> Null]

\* vfs_open_path, as far as the inode to open: s.child.
OpenPath(s, uid, path, flags) ==
  LET i == ResolvePath(s.fs, path, uid)
  IN  IF \/ i \notin Inodes \/ s.fs.kind[i] = "dir"
         \/ ~HasAccess(s.fs, i, uid, flags)
         \/ "w" \in flags /\ s.fs.kind[i] = "none"
        THEN Failed(s) ELSE [s EXCEPT !.child = i]

\* vfs_create_path and vfs_mkdir_path.
MakePath(s, uid, path, kind, mode) ==
  LET d == WritableParent(s.fs, path, uid)
  IN  IF ResolvePath(s.fs, path, uid) # Null \/ d = Null THEN Failed(s)
      ELSE CreateChild(s, d, Last(path), kind, mode, uid)

\* vfs_unlink_path: in a sticky directory only the owners of the directory and of the
\* file, and the superuser, remove it.
UnlinkPath(s, uid, path, open) ==
  LET d == WritableParent(s.fs, path, uid)
      i == ResolvePath(s.fs, path, uid)
  IN  IF d = Null \/ i = Null THEN Failed(s)
      ELSE IF s.fs.node[d].mode = "1777" /\ uid \notin {0, s.fs.node[d].uid, s.fs.node[i].uid}
        THEN Failed(s)
      ELSE RemoveChild(s, d, Last(path), open)

\* proc_open_fd: the file is opened or else made, then truncated. s.child is the inode
\* to enter in the file table; a full table leaves a file it made behind.
OpenFd(s, uid, path, flags, create, trunc) ==
  LET Made(t) == IF ~t.ok /\ create THEN MakePath(s, uid, path, "file", "0644") ELSE t
      Got(t) == IF ~t.ok \/ FreeFiles = {} THEN [t EXCEPT !.ok = FALSE]
                ELSE IF trunc /\ "w" \in flags THEN ResizeNode(t, t.child, 0) ELSE t
  IN  Got(Made(OpenPath(s, uid, path, flags)))

\* vfs_reinstall_rootfs: the image, block by block, over the partition.
Reinstalled(s, image) ==
  FoldLeft(LAMBDA t, b : WriteBlock(t, b, image.data[b]),
           WriteBitmaps(WriteTable(s, image.table), image.inodes, image.blocks), Upto(1, BLOCKS))

-----------------------------------------------------------------------------
(* What the programs see *)

Intact == power = "on"

Absent == [kind |-> "none", uid |-> 0, data |-> <<>>]

Entry(f, dsk, path) ==
  LET i == ResolvePath(f, path, 0)
  IN  IF i \notin Inodes THEN Absent
      ELSE [kind |-> f.kind[i], uid |-> f.node[i].uid,
            data |-> IF f.kind[i] = "file" THEN RegularRead(f, dsk, i) ELSE <<>>]

Tree(f, dsk) == [p \in Paths |-> Entry(f, dsk, p)]

\* The directories and files reachable from the root.
Below(f, S) == S \union UNION {Range(Children(f, d)) \cap Inodes : d \in {e \in S : f.kind[e] = "dir"}}
Reachable(f) == Below(f, Below(f, Below(f, {Root})))
Directories(f) == {i \in Reachable(f) : f.kind[i] = "dir"}

DevDirectory(f) == ResolvePath(f, <<"dev">>, 0)

\* What the programs can do to a disk that simplefs does not survive:
\* more directories than there are slots, a directory whose longer extent could not
\* be found, a list of children kept at address 0, and a name removed from /dev.
Sound ==
  /\ Intact /\ root = "disk"
  /\ Cardinality(Directories(fs)) <= DIR_SLOTS
  /\ \A d \in Directories(fs) :
       /\ fs.node[d].child_count > 0 => fs.node[d].block_count > 0
       /\ Children(fs, d) # <<>> => d \in fs.slotted
       /\ Null \notin Range(Children(fs, d))
  /\ Len(fs.children[DevDirectory(fs)]) <= DIR_CAPACITY

Observed ==
  IF UNCHANGED <<fs, disk, root, power>> THEN UNCHANGED <<tree, sound>>
  ELSE tree' = Tree(fs', disk') /\ sound' = Sound'

-----------------------------------------------------------------------------
(* The actions *)

\* Bound: programs go on only while the file system is sound. From any other state the
\* machine is booted, and in recovery mode reinstalled.
MayCall == sound

\* Call c ended in state s, or the power failed in it after some of its writes.
Returns(s, c) == /\ fs' = s.fs /\ disk' = s.disk /\ call' = c
                 /\ UNCHANGED <<root, recovery, load, power>>
                 /\ Observed

PowerFails(s, c) ==
  \E k \in 1 .. Len(s.log) - 1 :
    /\ disk' = s.log[k] /\ power' = "failed" /\ root' = "none" /\ call' = [c EXCEPT !.result = "none"]
    /\ fs' = ImageMounted /\ files' = NoFiles /\ recovery' = FALSE
    /\ sound' = FALSE /\ UNCHANGED <<tree, load>>   \* nobody is there to look

Open(uid, path, flags, create, trunc) ==
  /\ MayCall
  /\ \E s \in {OpenFd(Now, uid, path, flags, create, trunc)} :
     LET c == [Called("open", uid, path) EXCEPT
                 !.create = create, !.trunc = trunc /\ "w" \in flags,
                 !.result = IF ~s.ok /\ FreeFiles = {} THEN "full" ELSE Result(s.ok)]
     IN  \/ /\ Returns(s, c)
            /\ files' = IF ~s.ok THEN files
                        ELSE [files EXCEPT ![Min(FreeFiles)] =
                                [inode |-> s.child, offset |-> 0, flags |-> flags, uid |-> uid]]
         \/ PowerFails(s, c)

\* A call on an open file that changes nothing but its entry.
OnFile(f, op, file) ==
  /\ MayCall /\ files[f] # NoFile
  /\ files' = [files EXCEPT ![f] = file]
  /\ call' = Called(op, files[f].uid, <<>>)
  /\ UNCHANGED <<fs, disk, root, recovery, load, power, tree, sound>>

Close(f) == OnFile(f, "close", NoFile)

PathOf(i) == CHOOSE p \in Paths : ResolvePath(fs, p, 0) = i

Write(f, length, byte) ==
  LET file == files[f]
      last == file.offset + length - 1
  IN  /\ MayCall /\ file # NoFile /\ "w" \in file.flags /\ last < MAX_SIZE
      /\ \E s \in {RegularWrite(Now, file.inode, file.offset, length, byte)} :
         LET c == [Called("write", file.uid, PathOf(file.inode)) EXCEPT
                     !.first = file.offset + 1, !.last = last + 1, !.byte = byte, !.result = Result(s.ok)]
         IN  \/ /\ Returns(s, c)
                /\ files' = IF s.ok THEN [files EXCEPT ![f].offset = last + 1] ELSE files
             \/ PowerFails(s, c)

Read(f, length) ==
  LET available == Max({0, Len(RegularRead(fs, disk, files[f].inode)) - files[f].offset})
  IN  /\ "r" \in files[f].flags
      /\ OnFile(f, "read", [files[f] EXCEPT !.offset = @ + Min({length, available})])

Seek(f, offset) == OnFile(f, "seek", [files[f] EXCEPT !.offset = offset])

Mkdir(uid, path) ==
  /\ MayCall
  /\ \E s \in {MakePath(Now, uid, path, "dir", "0755")} :
     LET c == [Called("mkdir", uid, path) EXCEPT !.result = Result(s.ok)]
     IN  (Returns(s, c) /\ UNCHANGED files) \/ PowerFails(s, c)

Unlink(uid, path) ==
  /\ MayCall
  /\ \E s \in {UnlinkPath(Now, uid, path, OpenInodes)} :
     LET c == [Called("unlink", uid, path) EXCEPT !.result = Result(s.ok)]
     IN  (Returns(s, c) /\ UNCHANGED files) \/ PowerFails(s, c)

\* vfs_init: mount what the root policy says, then hang the console and the tty into
\* /dev; when /dev has no room for them there is no root, whatever was mounted.
Attachable(f) == LET d == DevDirectory(f)
                 IN  /\ d \in Inodes /\ f.kind[d] = "dir"
                     /\ Len(f.children[d]) + 2 <= DIR_CAPACITY
AttachDevices(f) == [f EXCEPT !.children[DevDirectory(f)] = @ \o <<Console, Tty>>]

MountRoot(policy) ==
  LET m == Mount(disk)
  IN  CASE policy \in {"disk", "auto"} /\ m.ok -> [fs |-> m.fs, root |-> "disk"]
        [] policy = "disk" /\ ~m.ok -> [fs |-> ImageMounted, root |-> "none"]
        [] OTHER -> [fs |-> ImageMounted, root |-> "ramdisk"]

Mounted(m, recover) ==
  LET up == m.root # "none" /\ Attachable(m.fs)
  IN  /\ fs' = IF up THEN AttachDevices(m.fs) ELSE m.fs
      /\ root' = IF up THEN m.root ELSE "none"
      /\ recovery' = recover
      /\ files' = NoFiles /\ call' = Called("boot", 0, <<>>)
      /\ UNCHANGED <<disk, load, power>>
      /\ Observed

Boot(policy, recover) == Mounted(MountRoot(policy), recover)

Reinstall ==
  /\ recovery /\ root = "ramdisk"
  /\ \E s \in {Reinstalled(Now, Image)} :
       \/ /\ disk' = s.disk /\ power' = "on" /\ call' = Called("reinstall", 0, <<>>)
          /\ UNCHANGED <<fs, files, root, recovery, load>>
          /\ Observed
       \/ PowerFails(s, Called("reinstall", 0, <<>>))

Init ==
  /\ disk = Image
  /\ fs = AttachDevices(ImageMounted)
  /\ files = NoFiles
  /\ root = "disk" /\ recovery = FALSE
  /\ load \in Workloads
  /\ power = "on"
  /\ call = NoCall
  /\ tree = Tree(fs, disk) /\ sound = Sound

OpenModes(uid) ==
  {[flags |-> {"w"}, create |-> TRUE, trunc |-> FALSE],
   [flags |-> {"w"}, create |-> FALSE, trunc |-> TRUE]}
  \union IF uid = 0 THEN {} ELSE {[flags |-> {"r"}, create |-> FALSE, trunc |-> FALSE]}

BootEntries == {[policy |-> "disk", recovery |-> FALSE], [policy |-> "auto", recovery |-> FALSE],
                [policy |-> "ramdisk", recovery |-> TRUE]}

Next ==
  \/ \E u \in Users :
       \/ \E p \in FilePaths \cap load, m \in OpenModes(u) : Open(u, p, m.flags, m.create /\ p \in MadeBy[u], m.trunc)
       \/ \E p \in DirPaths \cap load \cap MadeBy[u] : Mkdir(u, p)
       \/ \E p \in load : Unlink(u, p)
  \/ \E f \in 1 .. VFS_MAX_FILES :
       \/ Close(f)
       \/ \E n \in Lengths : Read(f, n) \/ \E b \in Bytes : Write(f, n, b)
       \/ \E o \in Offsets : Seek(f, o)
  \/ \E e \in BootEntries : Boot(e.policy, e.recovery)
  \/ Reinstall

Spec == Init /\ [][Next]_vars

-----------------------------------------------------------------------------
(* Properties *)

\* The bitmaps say what the directories say: the used inodes are the reachable ones, no
\* block belongs to two of them, and the used blocks are theirs (the bitmaps of
\* simplefs.c as every create, write, truncate and unlink leaves them).
BlocksExact ==
  sound =>
    /\ fs.inodes = Reachable(fs)
    /\ fs.blocks = UNION {ExtentOf(fs.node[i]) : i \in Reachable(fs)}
    /\ \A i, j \in Reachable(fs) : i # j => ExtentOf(fs.node[i]) \cap ExtentOf(fs.node[j]) = {}

\* Whatever the calls did, a reboot between two calls finds the same tree: simplefs
\* writes every change through, and the disk can be mounted.
Durable ==
  sound => Mount(disk).ok /\ Attachable(Mount(disk).fs)
           /\ Tree(Mount(disk).fs, disk) = tree

\* "The kernel can create and modify files on the real rootfs partition and those changes
\* survive reboot": vfs_mkdir_path accepts a directory for which the next simplefs_mount
\* has no slots.
SurvivesReboot ==
  Intact /\ root = "disk" => Mount(disk).ok /\ Tree(Mount(disk).fs, disk) = tree

\* Programs see a tree in which a call that is told it succeeded has made exactly the
\* change that it asked for, of the entry it names and no other, a call that failed none,
\* but for the file that an open with no room in the file table leaves behind, and a
\* reboot none: lookup, extents, bitmaps and directory blocks together implement FsTree.
FT == INSTANCE FsTree
ImplementsTree == FT!Spec

\* The calls that leave a mountable disk when the power fails in them.
Survives(c) ==
  \/ c.op = "write"
  \/ c.op \in {"open", "mkdir"} /\
     LET d == fs.node[ResolvePath(fs, Front(c.path), 0)]
     IN  \/ tree[c.path].kind = "file"
         \/ /\ d.block_count \in {0, RequiredBlocks(d.child_count + 1)}
            /\ c.op = "mkdir" => Cardinality(Directories(fs)) < DIR_SLOTS

\* What call c had to keep is in d, on a disk that was mounted as m: every path but the
\* one the call named, and of a file that was written all the bytes outside the range.
Keeps(m, d, c) ==
  LET before == tree[c.path]
      after == Entry(m.fs, d, c.path)
  IN  /\ m.ok
      /\ \A q \in Paths \ {c.path} : Entry(m.fs, d, q) = tree[q]
      /\ c.op = "write" =>
           /\ after.kind = "file" /\ after.uid = before.uid
           /\ Len(after.data) \in {Len(before.data), Max({Len(before.data), c.last})}
           /\ \A k \in DOMAIN after.data \ (c.first .. c.last) :
                after.data[k] = IF k \in DOMAIN before.data THEN before.data[k] ELSE 0

\* When the power fails inside a write, a truncation, or the creation of an entry whose
\* directory keeps its blocks, the disk still mounts, every other path is as it was, and
\* a file that was written has its old length or its new one, and all the bytes outside
\* the written range as they were, also when its blocks were being moved
\* (simplefs_regular_write, simplefs_resize_node, simplefs_create_child).
CrashKeepsData ==
  [][~Intact' /\ sound /\ Survives(call') => Keeps(Mount(disk'), disk', call')]_vars

\* A user makes and removes entries only in their own directories and in /tmp, removes
\* from /tmp only what is theirs, and changes only their own files: through the modes,
\* the sticky bit and open files together.
AccessRespected ==
  [][call'.uid # 0 /\ sound /\ sound' =>
       \A p \in Paths :
         LET was == tree[p]
             is == tree'[p]
             parent == fs.node[ResolvePath(fs, Front(p), 0)]
         IN  /\ was = Absent /\ is # Absent => is.uid = call'.uid /\ (parent.uid = call'.uid \/ parent.mode = "1777")
             /\ was # Absent /\ is = Absent => was.uid = call'.uid \/ parent.uid = call'.uid
             /\ was # Absent /\ is # Absent /\ was # is => was.uid = call'.uid /\ is.uid = call'.uid
    ]_vars

=============================================================================
