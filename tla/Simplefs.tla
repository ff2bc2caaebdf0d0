------------------------------ MODULE Simplefs ------------------------------
(***************************************************************************)
(* The file system of src/kernel/simplefs.c, as functions on a state s:    *)
(*   s.fs    what the kernel keeps in memory while the disk is mounted,    *)
(*   s.disk  the blocks of the rootfs partition,                           *)
(*   s.log   the disk after each device write of the call so far,          *)
(*   s.ok    whether the call has succeeded so far.                        *)
(*                                                                         *)
(* A block holds CELLS cells. A cell is one directory entry or one byte of *)
(* a file, whichever the reader takes it for: an entry is an inode number  *)
(* and a name, and a byte reads as an entry without a name. The device     *)
(* always answers; the paths taken after a device error are left out.      *)
(* Metadata blocks come before block 1 and are the fields table, inodes    *)
(* and blocks of the disk; the superblock never changes.                   *)
(***************************************************************************)
EXTENDS Integers, Sequences, FiniteSets, SequencesExt, FiniteSetsExt

CONSTANTS
  INODES,     \* inodes of the file system; 64 in the image
  INODES_PER_BLOCK,   \* inodes of a block of the inode table
  BLOCKS,     \* data blocks of the partition
  CELLS,      \* cells of a block; 16 entries or 512 bytes in the code
  DIR_CAPACITY,  \* SIMPLEFS_DIRECTORY_CAPACITY; 32 in the code
  DIR_SLOTS   \* SIMPLEFS_MAX_MOUNT_DIRENTS / SIMPLEFS_DIRECTORY_CAPACITY; 16 in the code

Inodes == 0 .. INODES - 1
Blocks == 1 .. BLOCKS
NoName == ""
Root == 0

\* Children that are not inodes of the disk: the two devices vfs_init adds to
\* /dev, and a slot that holds no pointer.
Console == -1
Tty == -2
Null == -3

Cell(i, n) == [i |-> i, n |-> n]
ZeroCell == Cell(0, NoName)
ZeroBlock == [c \in 0 .. CELLS - 1 |-> ZeroCell]
FreeInode == [kind |-> "none", size |-> 0, data_block |-> 0, block_count |-> 0,
              child_count |-> 0, mode |-> "0000", uid |-> 0]

-----------------------------------------------------------------------------
(* Device writes and the metadata *)

\* A write that leaves the disk as it is counts for nothing.
Wrote(s, disk) == IF disk = s.disk THEN s ELSE [s EXCEPT !.disk = disk, !.log = Append(@, disk)]
Failed(s) == [s EXCEPT !.ok = FALSE]

Upto(a, b) == [k \in 1 .. b - a + 1 |-> a + k - 1]

WriteBlock(s, b, block) == Wrote(s, [s.disk EXCEPT !.data[b] = block])
ZeroBlocks(s, bs) == FoldLeft(LAMBDA t, b : WriteBlock(t, b, ZeroBlock), s, bs)

\* The inode table, block after block, and the bitmaps.
TableBlock(i) == i \div INODES_PER_BLOCK
WriteTable(s, table) ==
  FoldLeft(LAMBDA t, k : Wrote(t, [t.disk EXCEPT !.table = [i \in Inodes |-> IF TableBlock(i) = k THEN table[i] ELSE @[i]]]),
           s, Upto(0, TableBlock(INODES - 1)))
WriteBitmaps(s, inodes, blocks) ==
  LET t == Wrote(s, [s.disk EXCEPT !.inodes = inodes])
  IN  Wrote(t, [t.disk EXCEPT !.blocks = blocks])

\* Mutant: the inode table is not written back.
FlushMetadataNoTable(s) == WriteBitmaps(s, s.fs.inodes, s.fs.blocks)

\* Mutant: the bitmaps are written before the inode table.
FlushMetadataTableLast(s) == WriteTable(WriteBitmaps(s, s.fs.inodes, s.fs.blocks), s.fs.node)

\* simplefs_flush_metadata: the inode table, the inode bitmap, the block bitmap.
FlushMetadata(s) == WriteBitmaps(WriteTable(s, s.fs.node), s.fs.inodes, s.fs.blocks)

-----------------------------------------------------------------------------
(* Extents *)

RequiredBlocks(size) == (size + CELLS - 1) \div CELLS
Extent(b, n) == b .. b + n - 1
ExtentOf(node) == Extent(node.data_block, node.block_count)

ExtentIsFree(s, b, n) == Extent(b, n) \subseteq Blocks \ s.fs.blocks

\* simplefs_allocate_extent: the first free extent of n blocks, 0 when there is none.
FreeExtent(s, n) ==
  LET starts == {b \in Blocks : ExtentIsFree(s, b, n)}
  IN  IF starts = {} THEN 0 ELSE Min(starts)

MarkUsed(s, b, n) == [s EXCEPT !.fs.blocks = @ \union Extent(b, n)]
MarkFree(s, b, n) == [s EXCEPT !.fs.blocks = @ \ Extent(b, n)]

ReleaseExtent(s, i) ==
  [MarkFree(s, s.fs.node[i].data_block, s.fs.node[i].block_count)
     EXCEPT !.fs.node[i].data_block = 0, !.fs.node[i].block_count = 0]

SetExtent(s, i, b, n) ==
  [MarkUsed(s, b, n) EXCEPT !.fs.node[i].data_block = b, !.fs.node[i].block_count = n]

CopyBlocks(s, from, to, n) ==
  FoldLeft(LAMBDA t, k : WriteBlock(t, to + k, t.disk.data[from + k]), s, Upto(0, n - 1))

\* simplefs_ensure_extent for a file without blocks.
FirstExtent(s, i, n) ==
  LET b == FreeExtent(s, n)
  IN  IF b = 0 THEN Failed(s)
      ELSE ZeroBlocks(SetExtent(s, i, b, n), Reverse(Upto(b, b + n - 1)))

\* simplefs_ensure_extent when the blocks after the extent are free.
ExtendInPlace(s, i, n) ==
  LET tail == s.fs.node[i].data_block + s.fs.node[i].block_count
  IN  ZeroBlocks(SetExtent(s, i, s.fs.node[i].data_block, n),
                 Upto(tail, s.fs.node[i].data_block + n - 1))

\* simplefs_ensure_extent otherwise: the old blocks are copied into a longer extent
\* before they are given back.
MoveExtent(s, i, n) ==
  LET node == s.fs.node[i]
      b == FreeExtent(s, n)
      copied == ZeroBlocks(CopyBlocks(MarkUsed(s, b, n), node.data_block, b, node.block_count),
                           Upto(b + node.block_count, b + n - 1))
  IN  IF b = 0 THEN Failed(s) ELSE SetExtent(ReleaseExtent(copied, i), i, b, n)

EnsureExtent(s, i, n) ==
  LET node == s.fs.node[i]
      more == n - node.block_count
  IN  CASE more <= 0 -> s
        [] more > 0 /\ node.block_count = 0 -> FirstExtent(s, i, n)
        [] more > 0 /\ node.block_count # 0 ->
             IF ExtentIsFree(s, node.data_block + node.block_count, more)
               THEN ExtendInPlace(s, i, n) ELSE MoveExtent(s, i, n)

-----------------------------------------------------------------------------
(* Regular files *)

\* Write value to the cells first .. last of a file, one block at a time: the loop
\* of simplefs_regular_write and, with ZeroCell, simplefs_zero_range.
WriteRange(s, i, first, last, value) ==
  FoldLeft(LAMBDA t, k :
            LET b == s.fs.node[i].data_block + k
            IN  WriteBlock(t, b, [c \in 0 .. CELLS - 1 |->
                                    IF k * CELLS + c \in first .. last THEN value
                                    ELSE t.disk.data[b][c]]),
          s, Upto(first \div CELLS, last \div CELLS))

\* simplefs_resize_node up to the metadata: the blocks of a file of its new size.
ResizeBlocks(s, i, new_size) ==
  LET node == s.fs.node[i]
      n == RequiredBlocks(new_size)
      Zeroed(u) == IF u.ok THEN WriteRange(u, i, node.size, new_size - 1, ZeroCell) ELSE u
      Cut(u) == IF new_size % CELLS = 0 THEN u ELSE WriteRange(u, i, new_size, n * CELLS - 1, ZeroCell)
  IN  CASE n > node.block_count -> Zeroed(EnsureExtent(s, i, n))
        [] n < node.block_count /\ n = 0 -> ReleaseExtent(s, i)
        [] n < node.block_count /\ n # 0 ->
             Cut([MarkFree(s, node.data_block + n, node.block_count - n) EXCEPT !.fs.node[i].block_count = n])
        [] OTHER -> s

\* simplefs_resize_node
ResizeNode(s, i, new_size) ==
  LET Sized(t) == IF s.fs.node[i].kind # "file" \/ ~t.ok THEN Failed(s)
                  ELSE FlushMetadata([t EXCEPT !.fs.node[i].size = new_size])
  IN  Sized(ResizeBlocks(s, i, new_size))

\* Mutant: a write that makes the file grow forgets its bytes.
RegularWriteResizeOnly(s, i, offset, length, byte) ==
  LET last == offset + length - 1
      t == IF last + 1 > s.fs.node[i].size THEN ResizeNode(s, i, last + 1) ELSE s
  IN  IF s.fs.node[i].kind # "file" \/ ~t.ok THEN Failed(s)
      ELSE IF last + 1 > s.fs.node[i].size THEN t
      ELSE WriteRange(t, i, offset, last, Cell(byte, NoName))

\* simplefs_regular_write of length copies of one byte at an offset: the file grows
\* first, then the bytes are written.
RegularWrite(s, i, offset, length, byte) ==
  LET last == offset + length - 1
      t == IF last + 1 > s.fs.node[i].size THEN ResizeNode(s, i, last + 1) ELSE s
  IN  IF s.fs.node[i].kind # "file" \/ ~t.ok THEN Failed(s)
      ELSE WriteRange(t, i, offset, last, Cell(byte, NoName))

\* simplefs_regular_read from the start: the bytes of a file.
RegularRead(fs, disk, i) ==
  LET node == fs.node[i]
      length == Min({node.size, node.block_count * CELLS})
  IN  [k \in 1 .. length |-> disk.data[node.data_block + (k - 1) \div CELLS][(k - 1) % CELLS].i]

-----------------------------------------------------------------------------
(* Directories *)

\* The children a lookup in directory d walks. A directory that was given no slots
\* keeps its list at address 0, where every such directory keeps it.
Children(fs, d) == IF d \in fs.slotted THEN fs.children[d] ELSE SubSeq(fs.low, 1, fs.count[d])

NameOf(fs, c) == CASE c = Console -> "console"
                   [] c = Tty -> "tty"
                   [] c = Null -> NoName   \* bytes at address 0, no name of a path
                   [] OTHER -> fs.name[c]

\* The position of a name in a directory, 0 when it is not there.
Find(fs, d, name) ==
  LET at == {k \in DOMAIN Children(fs, d) : NameOf(fs, Children(fs, d)[k]) = name}
  IN  IF at = {} THEN 0 ELSE Min(at)

\* simplefs_read_dir_entries
Readable(s, d, n) ==
  n = 0 \/ (s.fs.node[d].data_block # 0 /\ s.fs.node[d].block_count = RequiredBlocks(n))

Entries(s, d, n) ==
  [k \in 1 .. n |-> s.disk.data[s.fs.node[d].data_block + (k - 1) \div CELLS][(k - 1) % CELLS]]

\* simplefs_alloc_dir_slots: slots are handed out once and never taken back.
AllocDirSlots(s, d) ==
  IF d \in s.fs.slotted THEN s
  ELSE IF s.fs.slots = DIR_SLOTS THEN Failed(s)
  ELSE [s EXCEPT !.fs.slots = @ + 1, !.fs.slotted = @ \union {d}]

\* simplefs_populate_directory
RECURSIVE PopulateDirectory(_, _)
PopulateDirectory(s, d) ==
  LET n == s.fs.node[d].child_count
      t == [AllocDirSlots(s, d) EXCEPT !.fs.children[d] = <<>>]
      AddChild(u, cell) ==
        LET named == [u EXCEPT !.fs.name[cell.i] = cell.n, !.fs.children[d] = Append(@, cell.i)]
        IN  IF ~u.ok \/ cell.i \notin Inodes \/ cell.n = NoName THEN Failed(u)
            ELSE IF s.fs.node[cell.i].kind = "dir" /\ cell.i \notin u.fs.populated
              THEN PopulateDirectory(named, cell.i) ELSE named
      full == FoldLeft(AddChild, t, Entries(t, d, n))
  IN  IF s.fs.node[d].kind # "dir" THEN Failed(s)
      ELSE IF d \in s.fs.populated THEN s
      ELSE IF n > DIR_CAPACITY \/ ~AllocDirSlots(s, d).ok THEN Failed(s)
      ELSE IF ~Readable(t, d, n) THEN Failed(t)
      ELSE IF ~full.ok THEN full
      ELSE [full EXCEPT !.fs.populated = @ \union {d}]

\* The entries of a directory, written in one transfer, block after block.
WriteEntries(s, d, entries) ==
  LET first == s.fs.node[d].data_block
      At(b, c) == (b - first) * CELLS + c + 1
      Filled(b) == [c \in 0 .. CELLS - 1 |-> IF At(b, c) <= Len(entries) THEN entries[At(b, c)] ELSE ZeroCell]
  IN  FoldLeft(LAMBDA t, b : WriteBlock(t, b, Filled(b)), s, Upto(first, first + s.fs.node[d].block_count - 1))

\* The blocks of a directory, given back and found anew when their number changes.
\* When no extent is found the directory is left without any.
ResizeDirectory(s, d, n) ==
  LET freed == ReleaseExtent(s, d)
      b == FreeExtent(freed, n)
  IN  IF n = s.fs.node[d].block_count THEN s
      ELSE IF n = 0 THEN freed
      ELSE IF b = 0 THEN Failed(freed)
      ELSE ZeroBlocks(SetExtent(freed, d, b, n), Upto(b, b + n - 1))

\* simplefs_write_dir_entries
WriteDirEntries(s, d, entries) ==
  LET t == ResizeDirectory(s, d, RequiredBlocks(Len(entries)))
  IN  IF Len(entries) > DIR_CAPACITY THEN Failed(s)
      ELSE IF ~t.ok THEN t
      ELSE [WriteEntries(t, d, entries) EXCEPT !.fs.node[d].child_count = Len(entries),
                                               !.fs.node[d].size = Len(entries)]

\* simplefs_reset_runtime_inode; its slots are not given back.
ResetRuntimeInode(s, i) ==
  [s EXCEPT !.fs.node[i] = FreeInode, !.fs.kind[i] = "none", !.fs.name[i] = NoName,
            !.fs.populated = @ \ {i}, !.fs.slotted = @ \ {i},
            !.fs.children[i] = <<>>, !.fs.count[i] = 0]

\* Append a child to the list of a directory in memory.
AppendChild(fs, d, c) ==
  IF d \in fs.slotted THEN [fs EXCEPT !.children[d] = Append(@, c)]
  ELSE [fs EXCEPT !.count[d] = @ + 1,
                  !.low = SubSeq(@, 1, fs.count[d]) \o <<c>> \o SubSeq(@, fs.count[d] + 2, Len(@))]

\* simplefs_alloc_inode: the first one that the bitmap has free.
FreeInodes(fs) == Inodes \ fs.inodes
AllocInode(fs) == Min(FreeInodes(fs))

\* The end of simplefs_create_child: the new inode i is entered in its directory, unless
\* its entry could not be written.
Entered(s, d, i) ==
  IF ~s.ok THEN ResetRuntimeInode([s EXCEPT !.fs.inodes = @ \ {i}], i)
  ELSE [FlushMetadata([s EXCEPT !.fs = AppendChild(@, d, i)]) EXCEPT !.child = i]

\* simplefs_create_child: an empty file or directory, in a directory that was populated
\* or, with the name not found, could not be.
CreateIn(s, populated, d, name, kind, mode, uid) ==
  LET n == s.fs.node[d].child_count
      i == AllocInode(s.fs)
      made == [ResetRuntimeInode(s, i) EXCEPT
                 !.fs.inodes = @ \union {i}, !.fs.kind[i] = kind, !.fs.name[i] = name,
                 !.fs.node[i] = [FreeInode EXCEPT !.kind = kind, !.mode = mode, !.uid = uid]]
  IN  IF \/ populated /\ Find(s.fs, d, name) # 0
         \/ n >= DIR_CAPACITY \/ ~Readable(s, d, n) \/ FreeInodes(s.fs) = {}
        THEN Failed(s)
      ELSE Entered(WriteDirEntries(made, d, Append(Entries(s, d, n), Cell(i, name))), d, i)

CreateChild(s, d, name, kind, mode, uid) ==
  CreateIn([PopulateDirectory(s, d) EXCEPT !.ok = TRUE], PopulateDirectory(s, d).ok, d, name, kind, mode, uid)

RemoveAt0(seq, k) == SubSeq(seq, 1, k - 1) \o SubSeq(seq, k + 1, Len(seq))

\* Position k of a list of n moved out by shifting the first n entries; what stands
\* after the first n stays, and one entry less is counted.
ShiftOut(list, k, n) ==
  SubSeq(RemoveAt0(SubSeq(list, 1, n), k) \o <<Null>> \o SubSeq(list, n + 1, Len(list)),
         1, Len(list) - 1)

\* Mutant: the inode of a removed file is freed, its blocks are not.
ReleaseChildLeaky(s, i) == [s EXCEPT !.fs.node[i].size = 0, !.fs.node[i].child_count = 0]

ReleaseChild(s, i) ==
  [ReleaseExtent(s, i) EXCEPT !.fs.node[i].size = 0, !.fs.node[i].child_count = 0]

\* The end of simplefs_remove_child: entry k of the n in directory d, which is inode i.
RemoveEntry(s, d, k, n, i) ==
  LET shifted == [ReleaseChild(s, i) EXCEPT !.fs.children[d] = ShiftOut(@, k, n)]
      Forgotten(t) == IF ~t.ok THEN t
                      ELSE FlushMetadata(ResetRuntimeInode([t EXCEPT !.fs.inodes = @ \ {i}], i))
  IN  IF ~s.ok \/ (s.fs.node[i].kind = "dir" /\ Children(s.fs, i) # <<>>) THEN Failed(s)
      ELSE Forgotten(WriteDirEntries(shifted, d, RemoveAt0(Entries(s, d, n), k)))

\* simplefs_remove_child: the position of the name in memory is used as its position
\* on the disk.
RemoveFrom(s, d, name, open) ==
  LET n == s.fs.node[d].child_count
      k == Find(s.fs, d, name)
      i == Entries(s, d, n)[k].i
  IN  IF ~s.ok \/ k = 0 \/ k > n \/ ~Readable(s, d, n) THEN Failed(s)
      ELSE IF i \notin Inodes \cap s.fs.inodes \/ i \in open THEN Failed(s)
      ELSE RemoveEntry(IF s.fs.node[i].kind = "dir" THEN PopulateDirectory(s, i) ELSE s, d, k, n, i)

RemoveChild(s, d, name, open) == RemoveFrom(PopulateDirectory(s, d), d, name, open)

-----------------------------------------------------------------------------
(* Mounting *)

\* simplefs_mount, on a disk whose superblock is the one mkfs wrote.
Mount(disk) ==
  LET VfsKind(i) == IF i \in disk.inodes THEN disk.table[i].kind ELSE "none"
      fs == [node |-> disk.table, inodes |-> disk.inodes, blocks |-> disk.blocks,
             kind |-> [i \in Inodes |-> VfsKind(i)],
             name |-> [i \in Inodes |-> NoName],
             populated |-> {}, slotted |-> {}, slots |-> 0,
             children |-> [i \in Inodes |-> <<>>], count |-> [i \in Inodes |-> 0], low |-> <<>>]
      s == [fs |-> fs, disk |-> disk, log |-> <<>>, ok |-> TRUE, child |-> Null]
  IN  IF \E i \in disk.inodes : disk.table[i].kind = "none" THEN Failed(s)
      ELSE PopulateDirectory(s, Root)

=============================================================================
