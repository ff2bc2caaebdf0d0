---------------------------- MODULE MCFileSystem ----------------------------
(***************************************************************************)
(* Instances of the file system for TLC.                                   *)
(***************************************************************************)
EXTENDS FileSystem

MCImageDirs == <<"dev", "tmp">>
MCImageFiles == <<>>
MCFilePaths == {<<"dev", "a">>, <<"tmp", "a">>, <<"tmp", "d", "a">>, <<"x">>}
MCManyDirPaths == {<<"tmp", "d">>, <<"tmp", "e">>}
MCDirPaths == {<<"tmp", "d">>}

\* User 1 makes /tmp/a, and tries to make files in directories that are not theirs.
MCMadeBy == [u \in Users |-> IF u = 0 THEN {<<"dev", "a">>, <<"tmp", "d">>, <<"tmp", "d", "a">>, <<"tmp", "e">>, <<"x">>}
                             ELSE MCFilePaths]

\* Files in two directories and in the root, which then needs a second block; a directory
\* in /tmp, with a file in it; and a directory beside a file elsewhere.
MCWorkloads == {{<<"tmp", "a">>, <<"dev", "a">>, <<"x">>},
                {<<"tmp", "a">>, <<"tmp", "d">>, <<"tmp", "d", "a">>},
                {<<"tmp", "d">>, <<"dev", "a">>}, {<<"tmp", "d">>, <<"x">>}}
MCAllPaths == {Paths}

\* The call is needed only by the step that it took. What a free block holds is never
\* read: simplefs zeroes a block before it uses it. After a power failure all that
\* counts is whether the disk can be booted from.
Held == fs.blocks \union UNION {ExtentOf(disk.table[i]) : i \in Inodes}
View == IF Intact
          THEN <<fs, disk.table, disk.inodes, disk.blocks, [b \in Held |-> disk.data[b]],
                 files, root, recovery, load>>
          ELSE LET m == Mount(disk) IN <<m.ok, m.ok /\ Attachable(m.fs), root, recovery, load>>
=============================================================================
