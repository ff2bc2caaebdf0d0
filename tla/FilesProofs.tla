----------------------------- MODULE FilesProofs -----------------------------
(***************************************************************************)
(* Proofs about descriptors, open files and pipes, for any number of       *)
(* tasks, descriptors, files and pipes: every reference count is exact,    *)
(* and a call that fails half-way leaves nothing behind.                   *)
(***************************************************************************)
EXTENDS Files, FiniteSetTheorems, TLAPS

-----------------------------------------------------------------------------
(* The inductive invariant *)

File == [inode : Pipes \cup {NoInode, Other}, flags : SUBSET {"R", "W"}, ref_count : Nat]
Counts == [inode_ref_count : Nat, reader_count : Nat, writer_count : Nat]
FdTable == [Fds -> FileIds \cup {NoFile}]

\* The descriptors, of all tasks, that refer to file f.
Holders(fds, f) == {d \in Tasks \X Fds : fds[d[1]][d[2]] = f}

\* A table with another file for a descriptor, and the tables with another one for a task.
SetFd(table, fd, file) == [table EXCEPT ![fd] = file]
Put(fds, t, table) == [fds EXCEPT ![t] = table]

\* The descriptors D of a table are cleared, or D are unused ones that are set.
Clears(old, new, D) == \A fd \in Fds : new[fd] = IF fd \in D THEN NoFile ELSE old[fd]
Fills(old, new, D) == \A fd \in Fds : IF fd \in D THEN old[fd] = NoFile ELSE new[fd] = old[fd]

\* The open ends of pipe p that allow the accesses in flags.
Ends(files, p, flags) == {f \in FileIds : files[f].inode = p /\ flags \subseteq files[f].flags}

\* The counts of pipe p are those of its open ends.
PipeExact(files, ps, p) ==
  ps[p] = [inode_ref_count |-> Cardinality(Ends(files, p, {})),
           reader_count |-> Cardinality(Ends(files, p, {"R"})),
           writer_count |-> Cardinality(Ends(files, p, {"W"}))]

\* An entry without references is cleared, so that it is no end of a pipe.
FilesOK(files) ==
  files \in [FileIds -> File] /\ \A f \in FileIds : files[f].ref_count = 0 => files[f] = FreeFile

\* A task that is not live has no descriptors, so that a child may take any of their slots.
Inv ==
  /\ live \in SUBSET Tasks
  /\ fd_table \in [Tasks -> FdTable]
  /\ FilesOK(file_table)
  /\ pipes \in [Pipes -> Counts]
  /\ \A t \in Tasks \ live : fd_table[t] = NoFds
  /\ RefCountsExact

-----------------------------------------------------------------------------
(* Counting descriptors and ends *)

\* What is counted is finite.
LEMMA CountedFinite ==
  ASSUME FilesAssumption
  PROVE  /\ IsFiniteSet(Fds) /\ \A D \in SUBSET Fds : IsFiniteSet(D) /\ Cardinality(D) \in Nat
         /\ IsFiniteSet(FileIds) /\ \A F \in SUBSET FileIds : IsFiniteSet(F) /\ Cardinality(F) \in Nat
         /\ \A H \in SUBSET (Tasks \X Fds) : IsFiniteSet(H) /\ Cardinality(H) \in Nat
<1>1. IsFiniteSet(Tasks) /\ IsFiniteSet(Fds) /\ IsFiniteSet(FileIds)
  BY FS_Interval DEF FilesAssumption, Tasks, Fds, FileIds
<1>2. IsFiniteSet(Tasks \X Fds)
  BY <1>1, FS_Product
<1>3. QED
  BY <1>1, <1>2, FS_Subset, FS_CardinalityType

\* RefCountsExact in terms of the sets that are counted.
LEMMA ExactMeans ==
  RefCountsExact <=> /\ \A f \in FileIds : file_table[f].ref_count = Cardinality(Holders(fd_table, f))
                     /\ \A p \in Pipes : PipeExact(file_table, pipes, p)
BY DEF RefCountsExact, Holders, PipeExact, Ends

\* There are as many descriptors of one task as there are numbers of them.
LEMMA OneTask ==
  ASSUME FilesAssumption, NEW t \in Tasks, NEW D \in SUBSET Fds
  PROVE  /\ {t} \X D \in SUBSET (Tasks \X Fds)
         /\ IsFiniteSet({t} \X D) /\ Cardinality({t} \X D) = Cardinality(D) /\ Cardinality(D) \in Nat
<1>1. IsFiniteSet(D) /\ Cardinality(D) \in Nat
  BY CountedFinite
<1>2. IsFiniteSet({t}) /\ Cardinality({t}) = 1
  BY FS_Singleton
<1>3. IsFiniteSet({t} \X D) /\ Cardinality({t} \X D) = Cardinality({t}) * Cardinality(D)
  BY <1>1, <1>2, FS_Product
<1>4. QED
  BY <1>1, <1>2, <1>3

\* Clearing some descriptors of a task takes away just the references References counts.
LEMMA DroppedHolders ==
  ASSUME FilesAssumption, NEW fds \in [Tasks -> FdTable], NEW t \in Tasks, NEW D \in SUBSET Fds,
         NEW table \in FdTable, Clears(fds[t], table, D),
         NEW after, after = Put(fds, t, table), NEW f \in FileIds
  PROVE  /\ References(fds[t], D)[f] \in Nat
         /\ References(fds[t], D)[f] <= Cardinality(Holders(fds, f))
         /\ Cardinality(Holders(after, f)) = Cardinality(Holders(fds, f)) - References(fds[t], D)[f]
<1> DEFINE gone == {fd \in D : fds[t][fd] = f}
<1>1. References(fds[t], D)[f] = Cardinality(gone) /\ gone \in SUBSET Fds
  BY DEF References
<1>2. IsFiniteSet({t} \X gone) /\ Cardinality({t} \X gone) = Cardinality(gone) /\ Cardinality(gone) \in Nat
  BY <1>1, OneTask
<1>3. f # NoFile
  BY DEF FileIds, NoFile, FilesAssumption
<1>4. Holders(after, f) = Holders(fds, f) \ ({t} \X gone)
  BY <1>3 DEF Holders, FdTable, Clears, Put
<1>5. {t} \X gone \in SUBSET Holders(fds, f)
  BY DEF Holders
<1>6. IsFiniteSet(Holders(fds, f)) /\ Cardinality(Holders(fds, f)) \in Nat
  BY CountedFinite DEF Holders
<1>7. Holders(fds, f) \cap ({t} \X gone) = {t} \X gone
  BY <1>5
<1>8. Cardinality(Holders(fds, f) \ ({t} \X gone)) = Cardinality(Holders(fds, f)) - Cardinality({t} \X gone)
  <2> DEFINE H == Holders(fds, f)
             G == {t} \X gone
  <2>1. IsFiniteSet(H) /\ H \cap G = G
    BY <1>6, <1>7
  <2> HIDE DEF H, G
  <2>2. Cardinality(H \ G) = Cardinality(H) - Cardinality(G)
    BY <2>1, FS_Difference
  <2>3. QED
    BY <2>2 DEF H, G
<1>9. Cardinality({t} \X gone) <= Cardinality(Holders(fds, f))
  BY <1>5, <1>6, FS_Subset
<1>10. QED
  BY <1>1, <1>2, <1>4, <1>8, <1>9

\* Setting some unused descriptors of a task adds as many references.
LEMMA AddedHolders ==
  ASSUME FilesAssumption, NEW fds \in [Tasks -> FdTable], NEW t \in Tasks, NEW D \in SUBSET Fds,
         NEW table \in FdTable, Fills(fds[t], table, D),
         NEW after, after = Put(fds, t, table), NEW f \in FileIds
  PROVE  /\ References(table, D)[f] \in Nat
         /\ Cardinality(Holders(fds, f)) \in Nat
         /\ Cardinality(Holders(after, f)) = Cardinality(Holders(fds, f)) + References(table, D)[f]
<1> DEFINE new == {fd \in D : table[fd] = f}
<1>1. new \in SUBSET Fds /\ References(table, D)[f] = Cardinality(new)
  BY DEF References
<1>2. IsFiniteSet({t} \X new) /\ Cardinality({t} \X new) = Cardinality(new) /\ Cardinality(new) \in Nat
  BY <1>1, OneTask
<1>3. f # NoFile
  BY DEF FileIds, NoFile, FilesAssumption
<1>4. Holders(after, f) = Holders(fds, f) \cup ({t} \X new)
  BY <1>3 DEF Holders, FdTable, Fills, Put
<1>5. Holders(fds, f) \cap ({t} \X new) = {}
  BY <1>3 DEF Holders, Fills
<1>6. IsFiniteSet(Holders(fds, f)) /\ Cardinality(Holders(fds, f)) \in Nat
  BY CountedFinite DEF Holders
<1>7. Cardinality({}) = 0
  BY FS_EmptySet
<1>8. Cardinality(Holders(fds, f) \cup ({t} \X new)) = Cardinality(Holders(fds, f)) + Cardinality({t} \X new)
  <2> DEFINE H == Holders(fds, f)
             N == {t} \X new
  <2>1. IsFiniteSet(H) /\ IsFiniteSet(N) /\ H \cap N = {} /\ Cardinality(H) \in Nat /\ Cardinality(N) \in Nat
    BY <1>2, <1>5, <1>6
  <2> HIDE DEF H, N
  <2>2. Cardinality(H \cup N) = Cardinality(H) + Cardinality(N) - Cardinality(H \cap N)
    BY <2>1, FS_Union
  <2>3. Cardinality(H \cap N) = 0
    BY <1>7, <2>1, Zenon
  <2>4. Cardinality(H \cup N) = Cardinality(H) + Cardinality(N)
    BY <2>1, <2>2, <2>3
  <2>5. QED
    BY <2>4 DEF H, N
<1>9. QED
  BY <1>1, <1>2, <1>4, <1>6, <1>8

-----------------------------------------------------------------------------
(* Retaining and releasing files *)

\* A file with another count.
LEMMA Recounted ==
  ASSUME NEW file \in File, NEW n \in Nat
  PROVE  /\ [file EXCEPT !.ref_count = n] \in File
         /\ [file EXCEPT !.ref_count = n].ref_count = n
         /\ [file EXCEPT !.ref_count = n].inode = file.inode
         /\ [file EXCEPT !.ref_count = n].flags = file.flags
BY DEF File

\* vfs_retain_file changes nothing but counts.
LEMMA Retained ==
  ASSUME NEW files, FilesOK(files), NEW gains \in [FileIds -> Nat]
  PROVE  /\ FilesOK(RetainFiles(files, gains))
         /\ \A f \in FileIds : RetainFiles(files, gains)[f].ref_count = files[f].ref_count + gains[f]
         /\ \A p, flags : Ends(RetainFiles(files, gains), p, flags) = Ends(files, p, flags)
<1> DEFINE kept == RetainFiles(files, gains)
<1>1. files \in [FileIds -> File] /\ \A f \in FileIds : files[f] \in File /\ files[f].ref_count \in Nat /\ gains[f] \in Nat
  BY DEF FilesOK, File
<1>2. \A f \in FileIds : kept[f] = [files[f] EXCEPT !.ref_count = files[f].ref_count + gains[f]]
  BY DEF RetainFiles
<1>3. \A f \in FileIds : /\ kept[f] \in File /\ kept[f].ref_count = files[f].ref_count + gains[f]
                         /\ kept[f].inode = files[f].inode /\ kept[f].flags = files[f].flags
  <2> TAKE f \in FileIds
  <2> DEFINE file == files[f]
             n == files[f].ref_count + gains[f]
  <2>1. file \in File /\ n \in Nat /\ kept[f] = [file EXCEPT !.ref_count = n]
    BY <1>1, <1>2
  <2> HIDE DEF file, n, kept
  <2>2. kept[f] \in File /\ kept[f].ref_count = n /\ kept[f].inode = file.inode /\ kept[f].flags = file.flags
    BY <2>1, Recounted
  <2>3. QED
    BY <2>2 DEF file, n
<1>4. kept \in [FileIds -> File]
  BY <1>3 DEF RetainFiles
<1>5. ASSUME NEW f \in FileIds, kept[f].ref_count = 0 PROVE kept[f] = FreeFile
  <2>1. files[f].ref_count = 0 /\ gains[f] = 0
    BY <1>1, <1>3, <1>5
  <2>2. files[f] = FreeFile
    BY <2>1 DEF FilesOK
  <2>3. QED
    BY <1>2, <2>1, <2>2 DEF FreeFile
<1> HIDE DEF kept
<1>6. FilesOK(kept)
  BY <1>4, <1>5 DEF FilesOK
<1>7. \A p, flags : Ends(kept, p, flags) = Ends(files, p, flags)
  BY <1>3 DEF Ends
<1>8. QED
  BY <1>3, <1>6, <1>7 DEF kept

\* vfs_release_file, for files that have at least as many references as they lose: a file
\* that loses the last one is cleared and is no end of a pipe any more.
LEMMA Released ==
  ASSUME FilesAssumption, NEW files, FilesOK(files), NEW drops \in [FileIds -> Nat],
         \A f \in FileIds : drops[f] <= files[f].ref_count
  PROVE  /\ FilesOK(ReleaseFiles(files, drops))
         /\ \A f \in FileIds : ReleaseFiles(files, drops)[f].ref_count = files[f].ref_count - drops[f]
         /\ \A f \in FileIds : f \notin Closed(files, drops) =>
              /\ ReleaseFiles(files, drops)[f].inode = files[f].inode
              /\ ReleaseFiles(files, drops)[f].flags = files[f].flags
         /\ \A p \in Pipes, flags \in SUBSET {"R", "W"} :
              Ends(ReleaseFiles(files, drops), p, flags) = Ends(files, p, flags) \ Closed(files, drops)
<1> DEFINE left == ReleaseFiles(files, drops)
           gone == Closed(files, drops)
<1>1. files \in [FileIds -> File] /\ \A f \in FileIds : files[f] \in File /\ files[f].ref_count \in Nat /\ drops[f] \in Nat
  BY DEF FilesOK, File
<1>2. gone = {f \in FileIds : files[f].ref_count # 0 /\ files[f].ref_count = drops[f]}
  BY <1>1 DEF Closed
<1>3. FreeFile \in File /\ FreeFile.ref_count = 0 /\ FreeFile.inode \notin Pipes
  BY DEF FreeFile, File, FilesAssumption
<1>4. ASSUME NEW f \in FileIds
      PROVE  /\ left[f] \in File /\ left[f].ref_count = files[f].ref_count - drops[f]
             /\ left[f].ref_count = 0 => left[f] = FreeFile
             /\ f \in gone => left[f] = FreeFile
             /\ f \notin gone => left[f].inode = files[f].inode /\ left[f].flags = files[f].flags
  <2>1. CASE f \in gone
    <3>1. left[f] = FreeFile /\ files[f].ref_count - drops[f] = 0
      BY <1>1, <1>2, <2>1 DEF ReleaseFiles
    <3>2. QED
      BY <1>3, <2>1, <3>1
  <2>2. CASE f \notin gone
    <3> DEFINE file == files[f]
               n == files[f].ref_count - drops[f]
    <3>1. n \in Nat /\ file \in File /\ left[f] = [file EXCEPT !.ref_count = n]
      BY <1>1, <2>2 DEF ReleaseFiles, Monus
    <3>2. n = 0 => file = FreeFile
      BY <1>1, <1>2, <2>2 DEF FilesOK
    <3> HIDE DEF file, n, left, gone
    <3>3. left[f] \in File /\ left[f].ref_count = n /\ left[f].inode = file.inode /\ left[f].flags = file.flags
      BY <3>1, Recounted
    <3>4. n = 0 => left[f] = FreeFile
      <4>1. \A x \in File, m \in Nat : x.ref_count = m => [x EXCEPT !.ref_count = m] = x
        BY DEF File
      <4>2. QED
        BY <1>3, <3>1, <3>2, <4>1
    <3>5. QED
      BY <2>2, <3>3, <3>4 DEF file, n
  <2>3. QED
    BY <2>1, <2>2
<1>5. left \in [FileIds -> File]
  BY <1>4 DEF ReleaseFiles
<1> HIDE DEF left, gone
<1>6. FilesOK(left)
  BY <1>4, <1>5 DEF FilesOK
<1>7. \A p \in Pipes, flags \in SUBSET {"R", "W"} : Ends(left, p, flags) = Ends(files, p, flags) \ gone
  BY <1>3, <1>4 DEF Ends
<1>8. QED
  BY <1>4, <1>6, <1>7 DEF left, gone

\* Taking the ends that are closed from a count leaves the count of those that are not.
LEMMA EndsLeft ==
  ASSUME FilesAssumption, NEW E \in SUBSET FileIds, NEW G
  PROVE  /\ Cardinality(E) \in Nat /\ Cardinality(E \ G) \in Nat
         /\ Monus(Cardinality(E), Cardinality(E \cap G)) = Cardinality(E \ G)
         /\ Cardinality(E \ G) = 0 <=> E \ G = {}
<1>1. IsFiniteSet(E) /\ Cardinality(E) \in Nat /\ E \ G \in SUBSET FileIds /\ E \cap G \in SUBSET FileIds
  BY CountedFinite
<1>2. IsFiniteSet(E \ G) /\ Cardinality(E \ G) \in Nat /\ Cardinality(E \cap G) \in Nat
  BY <1>1, CountedFinite
<1>3. Cardinality(E \ G) = Cardinality(E) - Cardinality(E \cap G)
  BY <1>1, FS_Difference
<1>4. Cardinality(E \ G) = 0 <=> E \ G = {}
  BY <1>2, FS_EmptySet
<1>5. QED
  BY <1>1, <1>2, <1>3, <1>4 DEF Monus

\* The counts of a pipe stay those of its open ends. It is enough that the number of ends
\* is right when all of them go, as in vfs_create_pipe when it fails.
LEMMA PipeReleased ==
  ASSUME FilesAssumption, NEW files, FilesOK(files), NEW drops \in [FileIds -> Nat],
         \A f \in FileIds : drops[f] <= files[f].ref_count,
         NEW ps, NEW p \in Pipes, ps[p].inode_ref_count = Cardinality(Ends(files, p, {})),
         \/ Ends(files, p, {}) \subseteq Closed(files, drops)
         \/ PipeExact(files, ps, p)
  PROVE  PipeExact(ReleaseFiles(files, drops), ReleasePipes(files, ps, drops), p)
<1> DEFINE closed == Closed(files, drops)
           gone == {f \in closed : files[f].inode = p}
           all == Ends(files, p, {})
           reading == Ends(files, p, {"R"})
           writing == Ends(files, p, {"W"})
           left == ReleaseFiles(files, drops)
           now == ReleasePipes(files, ps, drops)[p]
<1>1. /\ gone = all \cap closed
      /\ {f \in gone : "R" \in files[f].flags} = reading \cap closed
      /\ {f \in gone : "W" \in files[f].flags} = writing \cap closed
  BY DEF Ends, Closed
<1>2. Ends(left, p, {}) = all \ closed /\ Ends(left, p, {"R"}) = reading \ closed /\ Ends(left, p, {"W"}) = writing \ closed
  BY Released
<1>3. /\ all \in SUBSET FileIds /\ reading \in SUBSET FileIds /\ writing \in SUBSET FileIds
      /\ reading \subseteq all /\ writing \subseteq all
  BY DEF Ends
<1>4. Monus(ps[p].inode_ref_count, Cardinality(gone)) = Cardinality(all \ closed)
  BY <1>1, <1>3, EndsLeft
<1>5. now = IF Cardinality(all \ closed) = 0 THEN NoPipe
            ELSE [inode_ref_count |-> Cardinality(all \ closed),
                  reader_count |-> Monus(ps[p].reader_count, Cardinality(reading \cap closed)),
                  writer_count |-> Monus(ps[p].writer_count, Cardinality(writing \cap closed))]
  BY <1>1, <1>4 DEF ReleasePipes
<1> HIDE DEF closed, all, reading, writing
<1>6. CASE all \ closed = {}
  <2>1. Cardinality(all \ closed) = 0 /\ reading \ closed = {} /\ writing \ closed = {}
    BY <1>3, <1>6, EndsLeft
  <2>2. Cardinality(reading \ closed) = 0 /\ Cardinality(writing \ closed) = 0
    BY <2>1, FS_EmptySet
  <2>3. now = NoPipe
    BY <1>5, <2>1
  <2>4. QED
    BY <1>2, <2>1, <2>2, <2>3 DEF PipeExact, NoPipe
<1>7. CASE all \ closed # {}
  <2>1. PipeExact(files, ps, p)
    BY <1>7 DEF all, closed
  <2>2. ps[p].reader_count = Cardinality(reading) /\ ps[p].writer_count = Cardinality(writing)
    BY <2>1 DEF PipeExact, reading, writing
  <2>3. Cardinality(all \ closed) # 0
    BY <1>3, <1>7, EndsLeft
  <2>4. now = [inode_ref_count |-> Cardinality(all \ closed),
               reader_count |-> Cardinality(reading \ closed),
               writer_count |-> Cardinality(writing \ closed)]
    <3>1. /\ Monus(Cardinality(reading), Cardinality(reading \cap closed)) = Cardinality(reading \ closed)
          /\ Monus(Cardinality(writing), Cardinality(writing \cap closed)) = Cardinality(writing \ closed)
      BY <1>3, EndsLeft
    <3>2. QED
      BY <1>5, <2>2, <2>3, <3>1
  <2>5. QED
    BY <1>2, <2>4 DEF PipeExact
<1>8. QED
  BY <1>6, <1>7

\* An entry that is taken into use becomes the end of its inode, and nothing else changes.
LEMMA Opened ==
  ASSUME FilesAssumption, NEW files, FilesOK(files), NEW file \in FileIds, files[file].ref_count = 0,
         NEW inode \in Pipes \cup {Other}, NEW access \in SUBSET {"R", "W"},
         NEW opened, opened = OpenFile(files, file, inode, access)
  PROVE  /\ FilesOK(opened) /\ opened[file].ref_count = 1
         /\ \A f \in FileIds \ {file} : opened[f] = files[f]
         /\ \A p \in Pipes, flags \in SUBSET {"R", "W"} :
              Ends(opened, p, flags) = Ends(files, p, flags)
                                         \cup {f \in {file} : inode = p /\ flags \subseteq access}
<1> DEFINE new == [inode |-> inode, flags |-> access, ref_count |-> 1]
<1>1. new \in File /\ new.ref_count = 1 /\ new.inode = inode /\ new.flags = access
  BY DEF File
<1>2. files \in [FileIds -> File] /\ files[file].inode \notin Pipes
  BY DEF FilesOK, FreeFile, FilesAssumption
<1>3. opened = [files EXCEPT ![file] = new]
  BY DEF OpenFile
<1> HIDE DEF new
<1>4. opened[file] = new /\ \A f \in FileIds \ {file} : opened[f] = files[f]
  BY <1>2, <1>3
<1>5. FilesOK(opened)
  BY <1>1, <1>2, <1>3, <1>4 DEF FilesOK
<1>6. \A p \in Pipes, flags \in SUBSET {"R", "W"} :
        Ends(opened, p, flags) = Ends(files, p, flags) \cup {f \in {file} : inode = p /\ flags \subseteq access}
  BY <1>1, <1>2, <1>4 DEF Ends
<1>7. QED
  BY <1>1, <1>4, <1>5, <1>6

\* A file that is not a pipe is no end of one.
LEMMA OtherOpened ==
  ASSUME FilesAssumption, NEW files, FilesOK(files), NEW file \in FileIds, files[file].ref_count = 0,
         NEW opened, opened = OpenFile(files, file, Other, {"R", "W"})
  PROVE  /\ FilesOK(opened) /\ opened[file].ref_count = 1
         /\ \A f \in FileIds \ {file} : opened[f] = files[f]
         /\ \A p \in Pipes, flags \in SUBSET {"R", "W"} : Ends(opened, p, flags) = Ends(files, p, flags)
<1> DEFINE access == {"R", "W"}
<1>1. /\ access \in SUBSET {"R", "W"} /\ Other \in Pipes \cup {Other}
      /\ opened = OpenFile(files, file, Other, access)
  OBVIOUS
<1> HIDE DEF access
<1>2. /\ FilesOK(opened) /\ opened[file].ref_count = 1
      /\ \A f \in FileIds \ {file} : opened[f] = files[f]
      /\ \A p \in Pipes, flags \in SUBSET {"R", "W"} :
           Ends(opened, p, flags) = Ends(files, p, flags) \cup {f \in {file} : Other = p /\ flags \subseteq access}
  BY <1>1, Opened
<1>3. ASSUME NEW p \in Pipes, NEW flags \in SUBSET {"R", "W"} PROVE Ends(opened, p, flags) = Ends(files, p, flags)
  <2>1. Ends(opened, p, flags) = Ends(files, p, flags) \cup {f \in {file} : Other = p /\ flags \subseteq access}
    BY <1>2
  <2>2. Other # p
    BY DEF FilesAssumption
  <2>3. QED
    BY <2>1, <2>2
<1>4. QED
  BY <1>2, <1>3

\* Two tables of files that agree where there are references are the same.
LEMMA SameFiles ==
  ASSUME NEW files, NEW left, FilesOK(files), FilesOK(left),
         \A f \in FileIds : /\ left[f].ref_count = files[f].ref_count
                            /\ files[f].ref_count # 0 => /\ left[f].inode = files[f].inode
                                                         /\ left[f].flags = files[f].flags
  PROVE  left = files
<1>1. files \in [FileIds -> File] /\ left \in [FileIds -> File]
  BY DEF FilesOK
<1>2. \A x, y \in File : x.ref_count = y.ref_count /\ x.inode = y.inode /\ x.flags = y.flags => x = y
  BY DEF File
<1>3. \A f \in FileIds : left[f] = files[f]
  BY <1>1, <1>2 DEF FilesOK
<1>4. QED
  BY <1>1, <1>3

\* What is exact after a step has the right type.
LEMMA StepInv ==
  ASSUME FilesAssumption, live' \in SUBSET Tasks, fd_table' \in [Tasks -> FdTable], FilesOK(file_table'),
         pipes' = [p \in Pipes |-> pipes'[p]],
         \A t \in Tasks \ live' : fd_table'[t] = NoFds,
         \A f \in FileIds : file_table'[f].ref_count = Cardinality(Holders(fd_table', f)),
         \A p \in Pipes : PipeExact(file_table', pipes', p)
  PROVE  Inv'
<1>1. \A p \in Pipes : \A flags : Cardinality(Ends(file_table', p, flags)) \in Nat
  BY CountedFinite DEF Ends
<1>2. \A p \in Pipes : pipes'[p] \in Counts
  BY <1>1 DEF PipeExact, Counts
<1>3. pipes' \in [Pipes -> Counts]
  BY <1>2
<1>4. RefCountsExact'
  BY DEF RefCountsExact, Holders, PipeExact, Ends
<1>5. QED
  BY <1>3, <1>4 DEF Inv

\* What the invariant says, in the form the proofs below use.
LEMMA InvMeans ==
  ASSUME FilesAssumption, Inv
  PROVE  /\ live \in SUBSET Tasks /\ fd_table \in [Tasks -> FdTable] /\ FilesOK(file_table)
         /\ pipes = [p \in Pipes |-> pipes[p]]
         /\ \A t \in Tasks \ live : fd_table[t] = NoFds
         /\ \A f \in FileIds : /\ file_table[f].ref_count = Cardinality(Holders(fd_table, f))
                               /\ file_table[f].ref_count \in Nat
         /\ \A p \in Pipes : PipeExact(file_table, pipes, p)
<1>1. \A f \in FileIds : file_table[f].ref_count \in Nat
  BY DEF Inv, FilesOK, File
<1>2. pipes = [p \in Pipes |-> pipes[p]]
  BY DEF Inv
<1>3. QED
  BY <1>1, <1>2, ExactMeans DEF Inv

-----------------------------------------------------------------------------
(* The calls keep the invariant *)

\* Every standard file has one descriptor, of the first task.
LEMMA InitInv ==
  ASSUME FilesAssumption, Init
  PROVE  Inv
<1>1. live \in SUBSET Tasks
  BY DEF Init, Tasks, FilesAssumption
<1>2. /\ fd_table \in [Tasks -> FdTable] /\ \A t \in Tasks \ live : fd_table[t] = NoFds
      /\ \A t \in Tasks, fd \in Fds : fd_table[t][fd] = IF t = 0 /\ fd < StdFiles THEN fd ELSE NoFile
  BY DEF Init, FdTable, NoFds, NoFile, Fds, FileIds, FilesAssumption
<1>3. /\ FilesOK(file_table)
      /\ \A f \in FileIds : /\ file_table[f].ref_count = IF f < StdFiles THEN 1 ELSE 0
                            /\ file_table[f].inode \notin Pipes
  BY DEF Init, FilesOK, File, FreeFile, FilesAssumption
<1>4. ASSUME NEW f \in FileIds PROVE file_table[f].ref_count = Cardinality(Holders(fd_table, f))
  <2>1. f # NoFile /\ 0 \in Tasks /\ (f < StdFiles => f \in Fds)
    BY DEF NoFile, FileIds, Fds, Tasks, FilesAssumption
  <2>2. Holders(fd_table, f) = IF f < StdFiles THEN {<<0, f>>} ELSE {}
    BY <1>2, <2>1 DEF Holders
  <2>3. QED
    BY <1>3, <2>2, FS_EmptySet, FS_Singleton
<1>5. ASSUME NEW p \in Pipes PROVE PipeExact(file_table, pipes, p)
  <2>1. \A flags : Ends(file_table, p, flags) = {}
    BY <1>3 DEF Ends
  <2>2. QED
    BY <2>1, FS_EmptySet DEF PipeExact, Init, NoPipe
<1>6. pipes \in [Pipes -> Counts]
  BY DEF Init, NoPipe, Counts
<1>7. RefCountsExact
  BY <1>4, <1>5, ExactMeans
<1>8. QED
  BY <1>1, <1>2, <1>3, <1>6, <1>7 DEF Inv

\* Drop, for a table in which just the descriptors that are given up are cleared.
LEMMA Dropped ==
  ASSUME FilesAssumption, Inv, NEW t \in Tasks, NEW D \in SUBSET Fds, NEW table \in FdTable,
         Clears(fd_table[t], table, D),
         NEW drops, drops = References(fd_table[t], D),
         NEW fds, fds = Put(fd_table, t, table),
         NEW files, files = ReleaseFiles(file_table, drops),
         NEW ps, ps = ReleasePipes(file_table, pipes, drops)
  PROVE  /\ FilesOK(files) /\ \A p \in Pipes : PipeExact(files, ps, p)
         /\ \A f \in FileIds : files[f].ref_count = Cardinality(Holders(fds, f))
         /\ ps = [p \in Pipes |-> ps[p]]
<1>1. /\ fd_table \in [Tasks -> FdTable] /\ FilesOK(file_table)
      /\ \A f \in FileIds : file_table[f].ref_count = Cardinality(Holders(fd_table, f))
      /\ \A p \in Pipes : PipeExact(file_table, pipes, p)
  BY InvMeans
<1>2. \A f \in FileIds : /\ drops[f] \in Nat /\ drops[f] <= file_table[f].ref_count
                         /\ Cardinality(Holders(fds, f)) = file_table[f].ref_count - drops[f]
  BY <1>1, DroppedHolders
<1>3. drops \in [FileIds -> Nat]
  BY <1>2 DEF References
<1>4. ps = [p \in Pipes |-> ps[p]]
  BY DEF ReleasePipes
<1>5. ASSUME NEW p \in Pipes PROVE pipes[p].inode_ref_count = Cardinality(Ends(file_table, p, {}))
  <2>1. PipeExact(file_table, pipes, p)
    BY <1>1
  <2>2. QED
    BY <2>1 DEF PipeExact
<1>6. \A p \in Pipes : PipeExact(files, ps, p)
  BY <1>1, <1>2, <1>3, <1>5, PipeReleased
<1>7. FilesOK(files) /\ \A f \in FileIds : files[f].ref_count = file_table[f].ref_count - drops[f]
  BY <1>1, <1>2, <1>3, Released
<1>8. QED
  BY <1>2, <1>4, <1>6, <1>7

\* close gives up one descriptor.
LEMMA CloseInv ==
  ASSUME FilesAssumption, Inv, NEW t \in Tasks, NEW fd \in Fds, Close(t, fd)
  PROVE  Inv'
<1> DEFINE table == [fd_table[t] EXCEPT ![fd] = NoFile]
           D == {fd}
<1>1. fd_table[t] \in FdTable
  BY InvMeans
<1>2. /\ table \in FdTable /\ D \in SUBSET Fds
      /\ Clears(fd_table[t], table, D)
  BY <1>1 DEF FdTable, Clears
<1>3. /\ live' = live /\ fd_table' = Put(fd_table, t, table)
      /\ file_table' = ReleaseFiles(file_table, References(fd_table[t], D))
      /\ pipes' = ReleasePipes(file_table, pipes, References(fd_table[t], D))
  BY DEF Close, Drop, TablesBecome, Put
<1> HIDE DEF table, D
<1>4. /\ FilesOK(file_table') /\ \A p \in Pipes : PipeExact(file_table', pipes', p)
      /\ pipes' = [p \in Pipes |-> pipes'[p]]
      /\ \A f \in FileIds : file_table'[f].ref_count = Cardinality(Holders(fd_table', f))
  BY <1>2, <1>3, Dropped
<1>5. live' \in SUBSET Tasks /\ fd_table' \in [Tasks -> FdTable]
  BY <1>2, <1>3, InvMeans DEF Put
<1>6. \A u \in Tasks \ live' : fd_table'[u] = NoFds
  <2>1. fd_table[t] = NoFds => FALSE
    BY DEF NoFds, Close
  <2>2. QED
    BY <1>3, <2>1, InvMeans DEF Put
<1>7. QED
  BY <1>4, <1>5, <1>6, StepInv

\* exit gives up all the descriptors of its task, whose slot has none from then on.
LEMMA ExitInv ==
  ASSUME FilesAssumption, Inv, NEW t \in Tasks, Exit(t)
  PROVE  Inv'
<1>1. NoFds \in FdTable /\ Clears(fd_table[t], NoFds, Fds)
  BY DEF FdTable, NoFds, Clears
<1>2. /\ live' = live \ {t} /\ fd_table' = Put(fd_table, t, NoFds)
      /\ file_table' = ReleaseFiles(file_table, References(fd_table[t], Fds))
      /\ pipes' = ReleasePipes(file_table, pipes, References(fd_table[t], Fds))
  BY DEF Exit, Drop, TablesBecome, Put
<1>3. /\ FilesOK(file_table') /\ \A p \in Pipes : PipeExact(file_table', pipes', p)
      /\ pipes' = [p \in Pipes |-> pipes'[p]]
      /\ \A f \in FileIds : file_table'[f].ref_count = Cardinality(Holders(fd_table', f))
  BY <1>1, <1>2, Dropped
<1>4. live' \in SUBSET Tasks /\ fd_table' \in [Tasks -> FdTable]
  BY <1>1, <1>2, InvMeans DEF Put
<1>5. \A u \in Tasks \ live' : fd_table'[u] = NoFds
  BY <1>2, InvMeans DEF Put
<1>6. QED
  BY <1>3, <1>4, <1>5, StepInv

\* One descriptor holds one reference.
LEMMA OneReference ==
  ASSUME FilesAssumption, NEW table \in FdTable, NEW fd \in Fds
  PROVE  /\ References(table, {fd}) \in [FileIds -> Nat]
         /\ \A f \in FileIds : References(table, {fd})[f] = IF table[fd] = f THEN 1 ELSE 0
<1>1. \A f \in FileIds : {d \in {fd} : table[d] = f} = IF table[fd] = f THEN {fd} ELSE {}
  OBVIOUS
<1>2. \A f \in FileIds : References(table, {fd})[f] = IF table[fd] = f THEN 1 ELSE 0
  BY <1>1, FS_EmptySet, FS_Singleton DEF References
<1>3. QED
  BY <1>2 DEF References

\* A task that sets one unused descriptor to a file gives the file one holder more.
LEMMA OneHolder ==
  ASSUME FilesAssumption, NEW fds \in [Tasks -> FdTable], NEW t \in Tasks, NEW fd \in Fds,
         fds[t][fd] = NoFile, NEW file \in FileIds,
         NEW after, after = Put(fds, t, SetFd(fds[t], fd, file))
  PROVE  /\ after \in [Tasks -> FdTable]
         /\ \A f \in FileIds :
              /\ Cardinality(Holders(fds, f)) \in Nat
              /\ Cardinality(Holders(after, f)) = Cardinality(Holders(fds, f)) + (IF f = file THEN 1 ELSE 0)
<1> DEFINE table == SetFd(fds[t], fd, file)
           D == {fd}
<1>1. table \in FdTable /\ table[fd] = file /\ after = Put(fds, t, table)
  BY DEF FdTable, SetFd
<1>2. Fills(fds[t], table, D)
  BY DEF FdTable, Fills, SetFd
<1>3. D \in SUBSET Fds
  OBVIOUS
<1> HIDE DEF table
<1>4. \A f \in FileIds : References(table, D)[f] = IF f = file THEN 1 ELSE 0
  BY <1>1, OneReference
<1> HIDE DEF D
<1>5. \A f \in FileIds : /\ Cardinality(Holders(fds, f)) \in Nat
                         /\ Cardinality(Holders(after, f)) = Cardinality(Holders(fds, f)) + References(table, D)[f]
  BY <1>1, <1>2, <1>3, AddedHolders
<1>6. QED
  BY <1>1, <1>4, <1>5 DEF Put

\* open takes one entry and one descriptor.
LEMMA OpenInv ==
  ASSUME FilesAssumption, Inv, NEW t \in live, Open(t)
  PROVE  Inv'
<1>1. PICK fd \in Fds, file \in FileIds :
        /\ fd_table[t][fd] = NoFile /\ file_table[file].ref_count = 0
        /\ fd_table' = Put(fd_table, t, SetFd(fd_table[t], fd, file))
        /\ file_table' = OpenFile(file_table, file, Other, {"R", "W"})
        /\ live' = live /\ pipes' = pipes
  BY DEF Open, FreeFd, AllocFile, IsFirst, Put, SetFd
<1>2. /\ t \in Tasks /\ live \in SUBSET Tasks /\ fd_table \in [Tasks -> FdTable] /\ FilesOK(file_table)
      /\ pipes = [p \in Pipes |-> pipes[p]]
      /\ \A u \in Tasks \ live : fd_table[u] = NoFds
      /\ \A f \in FileIds : file_table[f].ref_count = Cardinality(Holders(fd_table, f))
      /\ \A p \in Pipes : PipeExact(file_table, pipes, p)
  BY InvMeans
<1>3. /\ fd_table' \in [Tasks -> FdTable]
      /\ \A f \in FileIds : Cardinality(Holders(fd_table', f))
                              = Cardinality(Holders(fd_table, f)) + (IF f = file THEN 1 ELSE 0)
      /\ \A f \in FileIds : Cardinality(Holders(fd_table, f)) \in Nat
  BY <1>1, <1>2, OneHolder
<1>4. /\ FilesOK(file_table') /\ file_table'[file].ref_count = 1
      /\ \A f \in FileIds \ {file} : file_table'[f] = file_table[f]
      /\ \A p \in Pipes, flags \in SUBSET {"R", "W"} : Ends(file_table', p, flags) = Ends(file_table, p, flags)
  BY <1>1, <1>2, OtherOpened
<1>5. ASSUME NEW f \in FileIds PROVE file_table'[f].ref_count = Cardinality(Holders(fd_table', f))
  <2>1. CASE f = file
    BY <1>1, <1>2, <1>3, <1>4, <2>1
  <2>2. CASE f # file
    BY <1>2, <1>3, <1>4, <2>2
  <2>3. QED
    BY <2>1, <2>2
<1>6. \A p \in Pipes : PipeExact(file_table', pipes', p)
  BY <1>1, <1>2, <1>4 DEF PipeExact
<1>7. \A u \in Tasks \ live' : fd_table'[u] = NoFds
  BY <1>1, <1>2 DEF Put
<1>8. QED
  BY <1>1, <1>2, <1>3, <1>4, <1>5, <1>6, <1>7, StepInv

\* dup adds a descriptor for an open file.
LEMMA DupInv ==
  ASSUME FilesAssumption, Inv, NEW t \in live, NEW fd \in Fds, Dup(t, fd)
  PROVE  Inv'
<1> DEFINE gains == References(fd_table[t], {fd})
           file == fd_table[t][fd]
<1>1. PICK new \in Fds :
        /\ file # NoFile /\ fd_table[t][new] = NoFile
        /\ fd_table' = Put(fd_table, t, SetFd(fd_table[t], new, file))
        /\ file_table' = RetainFiles(file_table, gains)
        /\ live' = live /\ pipes' = pipes
  BY DEF Dup, FreeFd, IsFirst, Put, SetFd
<1>2. /\ t \in Tasks /\ live \in SUBSET Tasks /\ fd_table \in [Tasks -> FdTable] /\ FilesOK(file_table)
      /\ pipes = [p \in Pipes |-> pipes[p]]
      /\ \A u \in Tasks \ live : fd_table[u] = NoFds
      /\ \A f \in FileIds : file_table[f].ref_count = Cardinality(Holders(fd_table, f))
      /\ \A p \in Pipes : PipeExact(file_table, pipes, p)
  BY InvMeans
<1>3. file \in FileIds
  BY <1>1, <1>2 DEF FdTable
<1>4. gains \in [FileIds -> Nat] /\ \A f \in FileIds : gains[f] = IF f = file THEN 1 ELSE 0
  BY <1>2, OneReference
<1> HIDE DEF gains, file
<1>5. /\ fd_table' \in [Tasks -> FdTable]
      /\ \A f \in FileIds : Cardinality(Holders(fd_table', f))
                              = Cardinality(Holders(fd_table, f)) + (IF f = file THEN 1 ELSE 0)
  BY <1>1, <1>2, <1>3, OneHolder
<1>6. /\ FilesOK(file_table')
      /\ \A f \in FileIds : file_table'[f].ref_count = file_table[f].ref_count + gains[f]
      /\ \A p, flags : Ends(file_table', p, flags) = Ends(file_table, p, flags)
  BY <1>1, <1>2, <1>4, Retained
<1>7. \A f \in FileIds : file_table'[f].ref_count = Cardinality(Holders(fd_table', f))
  BY <1>2, <1>4, <1>5, <1>6
<1>8. \A p \in Pipes : PipeExact(file_table', pipes', p)
  BY <1>1, <1>2, <1>6 DEF PipeExact
<1>9. \A u \in Tasks \ live' : fd_table'[u] = NoFds
  BY <1>1, <1>2 DEF Put
<1>10. QED
  BY <1>1, <1>2, <1>5, <1>6, <1>7, <1>8, <1>9, StepInv

\* dup2 goes through the tables in which the new descriptor is closed.
LEMMA Dup2Inv ==
  ASSUME FilesAssumption, Inv, NEW t \in live, NEW old \in Fds, NEW new \in Fds, Dup2(t, old, new)
  PROVE  Inv'
<1> DEFINE file == fd_table[t][old]
           D == {new}
           drops == References(fd_table[t], D)
           gains == References(fd_table[t], {old})
           cleared == [fd_table[t] EXCEPT ![new] = NoFile]
           between == Put(fd_table, t, cleared)
           files == ReleaseFiles(file_table, drops)
<1>1. /\ t \in Tasks /\ live \in SUBSET Tasks /\ fd_table \in [Tasks -> FdTable]
      /\ \A u \in Tasks \ live : fd_table[u] = NoFds
  BY InvMeans
<1>2. /\ file # NoFile /\ old # new /\ live' = live
      /\ fd_table' = [fd_table EXCEPT ![t] = [fd_table[t] EXCEPT ![new] = file]]
      /\ file_table' = RetainFiles(files, gains)
      /\ pipes' = ReleasePipes(file_table, pipes, drops)
  BY DEF Dup2, Drop, TablesBecome
<1>3. file \in FileIds
  BY <1>1, <1>2 DEF FdTable
<1>4. cleared \in FdTable /\ Clears(fd_table[t], cleared, D) /\ D \in SUBSET Fds
  BY <1>1 DEF FdTable, Clears
<1>5. between \in [Tasks -> FdTable] /\ between[t] = cleared /\ between[t][new] = NoFile
  BY <1>1, <1>4 DEF Put, FdTable
<1>6. fd_table' = Put(between, t, SetFd(between[t], new, file))
  <2>1. SetFd(cleared, new, file) = [fd_table[t] EXCEPT ![new] = file]
    BY <1>1 DEF FdTable, SetFd
  <2>2. \A x : Put(Put(fd_table, t, cleared), t, x) = [fd_table EXCEPT ![t] = x]
    BY <1>1 DEF Put
  <2>3. QED
    BY <1>2, <1>5, <2>1, <2>2
<1>7. gains \in [FileIds -> Nat] /\ \A f \in FileIds : gains[f] = IF f = file THEN 1 ELSE 0
  BY <1>1, OneReference
<1> HIDE DEF D, file, drops, gains, cleared, between, files
<1>8. /\ FilesOK(files) /\ \A p \in Pipes : PipeExact(files, pipes', p)
      /\ \A f \in FileIds : files[f].ref_count = Cardinality(Holders(between, f))
      /\ pipes' = [p \in Pipes |-> pipes'[p]]
  BY <1>1, <1>2, <1>4, Dropped DEF drops, between, files
<1>9. /\ fd_table' \in [Tasks -> FdTable]
      /\ \A f \in FileIds : Cardinality(Holders(fd_table', f))
                              = Cardinality(Holders(between, f)) + (IF f = file THEN 1 ELSE 0)
  BY <1>1, <1>3, <1>5, <1>6, OneHolder
<1>10. /\ FilesOK(file_table')
       /\ \A f \in FileIds : file_table'[f].ref_count = files[f].ref_count + gains[f]
       /\ \A p, flags : Ends(file_table', p, flags) = Ends(files, p, flags)
  BY <1>2, <1>7, <1>8, Retained
<1>11. \A f \in FileIds : file_table'[f].ref_count = Cardinality(Holders(fd_table', f))
  BY <1>7, <1>8, <1>9, <1>10
<1>12. \A p \in Pipes : PipeExact(file_table', pipes', p)
  BY <1>8, <1>10 DEF PipeExact
<1>13. \A u \in Tasks \ live' : fd_table'[u] = NoFds
  BY <1>1, <1>2
<1>14. QED
  BY <1>1, <1>2, <1>8, <1>9, <1>10, <1>11, <1>12, <1>13, StepInv

\* The slot of the child had no descriptors.
LEMMA ForkInv ==
  ASSUME FilesAssumption, Inv, NEW t \in live, Fork(t)
  PROVE  Inv'
<1> DEFINE table == fd_table[t]
           gains == References(table, Fds)
<1>1. PICK child \in Tasks \ live :
        /\ live' = live \cup {child} /\ fd_table' = Put(fd_table, child, table)
        /\ file_table' = RetainFiles(file_table, gains) /\ pipes' = pipes
  BY DEF Fork, Put
<1>2. /\ t \in Tasks /\ live \in SUBSET Tasks /\ fd_table \in [Tasks -> FdTable] /\ FilesOK(file_table)
      /\ pipes = [p \in Pipes |-> pipes[p]]
      /\ \A u \in Tasks \ live : fd_table[u] = NoFds
      /\ \A f \in FileIds : file_table[f].ref_count = Cardinality(Holders(fd_table, f))
      /\ \A p \in Pipes : PipeExact(file_table, pipes, p)
  BY InvMeans
<1>3. table \in FdTable /\ Fds \in SUBSET Fds
  BY <1>2
<1> HIDE DEF table
<1>4. Fills(fd_table[child], table, Fds)
  BY <1>2 DEF Fills, NoFds
<1>5. \A f \in FileIds : /\ gains[f] \in Nat
                         /\ Cardinality(Holders(fd_table', f)) = Cardinality(Holders(fd_table, f)) + gains[f]
  BY <1>1, <1>2, <1>3, <1>4, AddedHolders
<1>6. gains \in [FileIds -> Nat]
  BY <1>5 DEF References
<1> HIDE DEF gains
<1>7. /\ FilesOK(file_table')
      /\ \A f \in FileIds : file_table'[f].ref_count = file_table[f].ref_count + gains[f]
      /\ \A p, flags : Ends(file_table', p, flags) = Ends(file_table, p, flags)
  BY <1>1, <1>2, <1>6, Retained
<1>8. \A f \in FileIds : file_table'[f].ref_count = Cardinality(Holders(fd_table', f))
  BY <1>2, <1>5, <1>7
<1>9. \A p \in Pipes : PipeExact(file_table', pipes', p)
  BY <1>1, <1>2, <1>7 DEF PipeExact
<1>10. live' \in SUBSET Tasks /\ fd_table' \in [Tasks -> FdTable] /\ \A u \in Tasks \ live' : fd_table'[u] = NoFds
  BY <1>1, <1>2, <1>3 DEF Put
<1>11. QED
  BY <1>1, <1>2, <1>7, <1>8, <1>9, <1>10, StepInv

\* The read end of a new pipe is its only end.
LEMMA ReadEnd ==
  ASSUME FilesAssumption, Inv, NEW p \in Pipes, pipes[p] = NoPipe,
         NEW rfile \in FileIds, file_table[rfile].ref_count = 0,
         NEW opened, opened = OpenFile(file_table, rfile, p, {"R"})
  PROVE  /\ FilesOK(opened) /\ opened[rfile].ref_count = 1
         /\ \A f \in FileIds \ {rfile} : opened[f] = file_table[f]
         /\ Ends(opened, p, {}) = {rfile} /\ Ends(opened, p, {"R"}) = {rfile} /\ Ends(opened, p, {"W"}) = {}
         /\ \A q \in Pipes \ {p}, flags \in SUBSET {"R", "W"} : Ends(opened, q, flags) = Ends(file_table, q, flags)
<1>1. FilesOK(file_table) /\ PipeExact(file_table, pipes, p)
  BY InvMeans
<1>2. Cardinality(Ends(file_table, p, {})) = 0
  BY <1>1 DEF PipeExact, NoPipe
<1>3. Ends(file_table, p, {}) \in SUBSET FileIds
  BY DEF Ends
<1>4. IsFiniteSet(Ends(file_table, p, {}))
  BY <1>3, CountedFinite
<1>5. Ends(file_table, p, {}) = {}
  BY <1>2, <1>4, FS_EmptySet
<1>6. \A flags : Ends(file_table, p, flags) = {}
  BY <1>5 DEF Ends
<1> DEFINE access == {"R"}
<1>7. /\ p \in Pipes \cup {Other} /\ access \in SUBSET {"R", "W"}
      /\ opened = OpenFile(file_table, rfile, p, access)
  OBVIOUS
<1> HIDE DEF access
<1>8. /\ FilesOK(opened) /\ opened[rfile].ref_count = 1
      /\ \A f \in FileIds \ {rfile} : opened[f] = file_table[f]
      /\ \A q \in Pipes, flags \in SUBSET {"R", "W"} :
           Ends(opened, q, flags) = Ends(file_table, q, flags) \cup {f \in {rfile} : p = q /\ flags \subseteq access}
  BY <1>1, <1>7, Opened
<1>9. ASSUME NEW flags \in SUBSET {"R", "W"}
      PROVE  Ends(opened, p, flags) = IF flags \subseteq {"R"} THEN {rfile} ELSE {}
  <2>1. Ends(opened, p, flags) = Ends(file_table, p, flags) \cup {f \in {rfile} : p = p /\ flags \subseteq access}
    BY <1>8
  <2>2. QED
    BY <1>6, <2>1 DEF access
<1>10. ASSUME NEW q \in Pipes \ {p}, NEW flags \in SUBSET {"R", "W"}
       PROVE  Ends(opened, q, flags) = Ends(file_table, q, flags)
  <2>1. Ends(opened, q, flags) = Ends(file_table, q, flags) \cup {f \in {rfile} : p = q /\ flags \subseteq access}
    BY <1>8
  <2>2. QED
    BY <2>1
<1>11. Ends(opened, p, {}) = {rfile} /\ Ends(opened, p, {"R"}) = {rfile} /\ Ends(opened, p, {"W"}) = {}
  BY <1>9
<1>12. QED
  BY <1>8, <1>10, <1>11

\* The counts of the pipes once pipe p has both of its ends.
Created(ps, p) == [ps EXCEPT ![p] = [inode_ref_count |-> 2, reader_count |-> 1, writer_count |-> 1]]

\* A new pipe with both of its ends has exact counts, and no other pipe is concerned.
LEMMA BothEnds ==
  ASSUME FilesAssumption, Inv, NEW p \in Pipes, pipes[p] = NoPipe,
         NEW rfile \in FileIds, file_table[rfile].ref_count = 0,
         NEW opened, opened = OpenFile(file_table, rfile, p, {"R"}),
         NEW wfile \in FileIds, opened[wfile].ref_count = 0,
         NEW both, both = OpenFile(opened, wfile, p, {"W"}),
         NEW created, created = Created(pipes, p)
  PROVE  /\ FilesOK(both) /\ wfile # rfile /\ file_table[wfile].ref_count = 0
         /\ both[rfile].ref_count = 1 /\ both[wfile].ref_count = 1
         /\ \A f \in FileIds \ {rfile, wfile} : both[f] = file_table[f]
         /\ created = [q \in Pipes |-> created[q]]
         /\ \A q \in Pipes : PipeExact(both, created, q)
<1>1. /\ FilesOK(opened) /\ opened[rfile].ref_count = 1
      /\ \A f \in FileIds \ {rfile} : opened[f] = file_table[f]
      /\ Ends(opened, p, {}) = {rfile} /\ Ends(opened, p, {"R"}) = {rfile} /\ Ends(opened, p, {"W"}) = {}
      /\ \A q \in Pipes \ {p}, flags \in SUBSET {"R", "W"} : Ends(opened, q, flags) = Ends(file_table, q, flags)
  BY ReadEnd
<1> DEFINE access == {"W"}
<1>2. /\ p \in Pipes \cup {Other} /\ access \in SUBSET {"R", "W"} /\ wfile # rfile
      /\ both = OpenFile(opened, wfile, p, access)
  BY <1>1
<1> HIDE DEF access
<1>3. /\ FilesOK(both) /\ both[wfile].ref_count = 1
      /\ \A f \in FileIds \ {wfile} : both[f] = opened[f]
      /\ \A q \in Pipes, flags \in SUBSET {"R", "W"} :
           Ends(both, q, flags) = Ends(opened, q, flags) \cup {f \in {wfile} : p = q /\ flags \subseteq access}
  BY <1>1, <1>2, Opened
<1>4. /\ Ends(both, p, {}) = {rfile, wfile} /\ Ends(both, p, {"R"}) = {rfile} /\ Ends(both, p, {"W"}) = {wfile}
      /\ \A q \in Pipes \ {p}, flags \in SUBSET {"R", "W"} : Ends(both, q, flags) = Ends(file_table, q, flags)
  <2>1. ASSUME NEW q \in Pipes, NEW flags \in SUBSET {"R", "W"}
        PROVE  Ends(both, q, flags) = IF q = p /\ flags \subseteq {"W"} THEN Ends(opened, q, flags) \cup {wfile}
                                      ELSE Ends(opened, q, flags)
    <3>1. Ends(both, q, flags) = Ends(opened, q, flags) \cup {f \in {wfile} : p = q /\ flags \subseteq access}
      BY <1>3
    <3>2. QED
      BY <3>1 DEF access
  <2>2. ASSUME NEW q \in Pipes \ {p}, NEW flags \in SUBSET {"R", "W"}
        PROVE  Ends(both, q, flags) = Ends(file_table, q, flags)
    <3>1. Ends(opened, q, flags) = Ends(file_table, q, flags)
      BY <1>1
    <3>2. QED
      BY <2>1, <3>1
  <2>3. /\ Ends(both, p, {}) = Ends(opened, p, {}) \cup {wfile}
        /\ Ends(both, p, {"R"}) = Ends(opened, p, {"R"})
        /\ Ends(both, p, {"W"}) = Ends(opened, p, {"W"}) \cup {wfile}
    BY <2>1
  <2>4. QED
    BY <1>1, <2>2, <2>3
<1>5. Cardinality({rfile}) = 1 /\ Cardinality({wfile}) = 1 /\ Cardinality({rfile, wfile}) = 2
  <2>1. IsFiniteSet({rfile}) /\ Cardinality({rfile}) = 1 /\ Cardinality({wfile}) = 1
    BY FS_Singleton
  <2>2. {rfile, wfile} = {rfile} \cup {wfile} /\ wfile \notin {rfile}
    BY <1>2
  <2>3. Cardinality({rfile} \cup {wfile}) = Cardinality({rfile}) + 1
    BY <2>1, <2>2, FS_AddElement
  <2>4. QED
    BY <2>1, <2>2, <2>3
<1>6. pipes = [q \in Pipes |-> pipes[q]] /\ \A q \in Pipes : PipeExact(file_table, pipes, q)
  BY InvMeans
<1>7. /\ created = [q \in Pipes |-> created[q]] /\ \A q \in Pipes \ {p} : created[q] = pipes[q]
      /\ created[p] = [inode_ref_count |-> 2, reader_count |-> 1, writer_count |-> 1]
  BY <1>6 DEF Created
<1>8. PipeExact(both, created, p)
  BY <1>4, <1>5, <1>7 DEF PipeExact
<1>9. \A q \in Pipes \ {p} : PipeExact(both, created, q)
  BY <1>4, <1>6, <1>7 DEF PipeExact
<1>10. QED
  BY <1>1, <1>2, <1>3, <1>7, <1>8, <1>9

\* pipe takes two entries and two descriptors.
LEMMA CreatePipeInv ==
  ASSUME FilesAssumption, Inv, NEW t \in live, CreatePipe(t)
  PROVE  Inv'
<1>1. PICK p \in Pipes, rfd \in Fds, wfd \in Fds, rfile \in FileIds, wfile \in FileIds :
        /\ pipes[p] = NoPipe
        /\ FreeFd(t, rfd) /\ IsFirst(wfd, {d \in Fds \ {rfd} : fd_table[t][d] = NoFile})
        /\ AllocFile(file_table, rfile) /\ AllocFile(OpenFile(file_table, rfile, p, {"R"}), wfile)
        /\ fd_table' = [fd_table EXCEPT ![t][rfd] = rfile, ![t][wfd] = wfile]
        /\ file_table' = OpenFile(OpenFile(file_table, rfile, p, {"R"}), wfile, p, {"W"})
        /\ pipes' = Created(pipes, p) /\ live' = live
  BY DEF CreatePipe, Created
<1> DEFINE opened == OpenFile(file_table, rfile, p, {"R"})
<1>2. /\ fd_table[t][rfd] = NoFile /\ wfd # rfd /\ fd_table[t][wfd] = NoFile
      /\ file_table[rfile].ref_count = 0 /\ opened[wfile].ref_count = 0
      /\ file_table' = OpenFile(opened, wfile, p, {"W"})
  BY <1>1 DEF FreeFd, AllocFile, IsFirst
<1> HIDE DEF opened
<1>3. /\ t \in Tasks /\ live \in SUBSET Tasks /\ fd_table \in [Tasks -> FdTable]
      /\ \A u \in Tasks \ live : fd_table[u] = NoFds
      /\ \A f \in FileIds : file_table[f].ref_count = Cardinality(Holders(fd_table, f))
  BY InvMeans
<1>4. /\ FilesOK(file_table') /\ wfile # rfile /\ file_table[wfile].ref_count = 0
      /\ file_table'[rfile].ref_count = 1 /\ file_table'[wfile].ref_count = 1
      /\ \A f \in FileIds \ {rfile, wfile} : file_table'[f] = file_table[f]
      /\ pipes' = [q \in Pipes |-> pipes'[q]]
      /\ \A q \in Pipes : PipeExact(file_table', pipes', q)
  BY <1>1, <1>2, BothEnds DEF opened
<1> DEFINE between == Put(fd_table, t, SetFd(fd_table[t], rfd, rfile))
<1>5. between[t] = SetFd(fd_table[t], rfd, rfile) /\ between[t][wfd] = NoFile
  BY <1>2, <1>3 DEF Put, SetFd, FdTable
<1>6. fd_table' = Put(between, t, SetFd(between[t], wfd, wfile))
  BY <1>1, <1>3 DEF Put, SetFd, FdTable
<1> HIDE DEF between
<1>7. /\ between \in [Tasks -> FdTable]
      /\ \A f \in FileIds : /\ Cardinality(Holders(fd_table, f)) \in Nat
                            /\ Cardinality(Holders(between, f))
                                 = Cardinality(Holders(fd_table, f)) + (IF f = rfile THEN 1 ELSE 0)
  BY <1>2, <1>3, OneHolder DEF between
<1>8. /\ fd_table' \in [Tasks -> FdTable]
      /\ \A f \in FileIds : Cardinality(Holders(fd_table', f))
                              = Cardinality(Holders(between, f)) + (IF f = wfile THEN 1 ELSE 0)
  BY <1>3, <1>5, <1>6, <1>7, OneHolder
<1>9. ASSUME NEW f \in FileIds PROVE file_table'[f].ref_count = Cardinality(Holders(fd_table', f))
  <2>1. Cardinality(Holders(fd_table', f)) = Cardinality(Holders(fd_table, f))
          + (IF f = rfile THEN 1 ELSE 0) + (IF f = wfile THEN 1 ELSE 0)
    BY <1>7, <1>8
  <2>2. CASE f \in {rfile, wfile}
    BY <1>2, <1>3, <1>4, <2>1, <2>2
  <2>3. CASE f \notin {rfile, wfile}
    BY <1>3, <1>4, <1>7, <2>1, <2>3
  <2>4. QED
    BY <2>2, <2>3
<1>10. \A u \in Tasks \ live' : fd_table'[u] = NoFds
  BY <1>1, <1>3
<1>11. QED
  BY <1>1, <1>3, <1>4, <1>8, <1>9, <1>10, StepInv

-----------------------------------------------------------------------------
(* The calls that fail half-way *)

\* References that were taken, and are given up again, leave the tables as they were.
LEMMA GivenBack ==
  ASSUME FilesAssumption, Inv, NEW files, FilesOK(files), NEW drops \in [FileIds -> Nat],
         \A f \in FileIds : /\ files[f].ref_count = file_table[f].ref_count + drops[f]
                            /\ file_table[f].ref_count # 0 => /\ files[f].inode = file_table[f].inode
                                                              /\ files[f].flags = file_table[f].flags,
         NEW ps,
         \A p \in Pipes : /\ ps[p].inode_ref_count = Cardinality(Ends(files, p, {}))
                          /\ \/ Ends(files, p, {}) \subseteq Closed(files, drops)
                             \/ PipeExact(files, ps, p),
         NEW left, left = ReleaseFiles(files, drops), NEW now, now = ReleasePipes(files, ps, drops)
  PROVE  left = file_table /\ now = pipes
<1>1. /\ FilesOK(file_table) /\ pipes = [p \in Pipes |-> pipes[p]]
      /\ \A f \in FileIds : file_table[f].ref_count \in Nat /\ drops[f] \in Nat
      /\ \A p \in Pipes : PipeExact(file_table, pipes, p)
  BY InvMeans
<1>2. \A f \in FileIds : drops[f] <= files[f].ref_count
  BY <1>1
<1>3. /\ FilesOK(left) /\ \A f \in FileIds : left[f].ref_count = files[f].ref_count - drops[f]
      /\ \A f \in FileIds : f \notin Closed(files, drops) => /\ left[f].inode = files[f].inode
                                                             /\ left[f].flags = files[f].flags
  BY <1>2, Released
<1>4. \A f \in FileIds : file_table[f].ref_count # 0 => f \notin Closed(files, drops)
  BY <1>1 DEF Closed
<1>5. \A f \in FileIds : /\ left[f].ref_count = file_table[f].ref_count
                         /\ file_table[f].ref_count # 0 => /\ left[f].inode = file_table[f].inode
                                                           /\ left[f].flags = file_table[f].flags
  BY <1>1, <1>3, <1>4
<1>6. left = file_table
  BY <1>1, <1>3, <1>5, SameFiles
<1>7. \A p \in Pipes : PipeExact(left, now, p)
  BY <1>2, PipeReleased
<1>8. now = [p \in Pipes |-> now[p]]
  BY DEF ReleasePipes
<1>9. \A p \in Pipes : now[p] = pipes[p]
  BY <1>1, <1>6, <1>7 DEF PipeExact
<1>10. QED
  BY <1>1, <1>6, <1>8, <1>9

\* One reference to each of some files.
Once(F) == [f \in FileIds |-> IF f \in F THEN 1 ELSE 0]

\* What Once counts.
LEMMA OnceIs ==
  ASSUME NEW F
  PROVE  /\ Once(F) \in [FileIds -> Nat]
         /\ \A f \in FileIds : Once(F)[f] = IF f \in F THEN 1 ELSE 0
BY DEF Once

\* open that cannot truncate closes the one entry it took.
LEMMA OpenFailsUndone ==
  ASSUME FilesAssumption, Inv, NEW t \in live, OpenFails(t)
  PROVE  UNCHANGED vars
<1>1. PICK file \in FileIds :
        LET opened == OpenFile(file_table, file, Other, {"R", "W"})
            drops == [f \in FileIds |-> IF f = file THEN 1 ELSE 0]
        IN  /\ file_table[file].ref_count = 0
            /\ file_table' = ReleaseFiles(opened, drops)
            /\ pipes' = ReleasePipes(opened, pipes, drops)
            /\ UNCHANGED <<live, fd_table, io>>
  BY DEF OpenFails, AllocFile, IsFirst
<1> DEFINE opened == OpenFile(file_table, file, Other, {"R", "W"})
           drops == Once({file})
<1>2. drops = [f \in FileIds |-> IF f = file THEN 1 ELSE 0]
  BY DEF Once
<1>3. /\ file_table[file].ref_count = 0
      /\ file_table' = ReleaseFiles(opened, drops)
      /\ pipes' = ReleasePipes(opened, pipes, drops)
      /\ UNCHANGED <<live, fd_table, io>>
  BY <1>1, <1>2
<1>4. drops \in [FileIds -> Nat] /\ \A f \in FileIds : drops[f] = IF f = file THEN 1 ELSE 0
  BY OnceIs
<1>5. /\ FilesOK(file_table) /\ \A f \in FileIds : file_table[f].ref_count \in Nat
      /\ \A p \in Pipes : PipeExact(file_table, pipes, p)
  BY InvMeans
<1>6. /\ FilesOK(opened) /\ opened[file].ref_count = 1
      /\ \A f \in FileIds \ {file} : opened[f] = file_table[f]
      /\ \A p \in Pipes, flags \in SUBSET {"R", "W"} : Ends(opened, p, flags) = Ends(file_table, p, flags)
  BY <1>3, <1>5, OtherOpened
<1> HIDE DEF opened, drops
<1>7. ASSUME NEW f \in FileIds
      PROVE  /\ opened[f].ref_count = file_table[f].ref_count + drops[f]
             /\ file_table[f].ref_count # 0 => /\ opened[f].inode = file_table[f].inode
                                               /\ opened[f].flags = file_table[f].flags
  <2>1. CASE f = file
    BY <1>3, <1>4, <1>6, <2>1
  <2>2. CASE f # file
    BY <1>4, <1>5, <1>6, <2>2
  <2>3. QED
    BY <2>1, <2>2
<1>8. ASSUME NEW p \in Pipes
      PROVE  pipes[p].inode_ref_count = Cardinality(Ends(opened, p, {})) /\ PipeExact(opened, pipes, p)
  <2>1. PipeExact(opened, pipes, p)
    BY <1>5, <1>6 DEF PipeExact
  <2>2. QED
    BY <2>1 DEF PipeExact
<1>9. file_table' = file_table /\ pipes' = pipes
  BY <1>3, <1>4, <1>6, <1>7, <1>8, GivenBack
<1>10. QED
  BY <1>3, <1>9 DEF vars, tables

\* pipe that finds one entry only closes it while the pipe has no readers yet, and this frees the pipe.
LEMMA CreatePipeFailsUndone ==
  ASSUME FilesAssumption, Inv, NEW t \in live, CreatePipeFails(t)
  PROVE  UNCHANGED vars
<1>1. PICK p \in Pipes, rfile \in FileIds :
        LET opened == OpenFile(file_table, rfile, p, {"R"})
            created == [pipes EXCEPT ![p] = [NoPipe EXCEPT !.inode_ref_count = 1]]
            drops == [f \in FileIds |-> IF f = rfile THEN 1 ELSE 0]
        IN  /\ pipes[p] = NoPipe /\ file_table[rfile].ref_count = 0
            /\ file_table' = ReleaseFiles(opened, drops)
            /\ pipes' = ReleasePipes(opened, created, drops)
            /\ UNCHANGED <<live, fd_table, io>>
  BY DEF CreatePipeFails, AllocFile, IsFirst
<1> DEFINE opened == OpenFile(file_table, rfile, p, {"R"})
           created == [pipes EXCEPT ![p] = [NoPipe EXCEPT !.inode_ref_count = 1]]
           drops == Once({rfile})
<1>2. drops = [f \in FileIds |-> IF f = rfile THEN 1 ELSE 0]
  BY DEF Once
<1>3. /\ pipes[p] = NoPipe /\ file_table[rfile].ref_count = 0
      /\ file_table' = ReleaseFiles(opened, drops)
      /\ pipes' = ReleasePipes(opened, created, drops)
      /\ UNCHANGED <<live, fd_table, io>>
  BY <1>1, <1>2
<1>4. drops \in [FileIds -> Nat] /\ \A f \in FileIds : drops[f] = IF f = rfile THEN 1 ELSE 0
  BY OnceIs
<1>5. /\ pipes = [q \in Pipes |-> pipes[q]] /\ \A f \in FileIds : file_table[f].ref_count \in Nat
      /\ \A q \in Pipes : PipeExact(file_table, pipes, q)
  BY InvMeans
<1>6. created[p].inode_ref_count = 1 /\ \A q \in Pipes \ {p} : created[q] = pipes[q]
  BY <1>5 DEF NoPipe
<1>7. /\ FilesOK(opened) /\ opened[rfile].ref_count = 1
      /\ \A f \in FileIds \ {rfile} : opened[f] = file_table[f]
      /\ Ends(opened, p, {}) = {rfile}
      /\ \A q \in Pipes \ {p}, flags \in SUBSET {"R", "W"} : Ends(opened, q, flags) = Ends(file_table, q, flags)
  BY <1>3, ReadEnd
<1> HIDE DEF opened, created, drops
<1>8. ASSUME NEW f \in FileIds
      PROVE  /\ opened[f].ref_count = file_table[f].ref_count + drops[f]
             /\ file_table[f].ref_count # 0 => /\ opened[f].inode = file_table[f].inode
                                               /\ opened[f].flags = file_table[f].flags
  <2>1. CASE f = rfile
    BY <1>3, <1>4, <1>7, <2>1
  <2>2. CASE f # rfile
    BY <1>4, <1>5, <1>7, <2>2
  <2>3. QED
    BY <2>1, <2>2
<1>9. ASSUME NEW q \in Pipes
      PROVE  /\ created[q].inode_ref_count = Cardinality(Ends(opened, q, {}))
             /\ \/ Ends(opened, q, {}) \subseteq Closed(opened, drops)
                \/ PipeExact(opened, created, q)
  <2>1. CASE q = p
    <3>1. Cardinality(Ends(opened, p, {})) = 1
      BY <1>7, FS_Singleton
    <3>2. rfile \in Closed(opened, drops)
      BY <1>4, <1>7 DEF Closed
    <3>3. QED
      BY <1>6, <1>7, <2>1, <3>1, <3>2
  <2>2. CASE q # p
    <3>1. PipeExact(opened, created, q)
      BY <1>5, <1>6, <1>7, <2>2 DEF PipeExact
    <3>2. QED
      BY <3>1 DEF PipeExact
  <2>3. QED
    BY <2>1, <2>2
<1>10. file_table' = file_table /\ pipes' = pipes
  BY <1>3, <1>4, <1>7, <1>8, <1>9, GivenBack
<1>11. QED
  BY <1>3, <1>10 DEF vars, tables

\* pipe that cannot return its descriptors closes both ends, and this frees the pipe.
LEMMA UncopiedPipeUndone ==
  ASSUME FilesAssumption, Inv, NEW t \in live, CreatePipeUndone(t)
  PROVE  UNCHANGED vars
<1>1. PICK p \in Pipes, rfile \in FileIds, wfile \in FileIds :
        LET opened == OpenFile(file_table, rfile, p, {"R"})
            both == OpenFile(opened, wfile, p, {"W"})
            drops == [f \in FileIds |-> IF f \in {rfile, wfile} THEN 1 ELSE 0]
        IN  /\ pipes[p] = NoPipe /\ file_table[rfile].ref_count = 0 /\ opened[wfile].ref_count = 0
            /\ file_table' = ReleaseFiles(both, drops)
            /\ pipes' = ReleasePipes(both, Created(pipes, p), drops)
            /\ UNCHANGED <<live, fd_table, io>>
  BY DEF CreatePipeUndone, AllocFile, IsFirst, Created
<1> DEFINE opened == OpenFile(file_table, rfile, p, {"R"})
           both == OpenFile(opened, wfile, p, {"W"})
           created == Created(pipes, p)
           drops == Once({rfile, wfile})
<1>2. /\ pipes[p] = NoPipe /\ file_table[rfile].ref_count = 0 /\ opened[wfile].ref_count = 0
      /\ file_table' = ReleaseFiles(both, drops)
      /\ pipes' = ReleasePipes(both, created, drops)
      /\ UNCHANGED <<live, fd_table, io>>
  BY <1>1 DEF Once
<1>3. drops \in [FileIds -> Nat] /\ \A f \in FileIds : drops[f] = IF f \in {rfile, wfile} THEN 1 ELSE 0
  BY OnceIs
<1>4. \A f \in FileIds : file_table[f].ref_count \in Nat
  BY InvMeans
<1> HIDE DEF opened
<1>5. /\ FilesOK(both) /\ file_table[wfile].ref_count = 0
      /\ both[rfile].ref_count = 1 /\ both[wfile].ref_count = 1
      /\ \A f \in FileIds \ {rfile, wfile} : both[f] = file_table[f]
      /\ \A q \in Pipes : PipeExact(both, created, q)
  BY <1>2, BothEnds DEF opened
<1> HIDE DEF both, created, drops
<1>6. ASSUME NEW f \in FileIds
      PROVE  /\ both[f].ref_count = file_table[f].ref_count + drops[f]
             /\ file_table[f].ref_count # 0 => /\ both[f].inode = file_table[f].inode
                                               /\ both[f].flags = file_table[f].flags
  <2>1. CASE f \in {rfile, wfile}
    BY <1>2, <1>3, <1>5, <2>1
  <2>2. CASE f \notin {rfile, wfile}
    BY <1>3, <1>4, <1>5, <2>2
  <2>3. QED
    BY <2>1, <2>2
<1>7. ASSUME NEW q \in Pipes
      PROVE  created[q].inode_ref_count = Cardinality(Ends(both, q, {})) /\ PipeExact(both, created, q)
  <2>1. PipeExact(both, created, q)
    BY <1>5
  <2>2. QED
    BY <2>1 DEF PipeExact
<1>8. file_table' = file_table /\ pipes' = pipes
  BY <1>2, <1>3, <1>5, <1>6, <1>7, GivenBack
<1>9. QED
  BY <1>2, <1>8 DEF vars, tables

\* fork that cannot clone the address space gives back what vfs_clone_fds took.
LEMMA ForkFailsUndone ==
  ASSUME FilesAssumption, Inv, NEW t \in live, ForkFails(t)
  PROVE  UNCHANGED vars
<1> DEFINE shared == References(fd_table[t], Fds)
           kept == RetainFiles(file_table, shared)
<1>1. /\ file_table' = ReleaseFiles(kept, shared)
      /\ pipes' = ReleasePipes(kept, pipes, shared)
      /\ UNCHANGED <<live, fd_table, io>>
  BY DEF ForkFails
<1>2. /\ t \in Tasks /\ fd_table \in [Tasks -> FdTable] /\ FilesOK(file_table)
      /\ \A f \in FileIds : file_table[f].ref_count \in Nat
      /\ \A p \in Pipes : PipeExact(file_table, pipes, p)
  BY InvMeans
<1>3. \A f \in FileIds : shared[f] = Cardinality({fd \in Fds : fd_table[t][fd] = f})
  BY DEF References
<1>4. \A f \in FileIds : shared[f] \in Nat
  BY <1>3, CountedFinite
<1>5. shared \in [FileIds -> Nat]
  BY <1>4 DEF References
<1> HIDE DEF shared
<1>6. /\ FilesOK(kept)
      /\ \A f \in FileIds : kept[f].ref_count = file_table[f].ref_count + shared[f]
      /\ \A p, flags : Ends(kept, p, flags) = Ends(file_table, p, flags)
  BY <1>2, <1>5, Retained
<1>7. \A f \in FileIds : kept[f].inode = file_table[f].inode /\ kept[f].flags = file_table[f].flags
  BY <1>2 DEF RetainFiles, FilesOK, File
<1> HIDE DEF kept
<1>8. ASSUME NEW p \in Pipes
      PROVE  pipes[p].inode_ref_count = Cardinality(Ends(kept, p, {})) /\ PipeExact(kept, pipes, p)
  <2>1. PipeExact(kept, pipes, p)
    BY <1>2, <1>6 DEF PipeExact
  <2>2. QED
    BY <2>1 DEF PipeExact
<1>9. file_table' = file_table /\ pipes' = pipes
  BY <1>1, <1>5, <1>6, <1>7, <1>8, GivenBack
<1>10. QED
  BY <1>1, <1>9 DEF vars, tables

-----------------------------------------------------------------------------
(* The theorems *)

\* A step that changes none of the tables.
LEMMA TablesKept ==
  ASSUME FilesAssumption, Inv, UNCHANGED tables
  PROVE  Inv'
<1>1. live' = live /\ fd_table' = fd_table /\ file_table' = file_table /\ pipes' = pipes
  BY DEF tables
<1>2. QED
  BY <1>1, InvMeans, StepInv

\* Every system call of a live task keeps the invariant.
LEMMA SyscallInv ==
  ASSUME FilesAssumption, Inv, NEW t \in live, Syscall(t)
  PROVE  Inv'
<1>1. t \in Tasks
  BY DEF Inv
<1>2. ASSUME OpenFails(t) \/ CreatePipeFails(t) \/ CreatePipeUndone(t) \/ ForkFails(t) PROVE Inv'
  BY <1>2, OpenFailsUndone, CreatePipeFailsUndone, UncopiedPipeUndone, ForkFailsUndone, TablesKept DEF vars
<1>3. ASSUME Open(t) \/ CreatePipe(t) \/ Fork(t) \/ Exit(t) PROVE Inv'
  BY <1>1, <1>3, OpenInv, CreatePipeInv, ForkInv, ExitInv
<1>4. ASSUME NEW fd \in Fds, Close(t, fd) \/ Dup(t, fd) \/ \E new \in Fds : Dup2(t, fd, new) PROVE Inv'
  BY <1>1, <1>4, CloseInv, DupInv, Dup2Inv
<1>5. ASSUME NEW fd \in Fds, Transfer(t, fd) PROVE Inv'
  BY <1>5, TablesKept DEF Transfer, Read, Write
<1>6. QED
  BY <1>2, <1>3, <1>4, <1>5 DEF Syscall

\* Every step keeps the invariant.
LEMMA NextInv ==
  ASSUME FilesAssumption, Inv, [Next]_vars
  PROVE  Inv'
<1>1. ASSUME NEW t \in Running, Syscall(t) PROVE Inv'
  BY <1>1, SyscallInv DEF Running
<1>2. CASE Reschedule
  BY <1>2, TablesKept DEF Reschedule
<1>3. CASE UNCHANGED vars
  BY <1>3, TablesKept DEF vars
<1>4. QED
  BY <1>1, <1>2, <1>3 DEF Next

\* For any number of tasks, descriptors, files and pipes, and any mixture of system calls:
\* the reference count of a file is the number of its descriptors and the counts of a pipe are
\* those of its open ends, so vfs_release_file frees each exactly when its last user goes.
THEOREM RefCountsAreExact ==
  ASSUME FilesAssumption
  PROVE  Spec => []RefCountsExact
<1>1. Init => Inv
  BY InitInv
<1>2. Inv /\ [Next]_vars => Inv'
  BY NextInv
<1>3. Inv => RefCountsExact
  BY DEF Inv
<1>4. QED
  BY <1>1, <1>2, <1>3, PTL DEF Spec

\* An open, pipe or fork that fails half-way leaves every table as it found it, whatever the
\* other tasks share: the references it gives back are exactly those it took.
THEOREM FailedCallsAreUndone ==
  ASSUME FilesAssumption
  PROVE  Spec => FailedCallsUndone
<1>1. Init => Inv
  BY InitInv
<1>2. Inv /\ [Next]_vars => Inv'
  BY NextInv
<1>3. ASSUME Inv, Failing PROVE UNCHANGED vars
  BY <1>3, OpenFailsUndone, CreatePipeFailsUndone, UncopiedPipeUndone, ForkFailsUndone DEF Failing, Running
<1>4. Inv => [~Failing]_vars
  BY <1>3
<1>5. QED
  BY <1>1, <1>2, <1>4, PTL DEF Spec, FailedCallsUndone
=============================================================================
