------------------------------- MODULE Files --------------------------------
(***************************************************************************)
(* File descriptors, open files and pipes: the fd tables and the system    *)
(* calls of src/kernel/proc.c that use them, the open-file table and the   *)
(* pipes of src/kernel/vfs.c.                                              *)
(*                                                                         *)
(* A handler runs to completion. Which task makes the next call is left    *)
(* open here: Proc models the scheduler. A call that blocks, an exit and   *)
(* every timer interrupt end in proc_schedule, whose part for this module  *)
(* is proc_service_blocked_io: the blocked calls are retried in the order  *)
(* of the task table.                                                      *)
(*                                                                         *)
(* Files that are not pipes are kept only for the references they hold. A  *)
(* task that reads the console and waits for a key is one that makes no    *)
(* call for a while.                                                       *)
(***************************************************************************)
EXTENDS Integers, Sequences, FiniteSets

CONSTANTS
  VFS_PIPE_BUFFER_SIZE,  \* bytes a pipe holds; 1024 in vfs.h
  MAX_TASKS,      \* slots of the task table
  VFS_MAX_FDS,    \* descriptors of a task; 16 in vfs.h
  VFS_MAX_FILES,  \* entries of file_table; 32 in vfs.h
  Pipes,          \* the blocks of the kernel heap that may hold a pipe
  StdFiles,       \* files vfs_attach_stdio opens; 3 in the code
  PROC_IO_CHUNK,  \* bytes moved at a time by read and write; 256 in proc.c
  Lengths,        \* lengths passed to read and write
  FaultsAt,       \* offsets at which a user buffer may stop being mapped
  Calls,          \* the system calls that programs make
  MaxBytes        \* bound: bytes one task has written to one pipe

Tasks == 0 .. MAX_TASKS - 1
Sent == [task : Tasks, number : 1 .. MaxBytes]   \* a byte, by its place in its writer's stream
Fds == 0 .. VFS_MAX_FDS - 1
FileIds == 0 .. VFS_MAX_FILES - 1
NoFile == -1
NoInode == "none"
Other == "other"   \* an inode that is not a pipe

\* There is a task to start with, its standard files fit, and no pipe is taken for another
\* inode.
FilesAssumption ==
  /\ MAX_TASKS \in Nat \ {0} /\ VFS_MAX_FDS \in Nat /\ VFS_MAX_FILES \in Nat
  /\ StdFiles \in Nat /\ StdFiles <= VFS_MAX_FDS /\ StdFiles <= VFS_MAX_FILES
  /\ NoInode \notin Pipes /\ Other \notin Pipes

INSTANCE Chunks
INSTANCE PipeRing WITH Byte <- Sent, NoByte <- [task |-> 0, number |-> 0]

VARIABLES
  live,        \* tasks that exist and have not exited
  fd_table,    \* the descriptors of each task
  file_table,  \* the open files
  pipes,       \* the counts of each pipe
  rings,       \* the bytes in each pipe
  blocked,     \* the read or write each task is blocked in
  written,     \* history: bytes of each task a pipe has accepted and write has reported
  seen         \* history: bytes of each task that were taken out of a pipe

tables == <<live, fd_table, file_table, pipes>>
io == <<rings, blocked, written, seen>>
vars == <<tables, io>>

-----------------------------------------------------------------------------
(* The open-file table *)

FreeFile == [inode |-> NoInode, flags |-> {}, ref_count |-> 0]
NoPipe == [inode_ref_count |-> 0, reader_count |-> 0, writer_count |-> 0]
NoFds == [fd \in Fds |-> NoFile]

IsFirst(r, S) == r \in S /\ \A s \in S : r <= s

FreeFd(t, fd) == IsFirst(fd, {d \in Fds : fd_table[t][d] = NoFile})

\* vfs_alloc_file: file is the first entry without references.
AllocFile(files, file) == IsFirst(file, {f \in FileIds : files[f].ref_count = 0})

OpenFile(files, file, inode, flags) ==
  [files EXCEPT ![file] = [inode |-> inode, flags |-> flags, ref_count |-> 1]]

\* How often each file occurs among the given descriptors of a table.
References(table, fds) == [f \in FileIds |-> Cardinality({fd \in fds : table[fd] = f})]

\* Mutant: a file shared by several descriptors is retained once.
RetainFilesOnce(files, gains) ==
  [f \in FileIds |-> [files[f] EXCEPT !.ref_count = @ + Smaller(gains[f], 1)]]

\* vfs_retain_file and vfs_clone_fds; the former's test that ref_count is not 0
\* never fails, see RefCountsExact.
RetainFiles(files, gains) == [f \in FileIds |-> [files[f] EXCEPT !.ref_count = @ + gains[f]]]

Monus(a, b) == IF a >= b THEN a - b ELSE 0

\* vfs_release_file, called drops[f] times for each file f: a file that loses its
\* last reference is closed,
Closed(files, drops) ==
  {f \in FileIds : files[f].ref_count # 0 /\ files[f].ref_count <= drops[f]}

ReleaseFiles(files, drops) ==
  [f \in FileIds |-> IF f \in Closed(files, drops) THEN FreeFile
                     ELSE [files[f] EXCEPT !.ref_count = Monus(@, drops[f])]]

\* and gives up its share in the counts of its pipe; the last one frees the pipe.
ReleasePipes(files, ps, drops) ==
  [p \in Pipes |->
     LET gone == {f \in Closed(files, drops) : files[f].inode = p}
         left == Monus(ps[p].inode_ref_count, Cardinality(gone))
     IN  IF left = 0 THEN NoPipe
         ELSE [inode_ref_count |-> left,
               reader_count |-> Monus(ps[p].reader_count,
                                      Cardinality({f \in gone : "R" \in files[f].flags})),
               writer_count |-> Monus(ps[p].writer_count,
                                      Cardinality({f \in gone : "W" \in files[f].flags}))]]

-----------------------------------------------------------------------------
(* read and write on a pipe *)

Idle == [reason |-> "NONE", fd |-> 0, length |-> 0, mapped |-> 0]
Tables == [fds |-> fd_table, files |-> file_table, pipes |-> pipes]
Streams == [rings |-> rings, blocked |-> blocked, written |-> written, seen |-> seen]

\* The streams without those of the pipes that tb has freed, which no descriptor
\* reaches any more.
LiveStreams(tb, st) ==
  LET None == [t \in Tasks |-> 0]
      Keep(f, none) == [p \in Pipes |-> IF tb.pipes[p] = NoPipe THEN none ELSE f[p]]
  IN  [rings |-> Keep(st.rings, EmptyRing), blocked |-> st.blocked,
       written |-> Keep(st.written, None), seen |-> Keep(st.seen, None)]

\* The open file of a descriptor, if it is the end of a pipe that allows the access.
PipeEnd(tb, t, fd, access) ==
  /\ tb.fds[t][fd] # NoFile
  /\ tb.files[tb.fds[t][fd]].inode \in Pipes
  /\ access \in tb.files[tb.fds[t][fd]].flags

From(bytes, t) == Cardinality({i \in DOMAIN bytes : bytes[i].task = t})

\* The loop of proc_sys_read and of proc_retry_blocked_read: the task is done, or
\* blocked as long as the pipe is empty and has writers.
TryRead(tb, st, t, call) ==
  LET p == tb.files[tb.fds[t][call.fd]].inode
      n == Drained(Smaller(call.length, st.rings[p].buffered), call.mapped)
      bytes == Oldest(st.rings[p], n)
  IN  IF ~PipeEnd(tb, t, call.fd, "R") THEN [st EXCEPT !.blocked[t] = Idle]
      ELSE IF st.rings[p].buffered # 0
        THEN [st EXCEPT !.blocked[t] = Idle,
                        !.rings[p] = PipeRead(@, n),
                        !.seen[p] = [u \in Tasks |-> @[u] + From(bytes, u)]]
      ELSE IF tb.pipes[p].writer_count = 0 THEN [st EXCEPT !.blocked[t] = Idle]
      ELSE [st EXCEPT !.blocked[t] = call]

\* Mutant: a partial write is reported as a complete one.
TryWriteAll(tb, st, t, call) ==
  LET p == tb.files[tb.fds[t][call.fd]].inode
      n == Sendable(call.length, call.mapped)
      bytes == [i \in 1 .. n |-> [task |-> t, number |-> st.written[p][t] + i]]
      free == VFS_PIPE_BUFFER_SIZE - st.rings[p].buffered
  IN  IF ~PipeEnd(tb, t, call.fd, "W") THEN [st EXCEPT !.blocked[t] = Idle]
      ELSE IF n = 0 \/ tb.pipes[p].reader_count = 0 THEN [st EXCEPT !.blocked[t] = Idle]
      ELSE IF free = 0 THEN [st EXCEPT !.blocked[t] = call]
      ELSE [st EXCEPT !.blocked[t] = Idle,
                      !.rings[p] = PipeWrite(@, bytes), !.written[p][t] = @ + n]

\* The loop of proc_sys_write and of proc_retry_blocked_write.
TryWrite(tb, st, t, call) ==
  LET p == tb.files[tb.fds[t][call.fd]].inode
      n == Sendable(call.length, call.mapped)
      bytes == [i \in 1 .. n |-> [task |-> t, number |-> st.written[p][t] + i]]
      free == VFS_PIPE_BUFFER_SIZE - st.rings[p].buffered
  IN  IF ~PipeEnd(tb, t, call.fd, "W") THEN [st EXCEPT !.blocked[t] = Idle]
      ELSE IF n = 0 \/ tb.pipes[p].reader_count = 0 THEN [st EXCEPT !.blocked[t] = Idle]
      ELSE IF free = 0 THEN [st EXCEPT !.blocked[t] = call]
      ELSE [st EXCEPT !.blocked[t] = Idle,
                      !.rings[p] = PipeWrite(@, bytes),
                      !.written[p][t] = @ + Smaller(n, free)]

\* Mutant: blocked writers are not retried.
ServiceReads(tb, st) ==
  LET Retry(s, t) == IF s.blocked[t].reason = "IO_READ"
                       THEN TryRead(tb, s, t, s.blocked[t]) ELSE s
      after[t \in 0 .. MAX_TASKS] == IF t = 0 THEN st ELSE Retry(after[t - 1], t - 1)
  IN  after[MAX_TASKS]

\* proc_service_blocked_io, the part of proc_schedule that concerns this module.
Service(tb, st) ==
  LET Retry(s, t) == CASE s.blocked[t].reason = "IO_READ" -> TryRead(tb, s, t, s.blocked[t])
                       [] s.blocked[t].reason = "IO_WRITE" -> TryWrite(tb, s, t, s.blocked[t])
                       [] OTHER -> s
      after[t \in 0 .. MAX_TASKS] == IF t = 0 THEN st ELSE Retry(after[t - 1], t - 1)
  IN  after[MAX_TASKS]

StreamsBecome(st) == /\ rings' = st.rings /\ blocked' = st.blocked
                     /\ written' = st.written /\ seen' = st.seen

-----------------------------------------------------------------------------
(* System calls *)

Running == {t \in live : blocked[t] = Idle}

\* open on a file that is not a pipe.
Open(t) == \E fd \in Fds, file \in FileIds :
             /\ FreeFd(t, fd) /\ AllocFile(file_table, file)
             /\ fd_table' = [fd_table EXCEPT ![t][fd] = file]
             /\ file_table' = OpenFile(file_table, file, Other, {"R", "W"})
             /\ UNCHANGED <<live, pipes, io>>

\* Mutant: the descriptor is installed before the file is truncated.
OpenFailsOpen(t) == \E fd \in Fds, file \in FileIds :
  /\ FreeFd(t, fd) /\ AllocFile(file_table, file)
  /\ fd_table' = [fd_table EXCEPT ![t][fd] = file]
  /\ file_table' = OpenFile(file_table, file, Other, {"R", "W"})
  /\ UNCHANGED <<live, pipes, io>>

\* open that cannot truncate the file, which it closes again.
OpenFails(t) == \E fd \in Fds, file \in FileIds :
  LET opened == OpenFile(file_table, file, Other, {"R", "W"})
      drops == [f \in FileIds |-> IF f = file THEN 1 ELSE 0]
  IN  /\ FreeFd(t, fd) /\ AllocFile(file_table, file)
      /\ file_table' = ReleaseFiles(opened, drops)
      /\ pipes' = ReleasePipes(opened, pipes, drops)
      /\ UNCHANGED <<live, fd_table, io>>

\* The tables once a task gives up the references of some descriptors.
Drop(t, fds, table) ==
  LET drops == References(fd_table[t], fds)
  IN  [fds |-> [fd_table EXCEPT ![t] = table],
       files |-> ReleaseFiles(file_table, drops),
       pipes |-> ReleasePipes(file_table, pipes, drops)]

TablesBecome(tb) == fd_table' = tb.fds /\ file_table' = tb.files /\ pipes' = tb.pipes

Close(t, fd) ==
  LET tb == Drop(t, {fd}, [fd_table[t] EXCEPT ![fd] = NoFile])
  IN  /\ fd_table[t][fd] # NoFile
      /\ TablesBecome(tb)
      /\ StreamsBecome(LiveStreams(tb, Streams))
      /\ UNCHANGED live

Dup(t, fd) == \E new \in Fds :
                /\ fd_table[t][fd] # NoFile /\ FreeFd(t, new)
                /\ fd_table' = [fd_table EXCEPT ![t][new] = fd_table[t][fd]]
                /\ file_table' = RetainFiles(file_table, References(fd_table[t], {fd}))
                /\ UNCHANGED <<live, pipes, io>>

\* dup2 onto another descriptor, which is closed first if it is open.
Dup2(t, old, new) ==
  LET tb == Drop(t, {new}, [fd_table[t] EXCEPT ![new] = fd_table[t][old]])
  IN  /\ fd_table[t][old] # NoFile /\ old # new
      /\ TablesBecome([tb EXCEPT !.files = RetainFiles(@, References(fd_table[t], {old}))])
      /\ StreamsBecome(LiveStreams(tb, Streams))
      /\ UNCHANGED live

\* pipe: two descriptors, and two entries of file_table on a new pipe.
CreatePipe(t) ==
  \E p \in Pipes, rfd, wfd \in Fds, rfile, wfile \in FileIds :
    LET opened == OpenFile(file_table, rfile, p, {"R"})
    IN  /\ pipes[p] = NoPipe
        /\ FreeFd(t, rfd) /\ IsFirst(wfd, {d \in Fds \ {rfd} : fd_table[t][d] = NoFile})
        /\ AllocFile(file_table, rfile) /\ AllocFile(opened, wfile)
        /\ fd_table' = [fd_table EXCEPT ![t][rfd] = rfile, ![t][wfd] = wfile]
        /\ file_table' = OpenFile(opened, wfile, p, {"W"})
        /\ pipes' = [pipes EXCEPT ![p] = [inode_ref_count |-> 2,
                                          reader_count |-> 1, writer_count |-> 1]]
        /\ UNCHANGED <<live, io>>

\* pipe with one entry of file_table left: the read end is closed again before
\* the pipe has readers or writers.
CreatePipeFails(t) ==
  \E p \in Pipes, rfile \in FileIds :
    LET opened == OpenFile(file_table, rfile, p, {"R"})
        created == [pipes EXCEPT ![p] = [NoPipe EXCEPT !.inode_ref_count = 1]]
        drops == [f \in FileIds |-> IF f = rfile THEN 1 ELSE 0]
    IN  /\ pipes[p] = NoPipe
        /\ Cardinality({d \in Fds : fd_table[t][d] = NoFile}) >= 2
        /\ AllocFile(file_table, rfile) /\ \A f \in FileIds : opened[f].ref_count # 0
        /\ file_table' = ReleaseFiles(opened, drops)
        /\ pipes' = ReleasePipes(opened, created, drops)
        /\ UNCHANGED <<live, fd_table, io>>

\* pipe whose result cannot be copied to the caller: both ends are closed again.
CreatePipeUndone(t) ==
  \E p \in Pipes, rfile, wfile \in FileIds :
    LET opened == OpenFile(file_table, rfile, p, {"R"})
        both == OpenFile(opened, wfile, p, {"W"})
        created == [pipes EXCEPT ![p] = [inode_ref_count |-> 2,
                                         reader_count |-> 1, writer_count |-> 1]]
        drops == [f \in FileIds |-> IF f \in {rfile, wfile} THEN 1 ELSE 0]
    IN  /\ pipes[p] = NoPipe
        /\ Cardinality({d \in Fds : fd_table[t][d] = NoFile}) >= 2
        /\ AllocFile(file_table, rfile) /\ AllocFile(opened, wfile)
        /\ file_table' = ReleaseFiles(both, drops)
        /\ pipes' = ReleasePipes(both, created, drops)
        /\ UNCHANGED <<live, fd_table, io>>

\* A call that is done returns; one that has to wait ends in proc_schedule.
Finish(t, st) == StreamsBecome(IF st.blocked[t] = Idle THEN st ELSE Service(Tables, st))

Call(reason, fd, length, mapped) ==
  [reason |-> reason, fd |-> fd, length |-> length, mapped |-> mapped]

Read(t, fd, length, mapped) ==
  /\ PipeEnd(Tables, t, fd, "R")
  /\ Finish(t, TryRead(Tables, Streams, t, Call("IO_READ", fd, length, mapped)))
  /\ UNCHANGED tables

Write(t, fd, length, mapped) ==
  /\ PipeEnd(Tables, t, fd, "W")
  /\ written[file_table[fd_table[t][fd]].inode][t] + length <= MaxBytes
  /\ Finish(t, TryWrite(Tables, Streams, t, Call("IO_WRITE", fd, length, mapped)))
  /\ UNCHANGED tables

\* fork: the child shares the parent's open files.
Fork(t) == \E child \in Tasks \ live :
             /\ live' = live \cup {child}
             /\ fd_table' = [fd_table EXCEPT ![child] = fd_table[t]]
             /\ file_table' = RetainFiles(file_table, References(fd_table[t], Fds))
             /\ UNCHANGED <<pipes, io>>

\* fork that cannot clone the address space gives the references back.
ForkFails(t) ==
  LET shared == References(fd_table[t], Fds)
      retained == RetainFiles(file_table, shared)
  IN  /\ live # Tasks
      /\ file_table' = ReleaseFiles(retained, shared)
      /\ pipes' = ReleasePipes(retained, pipes, shared)
      /\ UNCHANGED <<live, fd_table, io>>

Exit(t) == LET tb == Drop(t, Fds, NoFds)
           IN  /\ live' = live \ {t}
               /\ TablesBecome(tb)
               /\ StreamsBecome(LiveStreams(tb, Service(tb, Streams)))

\* The timer interrupt, and every other call that ends in proc_schedule.
Reschedule == StreamsBecome(Service(Tables, Streams)) /\ UNCHANGED tables

Init == /\ live = {0}
        /\ fd_table = [t \in Tasks |-> [fd \in Fds |-> IF t = 0 /\ fd < StdFiles THEN fd ELSE NoFile]]
        /\ file_table = [f \in FileIds |->
                           IF f < StdFiles THEN [inode |-> Other, flags |-> {"R", "W"}, ref_count |-> 1]
                           ELSE FreeFile]
        /\ pipes = [p \in Pipes |-> NoPipe]
        /\ rings = [p \in Pipes |-> EmptyRing]
        /\ blocked = [t \in Tasks |-> Idle]
        /\ written = [p \in Pipes |-> [t \in Tasks |-> 0]]
        /\ seen = [p \in Pipes |-> [t \in Tasks |-> 0]]

Transfer(t, fd) == \E length \in Lengths :
                     \E mapped \in {m \in FaultsAt : m < length} \cup {length} :
                       \/ "read" \in Calls /\ Read(t, fd, length, mapped)
                       \/ "write" \in Calls /\ Write(t, fd, length, mapped)

Syscall(t) == \/ "open" \in Calls /\ (Open(t) \/ OpenFails(t))
              \/ "pipe" \in Calls /\ (CreatePipe(t) \/ CreatePipeFails(t) \/ CreatePipeUndone(t))
              \/ "fork" \in Calls /\ (Fork(t) \/ ForkFails(t))
              \/ "exit" \in Calls /\ Exit(t)
              \/ \E fd \in Fds : \/ "close" \in Calls /\ Close(t, fd)
                                 \/ "dup" \in Calls /\ Dup(t, fd)
                                 \/ "dup2" \in Calls /\ \E new \in Fds : Dup2(t, fd, new)
                                 \/ Transfer(t, fd)

Next == (\E t \in Running : Syscall(t)) \/ Reschedule

Spec == Init /\ [][Next]_vars

-----------------------------------------------------------------------------
(* Properties *)

\* The reference count of every open file is the number of descriptors, of all
\* tasks, that refer to it, and the counts of a pipe are the numbers of its open
\* ends: through any sequence of dup, dup2, pipe, fork, exit and failing calls,
\* vfs_release_file closes a file exactly when its last descriptor goes and frees a
\* pipe exactly when its last end does.
RefCountsExact ==
  /\ \A f \in FileIds :
       file_table[f].ref_count = Cardinality({d \in Tasks \X Fds : fd_table[d[1]][d[2]] = f})
  /\ \A p \in Pipes :
       LET Ends(flags) == Cardinality({f \in FileIds : file_table[f].inode = p
                                                       /\ flags \subseteq file_table[f].flags})
       IN  pipes[p] = [inode_ref_count |-> Ends({}), reader_count |-> Ends({"R"}),
                       writer_count |-> Ends({"W"})]

\* A call of a running task that fails half-way.
Failing == \E t \in Running : \/ OpenFails(t) \/ CreatePipeFails(t) \/ CreatePipeUndone(t)
                              \/ ForkFails(t)

\* A call that fails half-way leaves the tables and the pipes as it found them:
\* open that cannot truncate, pipe that runs out of files or cannot return its
\* descriptors, and fork that cannot clone the address space.
FailedCallsUndone == [][~Failing]_vars

\* What is in a pipe is, writer by writer, exactly what write has reported and
\* nobody has read yet, in order: no byte is lost, duplicated or reordered by
\* partial writes, blocked calls that are retried, or several writers.
StreamExact ==
  \A p \in Pipes :
    LET bytes == Contents(rings[p])
    IN  /\ \A t \in Tasks : From(bytes, t) = written[p][t] - seen[p][t]
        /\ \A i \in DOMAIN bytes :
             bytes[i].number = seen[p][bytes[i].task] + From(SubSeq(bytes, 1, i), bytes[i].task)

\* A blocked call whose retry would end it: proc_service_blocked_io finds data or
\* the end of the file, space or no reader.
Ready(t) ==
  LET p == file_table[fd_table[t][blocked[t].fd]].inode
  IN  \/ blocked[t].reason = "IO_READ" /\ (rings[p].buffered # 0 \/ pipes[p].writer_count = 0)
      \/ blocked[t].reason = "IO_WRITE" /\ (\/ rings[p].buffered # VFS_PIPE_BUFFER_SIZE
                                            \/ pipes[p].reader_count = 0)

\* No task stays blocked for ever in a call that could go on: there is no lost
\* wakeup between the task that makes it ready and the one that is retried.
NeverLeftReady == \A t \in Tasks : []<>~Ready(t)

=============================================================================
