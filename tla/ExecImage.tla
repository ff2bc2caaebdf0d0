----------------------------- MODULE ExecImage ------------------------------
(***************************************************************************)
(* What a program finds in its memory when it starts: the segments that    *)
(* exec_load_path reads from its file and the argument vector that         *)
(* exec_prepare_stack writes to its stack (src/kernel/exec.c), which       *)
(* proc_copy_exec_args has read from the memory of the program before it   *)
(* (proc.c, usercopy.c).                                                   *)
(*                                                                         *)
(* Memory is modelled byte by byte, with small pages: a cell holds a byte, *)
(* or the first or a later byte of a 32-bit word. Sums of 32-bit fields    *)
(* wrap at Span. The frames behind the pages, and their lack, are those of *)
(* AddressSpace; a call that fails leaves the old program as it was.       *)
(***************************************************************************)
EXTENDS Integers, Sequences, SequencesExt, FiniteSets

CONSTANTS
  Span,                   \* 2^32
  PAGE_SIZE, USER_VIRT_BASE, EXEC_USER_STACK_TOP,
  EXEC_MAX_MAPPED_PAGES, EXEC_MAX_ARGS, EXEC_ARG_MAX, ELF_MAX_PROGRAM_HEADERS,
  HeaderSize, EntrySize,  \* sizeof(elf32_header_t), sizeof(elf32_program_header_t)
  Executables,            \* files: their length and the fields of their headers
  Strings,                \* argument strings, as sequences of nonzero bytes
  DefaultArgv0            \* path_basename of the path

VARIABLE image  \* the running program: its file, the cells of its pages, its stack
                \* pointer, and the arguments its caller meant it to have

Word == 4
Byte(b) == <<"byte", b>>
StackBase == EXEC_USER_STACK_TOP - PAGE_SIZE

\* Byte n of a file.
FileByte(n) == Byte(n + 1)

PageOf(address) == (address \div PAGE_SIZE) * PAGE_SIZE
PagesOf(first, size) == {PageOf(a) : a \in first .. first + size - 1}
Cells(page) == page .. page + PAGE_SIZE - 1

\* Mapped memory with more pages, which are zeroed.
Unmapped == [ok |-> TRUE, cells |-> <<>>]
Failed == [ok |-> FALSE, cells |-> <<>>, sp |-> 0]
Zeroed(cells, pages) ==
  [a \in DOMAIN cells \union UNION {Cells(p) : p \in pages} |->
     IF a \in DOMAIN cells THEN cells[a] ELSE Byte(0)]

\* exec_track_mapping
Tracked(cells) == Cardinality(DOMAIN cells) <= EXEC_MAX_MAPPED_PAGES * PAGE_SIZE

-----------------------------------------------------------------------------
(* Loading the file *)

\* exec_validate_header
ValidHeader(file) ==
  LET end == (file.phoff + Len(file.segments) * EntrySize) % Span
  IN  /\ file.length >= HeaderSize
      /\ file.elf
      /\ file.segments # <<>>
      /\ end >= file.phoff /\ end <= file.length

\* exec_segment_in_user_range
InUserRange(segment) ==
  LET end == (segment.vaddr + segment.memsz) % Span
  IN  /\ segment.memsz >= segment.filesz
      /\ end >= segment.vaddr
      /\ segment.vaddr >= USER_VIRT_BASE /\ end <= StackBase

\* Mutant: a short read is taken for a whole one.
ReadAnything(file, offset, length) == TRUE

\* exec_read_exact: vfs_read_file stops at the end of the file.
ReadExact(file, offset, length) == offset + length <= file.length

\* exec_map_segment: no page of the segment may be mapped yet. Its bytes are read a page
\* at a time.
MapSegment(file, m, segment) ==
  LET pages == PagesOf(segment.vaddr, segment.memsz)
      mapped == Zeroed(m.cells, pages)
      Source(a) == segment.offset + (a - segment.vaddr)
  IN  IF /\ m.ok
         /\ InUserRange(segment)
         /\ (segment.offset + segment.filesz) % Span <= file.length
         /\ pages \intersect DOMAIN m.cells = {}
         /\ Tracked(mapped)
         /\ segment.filesz = 0 \/ ReadExact(file, segment.offset, segment.filesz)
        THEN [ok |-> TRUE,
              cells |-> [a \in DOMAIN mapped |->
                           IF a \in segment.vaddr .. segment.vaddr + segment.filesz - 1
                             THEN FileByte(Source(a)) ELSE mapped[a]]]
        ELSE Failed

\* exec_map_stack
MapStack(m) ==
  LET mapped == Zeroed(m.cells, {StackBase})
  IN  IF m.ok /\ Tracked(mapped) THEN [ok |-> TRUE, cells |-> mapped] ELSE Failed

\* The headers that exec_load_path loads.
Loadable(file) == SelectSeq(file.segments, LAMBDA s : s.load /\ s.memsz # 0)

\* exec_load_path
LoadPath(file) ==
  IF /\ ReadExact(file, 0, HeaderSize)
     /\ ValidHeader(file)
     /\ Len(file.segments) <= ELF_MAX_PROGRAM_HEADERS
     /\ ReadExact(file, file.phoff, Len(file.segments) * EntrySize)
     /\ Loadable(file) # <<>>
    THEN MapStack(FoldLeft(LAMBDA m, segment : MapSegment(file, m, segment), Unmapped, Loadable(file)))
    ELSE Failed

-----------------------------------------------------------------------------
(* The argument vector *)

\* exec_write_user: the cells of a mapped page.
WriteUser(m, address, cells) ==
  [m EXCEPT !.cells = [a \in DOMAIN @ |-> IF a \in address .. address + Len(cells) - 1
                                            THEN cells[a - address + 1] ELSE @[a]]]

WordCells(w) == <<<<"word", w>>, <<"rest", 1>>, <<"rest", 2>>, <<"rest", 3>>>>

\* Mutant: the byte that ends a string is not copied.
TextUnended(string) == [i \in 1 .. Len(string) |-> Byte(string[i])]

Text(string) == Append([i \in 1 .. Len(string) |-> Byte(string[i])], Byte(0))

\* Cells put below the stack pointer.
PushCells(m, cells) ==
  LET sp == m.sp - Len(cells)
  IN  IF ~m.ok \/ sp < StackBase THEN [m EXCEPT !.ok = FALSE]
      ELSE [WriteUser(m, sp, cells) EXCEPT !.sp = sp]

PushString(m, string) ==
  LET pushed == PushCells(m, Text(string))
  IN  IF Len(string) + 1 > EXEC_ARG_MAX THEN [m EXCEPT !.ok = FALSE]
      ELSE [pushed EXCEPT !.at = Append(@, pushed.sp)]

PushWord(m, w) == PushCells(m, WordCells(w))

Aligned(m) == [m EXCEPT !.sp = (@ \div Word) * Word]

\* exec_prepare_stack
PrepareStack(m, argv) ==
  LET start == [ok |-> m.ok, cells |-> m.cells, sp |-> EXEC_USER_STACK_TOP, at |-> <<>>]
      strings == Aligned(FoldLeft(PushString, start, argv))
      pointers == FoldLeft(PushWord, PushWord(strings, 0), Reverse(strings.at))
  IN  IF Len(argv) > EXEC_MAX_ARGS THEN Failed ELSE PushWord(pointers, Len(argv))

\* What proc_copy_exec_args finds at an address of the caller: no vector at all, or strings
\* up to a null pointer or up to a word that cannot be read.
Vectors == [strings : UNION {[1 .. n -> Strings] : n \in 0 .. EXEC_MAX_ARGS + 1}, ends : BOOLEAN]

\* user_copy_string_from_in: the text and its last byte fit the buffer.
Copyable(string) == Len(string) < EXEC_ARG_MAX

ArgsCopied(vector) ==
  /\ Len(vector.strings) <= EXEC_MAX_ARGS /\ vector.ends
  /\ \A i \in DOMAIN vector.strings : Copyable(vector.strings[i])

CopyExecArgs(vector) == IF vector.strings = <<>> THEN <<DefaultArgv0>> ELSE vector.strings

\* proc_sys_execv. The caller means the new program to have the given arguments.
Execv(file, vector, meant) ==
  LET loaded == LoadPath(file)
      stacked == PrepareStack(loaded, CopyExecArgs(vector))
  IN  /\ ArgsCopied(vector)
      /\ loaded.ok /\ stacked.ok
      /\ image' = [file |-> file, cells |-> stacked.cells, sp |-> stacked.sp,
                   argv |-> IF meant = <<>> THEN <<DefaultArgv0>> ELSE meant]

-----------------------------------------------------------------------------
(* What the program reads: argc at its stack pointer, then its argv *)

CellAt(address) == IF address \in DOMAIN image.cells THEN image.cells[address] ELSE <<"none", 0>>
IsWord(address) == [i \in 1 .. Word |-> CellAt(address + i - 1)] = WordCells(CellAt(address)[2])
WordAt(address) == CellAt(address)[2]

ArgvAt(i) == image.sp + Word * (i + 1)
IsArgument(i, string) ==
  LET start == WordAt(ArgvAt(i))
  IN  /\ \A n \in DOMAIN string : CellAt(start + n - 1) = Byte(string[n])
      /\ CellAt(start + Len(string)) = Byte(0)

\* The strings of its own vector from the k-th on, as its memory has them.
OwnStrings(k) ==
  [i \in 1 .. WordAt(image.sp) - k |-> CHOOSE s \in Strings \union {DefaultArgv0} : IsArgument(i + k - 1, s)]

\* A program starts another one with new arguments, or with its own from some word on.
StartsAnother == \E file \in Executables, vector \in Vectors : Execv(file, vector, vector.strings)
PassesOn ==
  \E file \in Executables, k \in 0 .. EXEC_MAX_ARGS :
    /\ k <= WordAt(image.sp)
    /\ Execv(file, [strings |-> OwnStrings(k), ends |-> TRUE],
             SubSeq(image.argv, k + 1, Len(image.argv)))

\* task_load_user_image starts the first program with its own name.
Init ==
  \E file \in Executables :
    LET stacked == PrepareStack(LoadPath(file), <<DefaultArgv0>>)
    IN  /\ LoadPath(file).ok /\ stacked.ok
        /\ image = [file |-> file, cells |-> stacked.cells, sp |-> stacked.sp, argv |-> <<DefaultArgv0>>]

Next == StartsAnother \/ PassesOn

Spec == Init /\ [][Next]_image

-----------------------------------------------------------------------------
\* The file that is running lay whole in the filesystem: its header table and the bytes of
\* each segment are inside the file, whatever sums of offsets and sizes wrap. Each segment
\* lies between USER_VIRT_BASE and the stack, holds the bytes of the file and then zeros, and no
\* page belongs to two segments; the rest of the pages is zero.
ImageExact ==
  LET file == image.file
      Inside(s, a) == a \in s.vaddr .. s.vaddr + s.memsz - 1
  IN  /\ file.phoff + Len(file.segments) * EntrySize <= file.length
      /\ \A i \in DOMAIN Loadable(file) :
           LET s == Loadable(file)[i]
           IN  /\ s.filesz = 0 \/ s.offset + s.filesz <= file.length
               /\ USER_VIRT_BASE <= s.vaddr /\ s.vaddr + s.memsz <= StackBase
               /\ \A n \in 0 .. s.memsz - 1 :
                    CellAt(s.vaddr + n) = IF n < s.filesz THEN FileByte(s.offset + n) ELSE Byte(0)
               /\ \A j \in DOMAIN Loadable(file) \ {i} :
                    LET t == Loadable(file)[j]
                    IN  PagesOf(s.vaddr, s.memsz) \intersect PagesOf(t.vaddr, t.memsz) = {}
      /\ \A a \in DOMAIN image.cells :
           \/ a >= StackBase
           \/ \E i \in DOMAIN Loadable(file) : Inside(Loadable(file)[i], a)
           \/ image.cells[a] = Byte(0)

\* A program finds the arguments that its caller meant it to have, also after they have been
\* handed from program to program: argc on an aligned stack pointer, a pointer to each
\* string with its end, and a null pointer, all inside the stack page. proc_copy_exec_args
\* has copied them before the memory of the caller was given up.
ArgsExact ==
  LET argc == Len(image.argv)
  IN  /\ image.sp >= StackBase /\ image.sp % Word = 0
      /\ IsWord(image.sp) /\ WordAt(image.sp) = argc
      /\ \A i \in 0 .. argc - 1 : IsWord(ArgvAt(i)) /\ IsArgument(i, image.argv[i + 1])
      /\ IsWord(ArgvAt(argc)) /\ WordAt(ArgvAt(argc)) = 0

=============================================================================
