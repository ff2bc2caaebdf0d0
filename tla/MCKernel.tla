------------------------------ MODULE MCKernel ------------------------------
(***************************************************************************)
(* Instances for TLC of the kernel's memory and of how it runs programs. A *)
(* behaviour is of one part throughout: the page allocator, the kernel's   *)
(* own memory, the loading of programs, the lookup of paths, or the saving *)
(* and restoring of what a task runs on.                                   *)
(***************************************************************************)
EXTENDS Palloc, Traps, Sequences

VARIABLES
  part,
  pool, free, pages, heap, slots, mmio, held, stacks, regions,            \* KernelMemory
  image,                                                                  \* ExecImage
  tree, cwd                                                               \* Paths

memoryVars == <<pool, free, pages, heap, slots, mmio, held, stacks, regions>>

\* Eight frames, with a hole in the available memory.
MCMemoryMap == Frame \ {4}

-----------------------------------------------------------------------------
\* Pages of 8 bytes, the regions of the address space in the order of paging.h, and RAM
\* in the low pages. One device is not on a page boundary, one ends at the very end of
\* the space, one is larger than the window.
KernelPages == INSTANCE KernelMemory WITH
  SPACE <- 256, PAGE_SIZE <- 8, HEADER <- 2, KHEAP_ALIGN <- 2, KHEAP_INITIAL_PAGES <- 2,
  KERNEL_MMIO_BASE <- 128, KERNEL_MMIO_LIMIT <- 152, KERNEL_HEAP_BASE <- 160, KERNEL_HEAP_LIMIT <- 200,
  KERNEL_STACK_BASE <- 200, KERNEL_STACK_LIMIT <- 255, KSTACK_GUARD_PAGES <- 1, KSTACK_DATA_PAGES <- 2,
  Pools <- {{8 * i : i \in 1 .. n} : n \in {1, 3, 5, 6}}, Sizes <- {1, 3, 17}, MaxHeld <- 3,
  Regions <- {<<75, 7>>, <<252, 4>>, <<64, 32>>, <<64, 0>>}, MaxRegions <- 2

-----------------------------------------------------------------------------
Segment(offset, vaddr, filesz, memsz) ==
  [load |-> TRUE, offset |-> offset, vaddr |-> vaddr, filesz |-> filesz, memsz |-> memsz]
Note == [Segment(0, 0, 2, 2) EXCEPT !.load = FALSE]
File(phoff, segments) == [length |-> 12, elf |-> TRUE, phoff |-> phoff, segments |-> segments]

\* Segments that touch the ends of a page, of the file, of the user range and of the
\* space, where sums of offsets and sizes wrap.
Segments == {Segment(o, v, f, m) : o \in {7, 8, 126}, v \in {10, 38, 75}, f \in {0, 5}, m \in {5, 25}}

MCExecutables ==
  {File(2, <<s>>) : s \in Segments}
  \union {File(2, <<Segment(2, 20, 5, 5), s>>) : s \in Segments}
  \union {File(phoff, <<Note, Segment(2, 20, 3, 5)>>) : phoff \in {2, 8, 126}}
  \union {File(2, <<Note>>), File(2, <<>>), [File(2, <<Segment(2, 20, 3, 5)>>) EXCEPT !.length = 1]}

Programs == INSTANCE ExecImage WITH
  Span <- 128, PAGE_SIZE <- 20, USER_VIRT_BASE <- 20, EXEC_USER_STACK_TOP <- 100, EXEC_MAX_MAPPED_PAGES <- 3,
  EXEC_MAX_ARGS <- 2, EXEC_ARG_MAX <- 4, ELF_MAX_PROGRAM_HEADERS <- 2, HeaderSize <- 2, EntrySize <- 2,
  Executables <- MCExecutables, Strings <- {<<>>, <<1>>, <<4, 5, 6>>, <<7, 8, 9, 1>>}, DefaultArgv0 <- <<1, 2>>

-----------------------------------------------------------------------------
\* Two names, of one and two characters; paths of up to three parts, of which two
\* components fit.
Lookups == INSTANCE Paths WITH
  Names <- {"a", "bb"}, NameLength <- [a |-> 1, bb |-> 2], PROC_PATH_COMPONENT_MAX <- 3,
  PROC_PATH_COMPONENTS_MAX <- 2, PROC_PATH_MAX <- 7, MaxParts <- 3

\* What the proofs of TrapsProofs rest on.
ASSUME SwitchingAssumption == TrapsAssumption

-----------------------------------------------------------------------------
\* Of the parts a behaviour is not of, Palloc and Traps keep their initial state and the others
\* have no state.
NoState == <<>>

PartsInit ==
  /\ part \in {"frames", "memory", "programs", "lookup", "switching"}
  /\ Init /\ TrapsInit
  /\ IF part = "memory" THEN KernelPages!Init
     ELSE /\ pool = NoState /\ free = NoState /\ pages = NoState /\ heap = NoState /\ slots = NoState /\ mmio = NoState
          /\ held = NoState /\ stacks = NoState /\ regions = NoState
  /\ IF part = "programs" THEN Programs!Init ELSE image = NoState
  /\ IF part = "lookup" THEN Lookups!Init ELSE tree = NoState /\ cwd = NoState

PartsNext ==
  \/ part = "frames" /\ Next /\ UNCHANGED <<part, memoryVars, image, tree, cwd, trapsVars>>
  \/ part = "memory" /\ KernelPages!Next /\ UNCHANGED <<part, vars, image, tree, cwd, trapsVars>>
  \/ part = "programs" /\ Programs!Next /\ UNCHANGED <<part, vars, memoryVars, tree, cwd, trapsVars>>
  \/ part = "lookup" /\ Lookups!Next /\ UNCHANGED <<part, vars, memoryVars, image, trapsVars>>
  \/ part = "switching" /\ TrapsNext /\ UNCHANGED <<part, vars, memoryVars, image, tree, cwd>>

PartsSpec == PartsInit /\ [][PartsNext]_<<part, vars, memoryVars, image, tree, cwd, trapsVars>>

-----------------------------------------------------------------------------
(* Properties *)

\* The heap is exactly its list through splits, merges and growth that runs out of frames
\* after some of its pages: its blocks cover the region up to heap_end without a gap or an
\* overlap, and the blocks in use are those that callers hold, as large as was asked for
\* (kmalloc, kfree, kheap_expand).
HeapExact == part = "memory" => KernelPages!HeapExact

\* What the kernel has mapped for itself is what somebody owns: the pages of the heap, of
\* each stack above its guard page and of each region of device registers, no frame of them
\* twice; and growth of the heap, or a stack, that runs out of frames half-way leaves no page
\* mapped, no slot taken and no frame lost (kheap_expand, kstack_alloc, kstack_free,
\* mmio_map_region).
MappingsExact == part = "memory" => KernelPages!MappingsExact

\* The program that runs is the file: each segment lay whole in the file and lies whole in
\* the user range, whatever sums wrap, and its pages hold the file's bytes and then zeros
\* (exec_load_path, exec_map_segment).
ImageExact == part = "programs" => Programs!ImageExact

\* A program finds on its stack exactly the arguments that its caller passed, also when
\* the caller passes on its own and is itself replaced (exec_prepare_stack, proc_sys_execv).
ArgsExact == part = "programs" => Programs!ArgsExact

\* A path names what a walk through the directories from the root or from the working
\* directory would find, also when the working directory is gone, and no limit refuses the
\* path of a node that exists (proc_normalize_path).
PathsAgree == part = "lookup" => Lookups!PathsAgree

=============================================================================
