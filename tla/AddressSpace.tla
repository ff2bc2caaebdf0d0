---------------------------- MODULE AddressSpace ----------------------------
(***************************************************************************)
(* User address spaces: fork, exec and exit as far as they concern memory  *)
(* (src/kernel/proc.c, exec.c, kstack.c), the page tables and the write    *)
(* fault on a copy-on-write page (paging.c), and copies into user memory   *)
(* (usercopy.c), on the frames of palloc.c.                                *)
(*                                                                         *)
(* User pages all lie in one page table: exec_segment_in_user_range and    *)
(* EXEC_USER_STACK_TOP keep them between 4 and 8 MB. A task holds frames   *)
(* for its kernel stack, its page directory, that table and its pages.     *)
(* The contents of a page are one value.                                   *)
(***************************************************************************)
EXTENDS Frames, Sequences, Functions

CONSTANTS
  Tasks,            \* the slots of the task table
  FirstTask,        \* the slot of the first user task
  KernelStack,      \* the pages of a kernel stack, in order; two in kstack.c
  Directory,        \* the page directory of a task
  Table,            \* the page table of its user pages
  Programs,         \* executables: the pages they load, in order, and which are writable
  Values,           \* what a page may contain
  Loaded,           \* what a page contains after exec
  BootFrames,       \* frames in use when the first user task is created
  MaxKernelFrames   \* bound: frames the rest of the kernel takes later

Pages == UNION {Range(program.pages) : program \in Programs}
StackPages == Range(KernelStack)
Slots == StackPages \cup {Directory, Table} \cup Pages

\* No element occurs twice.
Distinct(order) == \A i, j \in DOMAIN order : order[i] = order[j] => i = j

\* The slots are different places, and exec_map_segment refuses a page that is mapped already.
ASSUME SpaceAssumption ==
  /\ IsFiniteSet(Tasks) /\ FirstTask \in Tasks
  /\ IsFiniteSet(Slots)
  /\ KernelStack \in Seq(StackPages) /\ Distinct(KernelStack)
  /\ Directory # Table /\ {Directory, Table} \cap (StackPages \cup Pages) = {}
  /\ StackPages \cap Pages = {}
  /\ \A program \in Programs : /\ program.pages \in Seq(Pages) \ {<<>>} /\ Distinct(program.pages)
                               /\ program.writable \subseteq Range(program.pages)
  /\ Loaded \in Values
  /\ BootFrames \in 1 .. FrameCount
  /\ MaxKernelFrames \in Nat

VARIABLES
  memory,  \* frame_refcounts and next_search_frame
  kernel,  \* the frames the rest of the kernel holds
  data,    \* the contents of the frames
  space,   \* for each task its frames, the flags of its pages and its image
  view     \* history: what each task has last written to its pages

vars == <<memory, kernel, data, space, view>>

NoSpace == [at |-> [s \in Slots |-> NoFrame], flags |-> [p \in Pages |-> "none"], image |-> <<>>]
NoView == [p \in Pages |-> Loaded]
Live == {t \in Tasks : space[t] # NoSpace}

-----------------------------------------------------------------------------
(* Frames of an address space *)

\* How many of the given slots hold each frame.
Held(at, slots) ==
  [f \in Frame |-> IF f = NoFrame THEN 0 ELSE Cardinality({s \in slots : at[s] = f})]

\* The frames for the slots of a sequence, allocated in its order.
Placed(m, order, at) ==
  [s \in Slots |-> IF s \in Range(order) THEN Nth(m, CHOOSE i \in DOMAIN order : order[i] = s)
                   ELSE at[s]]

\* Frames taken for a call that then fails and gives all of them back.
Undone(m, n) ==
  Drop(Take(m, n), [f \in Frame |-> IF m.refs[f] = 0 /\ Place(m, f) < n THEN 1 ELSE 0])

\* paging_create_address_space and exec_load_path: the page table is allocated when
\* the first page is mapped.
LoadOrder(program) == <<Directory, Head(program.pages), Table>> \o Tail(program.pages)

Load(m, order, at, program) ==
  [at |-> Placed(m, order, [s \in Slots |-> IF s \in StackPages THEN at[s] ELSE NoFrame]),
   flags |-> [p \in Pages |-> IF p \in program.writable THEN "rw"
                              ELSE IF p \in Range(program.pages) THEN "ro" ELSE "none"],
   image |-> program.pages]

\* Mutant: the page table is not returned.
UserSlotsNoTable(sp) == Range(sp.image) \cup {Directory}

\* exec_release_image and paging_destroy_address_space.
UserSlots(sp) == Range(sp.image) \cup {Directory, Table}

\* exec_clone_image makes the writable pages of the parent copy-on-write.
CopyOnWrite(sp, pages) ==
  [sp EXCEPT !.flags = [p \in Pages |-> IF p \in pages /\ @[p] = "rw" THEN "cow" ELSE @[p]]]

Clone(m, sp) ==
  [at |-> Placed(m, KernelStack \o <<Directory, Table>>,
                 [s \in Slots |-> IF s \in Range(sp.image) THEN sp.at[s] ELSE NoFrame]),
   flags |-> CopyOnWrite(sp, Range(sp.image)).flags,
   image |-> sp.image]

-----------------------------------------------------------------------------
(* Handlers *)

\* exec: the new image is loaded before the old one is released.
Exec(t, program) ==
  LET order == LoadOrder(program)
      new == Load(memory, order, space[t].at, program)
  IN  /\ Available(memory, Len(order))
      /\ memory' = Drop(Take(memory, Len(order)), Held(space[t].at, UserSlots(space[t])))
      /\ space' = [space EXCEPT ![t] = new]
      /\ data' = [f \in Frame |-> IF \E p \in Range(program.pages) : new.at[p] = f
                                    THEN Loaded ELSE data[f]]
      /\ view' = [view EXCEPT ![t] = NoView]
      /\ UNCHANGED kernel

\* exec that runs out of memory, or whose file cannot be read to the end. A first page
\* without its table is there only when memory has run out.
ExecFails(program) ==
  \E n \in 0 .. Len(LoadOrder(program)) :
    /\ Available(memory, n)
    /\ n = 2 => ~Available(memory, 3)
    /\ memory' = Undone(memory, n)
    /\ UNCHANGED <<kernel, data, space, view>>

ForkFrames == Len(KernelStack) + 2

Fork(t, child) ==
  /\ space[child] = NoSpace
  /\ Available(memory, ForkFrames)
  /\ memory' = Retain(Take(memory, ForkFrames), Held(space[t].at, Range(space[t].image)))
  /\ space' = [space EXCEPT ![t] = CopyOnWrite(@, Range(@.image)),
                            ![child] = Clone(memory, space[t])]
  /\ view' = [view EXCEPT ![child] = view[t]]
  /\ UNCHANGED <<kernel, data>>

\* fork that finds n frames only. When just the page table is missing, the first
\* page of the parent is copy-on-write already.
ForkFails(t) ==
  \E n \in 0 .. ForkFrames - 1 :
    /\ \E child \in Tasks : space[child] = NoSpace
    /\ Available(memory, n) /\ ~Available(memory, n + 1)
    /\ memory' = Undone(memory, n)
    /\ space' = IF n = ForkFrames - 1
                  THEN [space EXCEPT ![t] = CopyOnWrite(@, {Head(@.image)})] ELSE space
    /\ UNCHANGED <<kernel, data, view>>

\* task_release_resources. The memory of a task is released when its zombie is
\* collected; until then the zombie is a task that makes no step. Tasks killed by a write
\* fault that cannot be resolved end here too.
Release(t) == /\ memory' = Drop(memory, Held(space[t].at, UserSlots(space[t]) \cup StackPages))
              /\ space' = [space EXCEPT ![t] = NoSpace]
              /\ view' = [view EXCEPT ![t] = NoView]
              /\ UNCHANGED <<kernel, data>>

\* paging_resolve_copy_on_write_in: the page is made writable, on a copy if the
\* frame is shared.
Shared(t, p) == memory.refs[space[t].at[p]] # 1
Resolvable(t, p) == space[t].flags[p] = "cow" /\ (Shared(t, p) => Available(memory, 1))

\* Mutant: the contents are not copied.
ResolvedUncopied(t, p) ==
  LET old == space[t].at[p]
      new == IF Shared(t, p) THEN Nth(memory, 1) ELSE old
  IN  [frame |-> new,
       memory |-> IF Shared(t, p)
                    THEN Drop(Take(memory, 1), [f \in Frame |-> IF f = old THEN 1 ELSE 0])
                    ELSE memory,
       space |-> [space EXCEPT ![t].at[p] = new, ![t].flags[p] = "rw"],
       data |-> data]

Resolved(t, p) ==
  LET old == space[t].at[p]
      new == IF Shared(t, p) THEN Nth(memory, 1) ELSE old
  IN  [frame |-> new,
       memory |-> IF Shared(t, p)
                    THEN Drop(Take(memory, 1), [f \in Frame |-> IF f = old THEN 1 ELSE 0])
                    ELSE memory,
       space |-> [space EXCEPT ![t].at[p] = new, ![t].flags[p] = "rw"],
       data |-> [data EXCEPT ![new] = data[old]]]

WriteFault(t, p) ==
  /\ Resolvable(t, p)
  /\ memory' = Resolved(t, p).memory
  /\ space' = Resolved(t, p).space
  /\ data' = Resolved(t, p).data
  /\ UNCHANGED <<kernel, view>>

\* An instruction of the program that writes to a page.
Store(t, p, value) == /\ space[t].flags[p] = "rw"
                      /\ data' = [data EXCEPT ![space[t].at[p]] = value]
                      /\ view' = [view EXCEPT ![t][p] = value]
                      /\ UNCHANGED <<memory, kernel, space>>

\* user_copy_to_in for one page: the kernel writes through its own mapping of the
\* frame. A page that is writable already is written as by Store.
CopyTo(t, p, value) ==
  LET r == Resolved(t, p)
  IN  /\ Resolvable(t, p)
      /\ memory' = r.memory
      /\ space' = r.space
      /\ data' = [r.data EXCEPT ![r.frame] = value]
      /\ view' = [view EXCEPT ![t][p] = value]
      /\ UNCHANGED kernel

\* Frames of the kernel heap, of device buffers and of other kernel stacks.
KernelTakes == /\ Cardinality(kernel) < BootFrames + MaxKernelFrames
               /\ Available(memory, 1)
               /\ memory' = Take(memory, 1)
               /\ kernel' = kernel \cup {Nth(memory, 1)}
               /\ UNCHANGED <<data, space, view>>

KernelReturns(f) == /\ f >= BootFrames
                    /\ memory' = Drop(memory, [g \in Frame |-> IF g = f THEN 1 ELSE 0])
                    /\ kernel' = kernel \ {f}
                    /\ UNCHANGED <<data, space, view>>

\* proc_create_user_task
Init == \E program \in Programs :
  LET m == [refs |-> [f \in Frame |-> IF f < BootFrames THEN 1 ELSE 0], next |-> BootFrames]
      order == KernelStack \o LoadOrder(program)
  IN  /\ Available(m, Len(order))
      /\ memory = Take(m, Len(order))
      /\ kernel = 0 .. BootFrames - 1
      /\ data = [f \in Frame |-> Loaded]
      /\ space = [t \in Tasks |-> IF t = FirstTask THEN Load(m, order, NoSpace.at, program) ELSE NoSpace]
      /\ view = [t \in Tasks |-> NoView]

Next == \/ \E t \in Live : \/ \E program \in Programs : Exec(t, program) \/ ExecFails(program)
                           \/ \E child \in Tasks : Fork(t, child)
                           \/ ForkFails(t)
                           \/ Release(t)
                           \/ \E p \in Pages : \/ WriteFault(t, p)
                                               \/ \E v \in Values : Store(t, p, v) \/ CopyTo(t, p, v)
        \/ KernelTakes
        \/ \E f \in kernel : KernelReturns(f)

Spec == Init /\ [][Next]_vars

-----------------------------------------------------------------------------
(* Properties *)

\* The reference count of a frame is the number of places that hold it: fork,
\* exec and exit, also when they fail, neither leak a frame nor free one that is in use.
FramesExact ==
  \A f \in Frame \ {NoFrame} :
    memory.refs[f] = Cardinality({h \in Tasks \X Slots : space[h[1]].at[h[2]] = f})
                     + (IF f \in kernel THEN 1 ELSE 0)

\* Every task finds in its pages what it, or its ancestors before they forked it, last
\* put there: sharing frames copy-on-write is not visible.
Isolation ==
  \A t \in Tasks, p \in Pages :
    space[t].flags[p] # "none" => data[space[t].at[p]] = view[t][p]

=============================================================================
