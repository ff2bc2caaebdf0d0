----------------------------- MODULE ExecLoops ------------------------------
(***************************************************************************)
(* fork, exec and the release of an address space, one palloc call at a    *)
(* time as exec.c, paging.c and kstack.c make them, with their error       *)
(* paths. The steps of AddressSpace, which give the effect of a whole call *)
(* at once, are compared with them.                                        *)
(*                                                                         *)
(* A state of a call is a record: the memory m, the address space sp that  *)
(* is being built or taken apart, and whether the call is still going well.*)
(***************************************************************************)
EXTENDS MCAddressSpace

Lowest(S) == CHOOSE f \in S : \A g \in S : f <= g

\* palloc_alloc_page: frame 0 stands for failure.
AllocPage(m) ==
  LET above == {f \in FreeIn(m) : f >= m.next}
  IN  IF above # {} THEN Lowest(above) ELSE IF FreeIn(m) # {} THEN Lowest(FreeIn(m)) ELSE NoFrame

AfterAlloc(m) ==
  LET f == AllocPage(m)
  IN  IF f = NoFrame THEN m ELSE [refs |-> [m.refs EXCEPT ![f] = 1], next |-> f + 1]

FreePage(m, f) ==
  IF f = NoFrame \/ m.refs[f] = 0 THEN m
  ELSE [refs |-> [m.refs EXCEPT ![f] = @ - 1],
        next |-> IF m.refs[f] = 1 /\ f < m.next THEN f ELSE m.next]

\* A frame for a slot of the address space.
AllocSlot(c, slot) ==
  [m |-> AfterAlloc(c.m), sp |-> [c.sp EXCEPT !.at[slot] = AllocPage(c.m)], ok |-> AllocPage(c.m) # NoFrame]

FreeSlot(c, slot) ==
  [c EXCEPT !.m = FreePage(@, c.sp.at[slot]), !.sp.at[slot] = NoFrame]

\* Mutant: the reference to the page is kept when the page table is missing.
MapPageLeaks(c, page, frame, flag) ==
  LET d == IF c.sp.at[Table] = NoFrame THEN AllocSlot(c, Table) ELSE c
  IN  IF d.ok THEN [d EXCEPT !.sp.at[page] = frame, !.sp.flags[page] = flag, !.sp.image = Append(@, page)]
      ELSE d

\* paging_map_page_in, with the page table when there is none, and exec_track_mapping.
MapPage(c, page, frame, flag) ==
  LET d == IF c.sp.at[Table] = NoFrame THEN AllocSlot(c, Table) ELSE c
  IN  IF d.ok THEN [d EXCEPT !.sp.at[page] = frame, !.sp.flags[page] = flag, !.sp.image = Append(@, page)]
      ELSE [d EXCEPT !.m = FreePage(@, frame)]

RECURSIVE ReleasePages(_, _)
ReleasePages(c, pages) ==
  IF pages = <<>> THEN c
  ELSE LET page == Head(pages)
           d == IF c.sp.flags[page] = "none" THEN c
                ELSE [FreeSlot(c, page) EXCEPT !.sp.flags[page] = "none"]
       IN  ReleasePages(d, Tail(pages))

exec_release_image(c) == [ReleasePages(c, c.sp.image) EXCEPT !.sp.image = <<>>]

paging_destroy_address_space(c) == FreeSlot(FreeSlot(c, Table), Directory)

RECURSIVE FreeStack(_, _)
FreeStack(c, pages) == IF pages = <<>> THEN c ELSE FreeStack(FreeSlot(c, Head(pages)), Tail(pages))

\* kstack_alloc gives back the pages it has when one is missing.
RECURSIVE AllocStack(_, _)
AllocStack(c, pages) ==
  IF pages = <<>> THEN c
  ELSE LET d == AllocSlot(c, Head(pages))
       IN  IF d.ok THEN AllocStack(d, Tail(pages))
           ELSE [FreeStack(d, KernelStack) EXCEPT !.ok = FALSE]

task_release_resources(c) == FreeStack(paging_destroy_address_space(exec_release_image(c)), KernelStack)

-----------------------------------------------------------------------------
\* exec_map_segment and exec_map_stack for the pages of a program; reading the file
\* fails after a number of pages.
RECURSIVE LoadPages(_, _, _, _)
LoadPages(c, program, i, readable) ==
  IF i > Len(program.pages) \/ ~c.ok THEN c
  ELSE IF i > readable THEN [c EXCEPT !.ok = FALSE]
  ELSE LET page == program.pages[i]
           frame == AllocPage(c.m)
           d == [c EXCEPT !.m = AfterAlloc(@), !.ok = frame # NoFrame]
           flag == IF page \in program.writable THEN "rw" ELSE "ro"
       IN  LoadPages(IF d.ok THEN MapPage(d, page, frame, flag) ELSE d, program, i + 1, readable)

\* proc_sys_execv: the new address space is built beside the old one, which is released
\* when that has worked.
ExecLoop(m, old, program, readable) ==
  LET start == AllocSlot([m |-> m, sp |-> NoSpace, ok |-> TRUE], Directory)
      new == LoadPages(start, program, 1, readable)
      failed == [paging_destroy_address_space(exec_release_image(new)) EXCEPT !.ok = FALSE]
      released == paging_destroy_address_space(exec_release_image([m |-> new.m, sp |-> old, ok |-> TRUE]))
  IN  IF ~new.ok THEN [m |-> failed.m, sp |-> old, ok |-> FALSE]
      ELSE [m |-> released.m,
            sp |-> [new.sp EXCEPT !.at = [s \in Slots |-> IF s \in StackPages THEN old.at[s] ELSE @[s]]],
            ok |-> TRUE]

-----------------------------------------------------------------------------
\* exec_clone_image: c.sp is the child, parent the address space it is cloned from.
RECURSIVE ClonePages(_, _, _)
ClonePages(c, parent, i) ==
  IF i > Len(parent.image) THEN [c |-> c, parent |-> parent]
  ELSE LET page == parent.image[i]
           frame == parent.at[page]
           flag == IF parent.flags[page] = "rw" THEN "cow" ELSE parent.flags[page]
           source == [parent EXCEPT !.flags[page] = flag]
           d == MapPage([c EXCEPT !.m.refs[frame] = @ + 1], page, frame, flag)
       IN  IF d.ok THEN ClonePages(d, source, i + 1)
           ELSE [c |-> [exec_release_image(d) EXCEPT !.ok = FALSE], parent |-> source]

\* proc_sys_fork
ForkLoop(m, parent) ==
  LET stacked == AllocStack([m |-> m, sp |-> NoSpace, ok |-> TRUE], KernelStack)
      created == AllocSlot(stacked, Directory)
      cloned == ClonePages(created, parent, 1)
  IN  IF ~stacked.ok THEN [c |-> stacked, parent |-> parent]
      ELSE IF ~created.ok THEN [c |-> task_release_resources(created), parent |-> parent]
      ELSE IF ~cloned.c.ok THEN [c |-> task_release_resources(cloned.c), parent |-> cloned.parent]
      ELSE cloned

-----------------------------------------------------------------------------
ForkAgrees(t) ==
  LET loop == ForkLoop(memory, space[t])
  IN  /\ \A child \in Tasks : Fork(t, child) =>
           /\ loop.c.ok /\ memory' = loop.c.m
           /\ space'[t] = loop.parent /\ space'[child] = loop.c.sp
      /\ ForkFails(t) =>
           /\ ~loop.c.ok /\ loop.c.sp = NoSpace /\ memory' = loop.c.m
           /\ space' = [space EXCEPT ![t] = loop.parent]

ExecAgrees(t, program) ==
  /\ Exec(t, program) =>
       LET loop == ExecLoop(memory, space[t], program, Len(program.pages))
       IN  loop.ok /\ memory' = loop.m /\ space'[t] = loop.sp
  /\ ExecFails(program) =>
       \/ memory' = memory
       \/ \E readable \in 0 .. Len(program.pages) :
            LET loop == ExecLoop(memory, space[t], program, readable)
            IN  memory' = loop.m /\ space[t] = loop.sp

ReleaseAgrees(t) ==
  LET loop == task_release_resources([m |-> memory, sp |-> space[t], ok |-> TRUE])
  IN  Release(t) => memory' = loop.m /\ space'[t] = loop.sp

\* A fork or exec, whether it succeeds, runs out of memory or cannot read its file, and
\* the release of a task have the effect of the calls that proc_sys_fork, proc_sys_execv and
\* task_release_resources make one after the other, error paths included: the same frames
\* are given out, and the same counts and mappings result.
CallLoopsAgree ==
  [][\A t \in Live : /\ ForkAgrees(t)
                     /\ \A program \in Programs : ExecAgrees(t, program)
                     /\ ReleaseAgrees(t)]_vars

=============================================================================
