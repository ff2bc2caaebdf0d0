--------------------------- MODULE MCAddressSpace ---------------------------
(***************************************************************************)
(* Two programs, one of them with a second writable page before its text.  *)
(* Which frame a page is on matters to no property, nor does what a free   *)
(* frame contains: Shape is a state up to the names of its frames.         *)
(***************************************************************************)
EXTENDS AddressSpace

CONSTANTS text, bss, stack, low, high

MCKernelStack == <<low, high>>
MCPrograms == {[pages |-> <<text, stack>>, writable |-> {stack}],
               [pages |-> <<bss, text, stack>>, writable |-> {bss, stack}]}

SharedBy(f) == IF f = NoFrame THEN {} ELSE {h \in Tasks \X Pages : space[h[1]].at[h[2]] = f}

Shape ==
  <<[h \in Tasks \X Slots |-> LET f == space[h[1]].at[h[2]] IN <<SharedBy(f), memory.refs[f], data[f]>>],
    [t \in Tasks |-> <<space[t].flags, space[t].image>>],
    view, Cardinality(kernel), Cardinality(FreeIn(memory))>>

=============================================================================
