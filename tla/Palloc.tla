------------------------------- MODULE Palloc -------------------------------
(***************************************************************************)
(* The page frame allocator, src/kernel/palloc.c: a bitmap, a reference    *)
(* count for each frame, the number of free frames and the place where     *)
(* the next search starts. Its callers give back only what they hold.      *)
(***************************************************************************)
EXTENDS Frames

CONSTANTS
  MemoryMap,  \* the frames the memory map reports as available
  Reserved,    \* the frames palloc_init takes out again: low memory, the kernel, boot data
  KernelEnd,   \* the frame after the kernel, where the first search starts
  RunLengths,  \* numbers of frames asked of palloc_alloc_pages
  MaxRefs      \* bound: references to one frame

ASSUME PallocAssumption == /\ MemoryMap \subseteq Frame /\ Reserved \subseteq Frame
                           /\ 0 \in Reserved
                           /\ KernelEnd \in 0 .. FrameCount
                           /\ RunLengths \subseteq Nat \ {0, 1}
                           /\ MaxRefs \in Nat

VARIABLES
  used,               \* frame_bitmap
  frame_refcounts,
  free_frames,
  next_search_frame,
  result              \* how many frames the last allocation asked for, and those it returned

vars == <<used, frame_refcounts, free_frames, next_search_frame, result>>

Usable == MemoryMap \ Reserved

\* palloc_init
Init == /\ used = Frame \ Usable
        /\ frame_refcounts = [f \in Frame |-> IF f \in Usable THEN 0 ELSE 1]
        /\ free_frames = Cardinality(Usable)
        /\ next_search_frame = KernelEnd
        /\ result = [asked |-> 1, run |-> {}]

Unused == Frame \ used
IsLowest(f, S) == f \in S /\ \A g \in S : f <= g

\* The frames of the first loop of a search and, when there are none, of the second.
FoundFrame(f) ==
  \/ IsLowest(f, {g \in Unused : g >= next_search_frame})
  \/ /\ {g \in Unused : g >= next_search_frame} = {}
     /\ IsLowest(f, {g \in Unused : g < next_search_frame})

Grant(run) == /\ used' = used \cup run
              /\ frame_refcounts' = [f \in Frame |-> IF f \in run THEN 1 ELSE frame_refcounts[f]]
              /\ free_frames' = free_frames - Cardinality(run)
              /\ result' = [asked |-> Cardinality(run), run |-> run]

Fail(n) == /\ result' = [asked |-> n, run |-> {}]
           /\ UNCHANGED <<used, frame_refcounts, free_frames, next_search_frame>>

\* Mutant: the search does not come back to the frames before its start.
AllocPageNoWrap ==
  \/ \E f \in Frame : /\ IsLowest(f, {g \in Unused : g >= next_search_frame})
                      /\ Grant({f})
                      /\ next_search_frame' = f + 1
  \/ {g \in Unused : g >= next_search_frame} = {} /\ Fail(1)

palloc_alloc_page ==
  \/ \E f \in Frame : FoundFrame(f) /\ Grant({f}) /\ next_search_frame' = f + 1
  \/ Unused = {} /\ Fail(1)

Run(start, n) == start .. start + n - 1

\* Where runs of n unused frames start, from first on and ending before limit.
RunStarts(first, limit, n) == {s \in first .. limit - n : Run(s, n) \subseteq Unused}

\* The first run after the start of the search, or else the first that ends before it.
FoundRun(s, n) ==
  LET above == RunStarts(next_search_frame, FrameCount, n)
  IN  \/ IsLowest(s, above)
      \/ above = {} /\ IsLowest(s, RunStarts(0, next_search_frame, n))

NoRun(n) == /\ RunStarts(next_search_frame, FrameCount, n) = {}
            /\ RunStarts(0, next_search_frame, n) = {}

palloc_alloc_pages(n) ==
  \/ /\ n <= free_frames
     /\ \E s \in Frame : FoundRun(s, n) /\ Grant(Run(s, n)) /\ next_search_frame' = s + n
  \/ /\ n > free_frames \/ NoRun(n)
     /\ Fail(n)

palloc_retain_page(f) == /\ f \in used /\ frame_refcounts[f] # 0
                         /\ frame_refcounts[f] < MaxRefs
                         /\ frame_refcounts' = [frame_refcounts EXCEPT ![f] = @ + 1]
                         /\ UNCHANGED <<used, free_frames, next_search_frame, result>>

palloc_free_page(f) ==
  /\ f \in used /\ frame_refcounts[f] # 0
  /\ frame_refcounts' = [frame_refcounts EXCEPT ![f] = @ - 1]
  /\ IF frame_refcounts[f] = 1
       THEN /\ used' = used \ {f} /\ free_frames' = free_frames + 1
            /\ next_search_frame' = IF f < next_search_frame THEN f ELSE next_search_frame
       ELSE UNCHANGED <<used, free_frames, next_search_frame>>
  /\ UNCHANGED result

\* Nobody holds the reserved frames.
Next == \/ palloc_alloc_page
        \/ \E n \in RunLengths : palloc_alloc_pages(n)
        \/ \E f \in Usable : palloc_retain_page(f) \/ palloc_free_page(f)

Spec == Init /\ [][Next]_vars

-----------------------------------------------------------------------------
\* Type invariant.
TypeOK == /\ used \subseteq Frame
          /\ frame_refcounts \in [Frame -> Nat]
          /\ free_frames \in Nat
          /\ next_search_frame \in 0 .. FrameCount
          /\ result \in [asked : {1} \cup RunLengths, run : SUBSET Frame]

\* The bitmap, the reference counts and free_frames tell the same story, and
\* nothing that is reserved or was never available is handed out. free_frames decides
\* whether palloc_alloc_pages searches at all.
BooksAgree == /\ used = {f \in Frame : frame_refcounts[f] # 0}
              /\ free_frames = Cardinality(Frame \ used)
              /\ Frame \ Usable \subseteq used
              /\ result.run \cap Reserved = {}

Allocator == INSTANCE FrameAllocator WITH holders <- frame_refcounts

\* palloc hands out only frames that nobody holds and never gives up a shared frame.
\* palloc_alloc_page fails only when no frame is free, palloc_alloc_pages only when every
\* run of free frames that is long enough lies across the start of the search, which
\* neither of its two loops looks at.
PallocAllocates == [][Allocator!Next]_<<frame_refcounts, result>>

=============================================================================
