---------------------------- MODULE PallocProofs ----------------------------
(***************************************************************************)
(* Proofs about the page frame allocator, for any memory map: its books    *)
(* agree, and it hands out only frames that nobody holds.                  *)
(***************************************************************************)
EXTENDS Palloc, FiniteSetTheorems, TLAPS

\* The books stay in agreement only from states of the right types.
Inv == TypeOK /\ BooksAgree

\* There are finitely many frames, hence finitely many unused ones.
LEMMA FramesFinite == IsFiniteSet(Frame) /\ \A S \in SUBSET Frame : IsFiniteSet(S) /\ Cardinality(S) \in Nat
<1>1. IsFiniteSet(Frame)
  BY FramesAssumption, FS_Interval DEF Frame
<1>2. QED
  BY <1>1, FS_Subset, FS_CardinalityType

\* A run has as many frames as were asked for.
LEMMA RunSize ==
  ASSUME NEW start \in Nat, NEW n \in Nat \ {0}
  PROVE  IsFiniteSet(Run(start, n)) /\ Cardinality(Run(start, n)) = n
BY FS_Interval DEF Run

\* Handing out a run of unused frames keeps the books in agreement.
LEMMA GrantKeepsInv ==
  ASSUME Inv, NEW run \in SUBSET Unused, Grant(run), Cardinality(run) \in {1} \cup RunLengths,
         next_search_frame' \in 0 .. FrameCount
  PROVE  Inv'
<1> USE DEF Inv, Unused
<1>1. run \in SUBSET Frame /\ run \cap used = {}
  BY DEF TypeOK
<1>2. (Frame \ used) \ run = Frame \ used' /\ run = (Frame \ used) \cap run
  BY <1>1 DEF Grant
<1>3. IsFiniteSet(Frame \ used) /\ IsFiniteSet(run)
  BY <1>1, FramesFinite
<1>4. Cardinality(Frame \ used') = Cardinality(Frame \ used) - Cardinality(run)
  BY <1>2, <1>3, FS_Difference
<1>5. Cardinality(Frame \ used') \in Nat /\ Cardinality(run) \in Nat
  BY <1>1, FramesFinite
<1>6. TypeOK'
  <2>1. used' \subseteq Frame /\ frame_refcounts' \in [Frame -> Nat]
    BY <1>1 DEF Grant, TypeOK
  <2>2. free_frames' \in Nat
    BY <1>4, <1>5 DEF Grant, BooksAgree
  <2>3. result' \in [asked : {1} \cup RunLengths, run : SUBSET Frame]
    BY <1>1 DEF Grant
  <2>4. QED
    BY <2>1, <2>2, <2>3 DEF TypeOK
<1>7. BooksAgree'
  <2>1. used' = {f \in Frame : frame_refcounts'[f] # 0}
    BY <1>1 DEF Grant, BooksAgree, TypeOK
  <2>2. Frame \ Usable \subseteq used'
    BY DEF Grant, BooksAgree
  <2>3. result'.run = run /\ run \cap Reserved = {}
    BY <1>1 DEF Grant, BooksAgree, Usable
  <2>4. free_frames' = Cardinality(Frame \ used')
    BY <1>4 DEF Grant, BooksAgree
  <2>5. QED
    BY <2>1, <2>2, <2>3, <2>4 DEF BooksAgree
<1>8. QED
  BY <1>6, <1>7

\* What the search for one frame finds is unused.
LEMMA FoundFrameUnused ==
  ASSUME NEW f \in Frame, FoundFrame(f)
  PROVE  f \in Unused /\ {f} \in SUBSET Unused /\ Cardinality({f}) = 1
<1>1. f \in Unused
  BY DEF FoundFrame, IsLowest
<1>2. QED
  BY <1>1, FS_Singleton

\* What the search for a run finds is a run of unused frames.
LEMMA FoundRunUnused ==
  ASSUME Inv, NEW s \in Frame, NEW n \in RunLengths, FoundRun(s, n)
  PROVE  /\ Run(s, n) \in SUBSET Unused
         /\ s + n \in 0 .. FrameCount
         /\ Cardinality(Run(s, n)) = n
<1>1. s \in Nat /\ n \in Nat \ {0} /\ FrameCount \in Nat /\ next_search_frame \in 0 .. FrameCount
  BY FramesAssumption, PallocAssumption DEF Frame, Inv, TypeOK
<1>2. \/ s \in RunStarts(next_search_frame, FrameCount, n)
      \/ s \in RunStarts(0, next_search_frame, n)
  BY DEF FoundRun, IsLowest
<1>3. Run(s, n) \in SUBSET Unused /\ s + n \in 0 .. FrameCount
  BY <1>1, <1>2 DEF RunStarts
<1>4. QED
  BY <1>1, <1>3, RunSize

\* A run that the search for n frames misses lies across the place where it starts, or
\* there are fewer than n unused frames.
LEMMA MissedRuns ==
  ASSUME Inv, NEW n \in RunLengths, n > free_frames \/ NoRun(n),
         NEW s \in Frame, Run(s, n) \subseteq Unused
  PROVE  next_search_frame \in s + 1 .. s + n - 1
<1>1. /\ s \in Nat /\ n \in Nat \ {0} /\ FrameCount \in Nat
      /\ next_search_frame \in 0 .. FrameCount /\ free_frames \in Nat
  BY FramesAssumption, PallocAssumption DEF Frame, Inv, TypeOK
<1>2. n <= free_frames
  <2>1. IsFiniteSet(Unused) /\ Cardinality(Unused) = free_frames
    BY FramesFinite DEF Unused, Inv, BooksAgree
  <2>2. Cardinality(Run(s, n)) = n
    BY <1>1, RunSize
  <2>3. QED
    BY <2>1, <2>2, FS_Subset
<1>3. NoRun(n)
  BY <1>1, <1>2
<1>4. s + n <= FrameCount
  <2>1. s + n - 1 \in Run(s, n)
    BY <1>1 DEF Run
  <2>2. QED
    BY <1>1, <2>1 DEF Unused, Frame
<1>5. ~(s >= next_search_frame)
  BY <1>1, <1>3, <1>4 DEF NoRun, RunStarts
<1>6. ~(s + n <= next_search_frame)
  BY <1>1, <1>3, <1>4 DEF NoRun, RunStarts
<1>7. QED
  BY <1>1, <1>5, <1>6

\* A step that fails changes only the result.
LEMMA FailKeepsInv ==
  ASSUME Inv, NEW n \in {1} \cup RunLengths, Fail(n)
  PROVE  Inv'
BY DEF Inv, TypeOK, BooksAgree, Fail

\* The books agree when palloc_init is done.
LEMMA InitInv == Init => Inv
<1> SUFFICES ASSUME Init PROVE Inv
  OBVIOUS
<1>1. Usable \in SUBSET Frame /\ Frame \ (Frame \ Usable) = Usable
  BY PallocAssumption DEF Usable
<1>2. Cardinality(Usable) \in Nat
  BY <1>1, FramesFinite
<1>3. TypeOK
  BY <1>2, PallocAssumption DEF Init, TypeOK
<1>4. BooksAgree
  BY <1>1 DEF Init, BooksAgree
<1>5. QED
  BY <1>3, <1>4 DEF Inv

\* palloc_free_page keeps the books in agreement.
LEMMA FreeKeepsInv ==
  ASSUME Inv, NEW f \in Usable, palloc_free_page(f)
  PROVE  Inv'
<1>1. f \in Frame /\ f \in used /\ frame_refcounts[f] \in Nat \ {0} /\ frame_refcounts \in [Frame -> Nat]
  BY DEF palloc_free_page, Inv, TypeOK
<1>2. CASE frame_refcounts[f] = 1
  <2>1. used' = used \ {f} /\ frame_refcounts' = [frame_refcounts EXCEPT ![f] = 0]
    BY <1>1, <1>2 DEF palloc_free_page
  <2>2. Frame \ used' = (Frame \ used) \cup {f} /\ f \notin Frame \ used
    BY <1>1, <2>1
  <2>3. IsFiniteSet(Frame \ used) /\ Cardinality(Frame \ used) \in Nat
    BY FramesFinite
  <2>4. Cardinality(Frame \ used') = Cardinality(Frame \ used) + 1
    BY <2>2, <2>3, FS_AddElement
  <2>5. free_frames' = free_frames + 1 /\ result' = result /\ next_search_frame' \in 0 .. FrameCount
    BY <1>1, <1>2, FramesAssumption DEF palloc_free_page, Inv, TypeOK, Frame
  <2>6. TypeOK'
    BY <1>1, <2>1, <2>5 DEF Inv, TypeOK
  <2>7. used' = {g \in Frame : frame_refcounts'[g] # 0}
    BY <1>1, <2>1 DEF Inv, BooksAgree
  <2>8. Frame \ Usable \subseteq used'
    BY <2>1 DEF Inv, BooksAgree
  <2>9. QED
    BY <2>4, <2>5, <2>6, <2>7, <2>8 DEF Inv, BooksAgree
<1>3. CASE frame_refcounts[f] # 1
  <2>1. /\ frame_refcounts' = [frame_refcounts EXCEPT ![f] = @ - 1]
        /\ UNCHANGED <<used, free_frames, next_search_frame, result>>
    BY <1>3 DEF palloc_free_page
  <2>2. frame_refcounts[f] - 1 \in Nat \ {0}
    BY <1>1, <1>3
  <2>3. frame_refcounts' \in [Frame -> Nat] /\ {g \in Frame : frame_refcounts'[g] # 0} = {g \in Frame : frame_refcounts[g] # 0}
    BY <1>1, <2>1, <2>2
  <2>4. QED
    BY <2>1, <2>3 DEF Inv, TypeOK, BooksAgree
<1>4. QED
  BY <1>2, <1>3

\* palloc_retain_page keeps the books in agreement.
LEMMA RetainKeepsInv ==
  ASSUME Inv, NEW f \in Usable, palloc_retain_page(f)
  PROVE  Inv'
<1>1. f \in Frame /\ frame_refcounts \in [Frame -> Nat] /\ frame_refcounts[f] \in Nat \ {0}
  BY DEF palloc_retain_page, Inv, TypeOK
<1>2. frame_refcounts' \in [Frame -> Nat] /\ {g \in Frame : frame_refcounts'[g] # 0} = {g \in Frame : frame_refcounts[g] # 0}
  BY <1>1 DEF palloc_retain_page
<1>3. QED
  BY <1>2 DEF palloc_retain_page, Inv, TypeOK, BooksAgree

\* Every step keeps the books in agreement.
LEMMA NextInv == Inv /\ [Next]_vars => Inv'
<1> SUFFICES ASSUME Inv, [Next]_vars PROVE Inv'
  OBVIOUS
<1>1. ASSUME palloc_alloc_page PROVE Inv'
  <2>1. CASE Unused = {} /\ Fail(1)
    BY <2>1, FailKeepsInv
  <2>2. ASSUME NEW f \in Frame, FoundFrame(f), Grant({f}), next_search_frame' = f + 1 PROVE Inv'
    <3>1. next_search_frame' \in 0 .. FrameCount
      BY <2>2, FramesAssumption DEF Frame
    <3>2. QED
      BY <2>2, <3>1, FoundFrameUnused, GrantKeepsInv
  <2>3. QED
    BY <1>1, <2>1, <2>2 DEF palloc_alloc_page
<1>2. ASSUME NEW n \in RunLengths, palloc_alloc_pages(n) PROVE Inv'
  <2>1. CASE Fail(n)
    BY <2>1, FailKeepsInv
  <2>2. ASSUME NEW s \in Frame, FoundRun(s, n), Grant(Run(s, n)), next_search_frame' = s + n PROVE Inv'
    BY <2>2, FoundRunUnused, GrantKeepsInv
  <2>3. QED
    BY <1>2, <2>1, <2>2 DEF palloc_alloc_pages
<1>3. CASE UNCHANGED vars
  BY <1>3 DEF vars, Inv, TypeOK, BooksAgree
<1>4. QED
  BY <1>1, <1>2, <1>3, FreeKeepsInv, RetainKeepsInv DEF Next

\* The bitmap, the reference counts and free_frames of palloc.c always agree, and no
\* reserved frame is handed out, whatever the memory map and the order of calls.
THEOREM BooksAlwaysAgree == Spec => [](TypeOK /\ BooksAgree)
<1>1. Spec => []Inv
  BY InitInv, NextInv, PTL DEF Spec
<1>2. QED
  BY <1>1, PTL DEF Inv

-----------------------------------------------------------------------------
\* Every step of palloc is one that its abstract specification allows.
LEMMA StepAllocates == Inv /\ [Next]_vars => [Allocator!Next]_<<frame_refcounts, result>>
<1> SUFFICES ASSUME Inv, [Next]_vars PROVE [Allocator!Next]_<<frame_refcounts, result>>
  OBVIOUS
<1>1. Allocator!Free = Unused
  BY DEF Allocator!Free, Unused, Inv, BooksAgree, TypeOK
<1>2. ASSUME NEW s \in Frame, NEW n \in {1} \cup RunLengths, Run(s, n) \in SUBSET Unused,
             Cardinality(Run(s, n)) = n, Grant(Run(s, n))
      PROVE  Allocator!Next
  <2>1. /\ Run(s, n) \subseteq Allocator!Free
        /\ result' = [asked |-> n, run |-> Run(s, n)]
        /\ frame_refcounts' = [f \in Frame |-> IF f \in Run(s, n) THEN 1 ELSE frame_refcounts[f]]
    BY <1>1, <1>2 DEF Grant
  <2>2. Allocator!Alloc(n)
    BY <2>1 DEF Allocator!Alloc, Run
  <2>3. QED
    BY <2>2 DEF Allocator!Next
<1>3. ASSUME NEW n \in {1} \cup RunLengths, Fail(n), Allocator!AllAcross(n) PROVE Allocator!Next
  <2>1. Allocator!Alloc(n)
    BY <1>1, <1>3 DEF Allocator!Alloc, Fail
  <2>2. QED
    BY <2>1 DEF Allocator!Next
<1>4. ASSUME palloc_alloc_page PROVE Allocator!Next
  <2>1. CASE Unused = {} /\ Fail(1)
    <3>1. 0 \in Frame /\ \A start \in Frame : start \in start .. start + 1 - 1
      BY FramesAssumption DEF Frame
    <3>2. Allocator!AllAcross(1)
      BY <1>1, <2>1, <3>1 DEF Allocator!AllAcross
    <3>3. QED
      BY <2>1, <3>2, <1>3
  <2>2. ASSUME NEW f \in Frame, FoundFrame(f), Grant({f}) PROVE Allocator!Next
    <3>1. Run(f, 1) = {f}
      BY FramesAssumption DEF Run, Frame
    <3>2. QED
      BY <2>2, <3>1, <1>2, FoundFrameUnused
  <2>3. QED
    BY <1>4, <2>1, <2>2 DEF palloc_alloc_page
<1>5. ASSUME NEW n \in RunLengths, palloc_alloc_pages(n) PROVE Allocator!Next
  <2>1. CASE (n > free_frames \/ NoRun(n)) /\ Fail(n)
    <3>1. \A s \in Frame : Run(s, n) \subseteq Unused => next_search_frame \in s + 1 .. s + n - 1
      BY <2>1, MissedRuns
    <3>2. CASE next_search_frame \in Frame
      BY <1>1, <1>3, <2>1, <3>1, <3>2 DEF Allocator!AllAcross, Run
    <3>3. CASE next_search_frame \notin Frame
      <4>1. /\ n \in Nat \ {0} /\ FrameCount \in Nat \ {0}
            /\ next_search_frame \in 0 .. FrameCount
        BY FramesAssumption, PallocAssumption DEF Inv, TypeOK
      <4>2. next_search_frame = FrameCount /\ 0 \in Frame
        BY <3>3, <4>1 DEF Frame
      <4>3. ASSUME NEW s \in Frame, Run(s, n) \subseteq Unused PROVE FALSE
        <5>1. s + n - 1 \in Frame /\ s \in Nat
          BY <4>1, <4>3 DEF Run, Unused, Frame
        <5>2. QED
          BY <3>1, <4>1, <4>2, <4>3, <5>1 DEF Frame
      <4>4. Allocator!AllAcross(n)
        BY <1>1, <4>2, <4>3 DEF Allocator!AllAcross, Run
      <4>5. QED
        BY <2>1, <4>4, <1>3
    <3>4. QED
      BY <3>2, <3>3
  <2>2. ASSUME NEW s \in Frame, FoundRun(s, n), Grant(Run(s, n)) PROVE Allocator!Next
    BY <2>2, <1>2, FoundRunUnused
  <2>3. QED
    BY <1>5, <2>1, <2>2 DEF palloc_alloc_pages
<1>6. ASSUME NEW f \in Usable, palloc_retain_page(f) PROVE Allocator!Next
  <2>1. f \in Frame /\ Allocator!Share(f)
    BY <1>6, PallocAssumption DEF palloc_retain_page, Allocator!Share, Usable
  <2>2. QED
    BY <2>1 DEF Allocator!Next
<1>7. ASSUME NEW f \in Usable, palloc_free_page(f) PROVE Allocator!Next
  <2>1. f \in Frame /\ Allocator!Release(f)
    BY <1>7, PallocAssumption DEF palloc_free_page, Allocator!Release, Usable
  <2>2. QED
    BY <2>1 DEF Allocator!Next
<1>8. CASE UNCHANGED vars
  BY <1>8 DEF vars
<1>9. QED
  BY <1>4, <1>5, <1>6, <1>7, <1>8 DEF Next

\* palloc implements the abstract allocator for any memory map: it returns only frames
\* that nobody holds, a shared frame stays with its other holders, a single frame is
\* refused only when all are in use, and frames in a row only when all runs that are long
\* enough lie across one place.
THEOREM PallocRefines == Spec => PallocAllocates
<1>1. Spec => []Inv
  BY InitInv, NextInv, PTL DEF Spec
<1>2. QED
  BY <1>1, StepAllocates, PTL DEF Spec, PallocAllocates

=============================================================================
