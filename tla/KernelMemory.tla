---------------------------- MODULE KernelMemory ----------------------------
(***************************************************************************)
(* The kernel's own virtual memory: the heap of kheap.c (a doubly linked   *)
(* list of blocks in a region that grows by whole pages), the kernel       *)
(* stacks of kstack.c (slots of a guard page and data pages) and the       *)
(* window of device registers of mmio.c. All three take page-table entries *)
(* of the tables that paging_init prepares for the whole region, so that   *)
(* paging_map_page cannot fail here, and the first two take their frames   *)
(* from palloc, of which the rest of the kernel leaves them more or less.  *)
(*                                                                         *)
(* Addresses are numbers, 0 is the null pointer, and arithmetic on them is *)
(* modulo SPACE (32 bits in the code). committed_pages feeds only a boot   *)
(* message and is left out.                                                *)
(***************************************************************************)
EXTENDS Naturals, Sequences, FiniteSets, FiniteSetsExt, SequencesExt

CONSTANTS
  SPACE, PAGE_SIZE,                      \* size of the address space, size of a page
  HEADER, KHEAP_ALIGN,                   \* sizeof(kheap_block_t), granule of a payload
  KHEAP_INITIAL_PAGES,                   \* the heap grows by at least this much
  KERNEL_MMIO_BASE, KERNEL_MMIO_LIMIT,
  KERNEL_HEAP_BASE, KERNEL_HEAP_LIMIT,
  KERNEL_STACK_BASE, KERNEL_STACK_LIMIT,
  KSTACK_GUARD_PAGES, KSTACK_DATA_PAGES,
  Pools,            \* the sets of frames (RAM pages) that the rest of the kernel leaves
  Sizes,            \* sizes asked of kmalloc
  Regions,          \* <<address, length>> of the device registers drivers map
  MaxRegions, MaxHeld

VARIABLES
  pool,             \* history: the frames that there are, one of Pools
  free,             \* frames that palloc would hand out
  pages,            \* the kernel's page table entries: virtual page -> physical page
  heap,             \* the heap: [booted, ready, head, end, blocks]
  slots,            \* kstack_slots
  mmio,             \* mmio_next_virtual
  held,             \* what callers of kmalloc hold: pointer -> size they asked for
  stacks,           \* what callers of kstack_alloc hold: [guard_base, stack_base]
  regions           \* what drivers were given: <<virtual address, region>>

vars == <<pool, free, pages, heap, slots, mmio, held, stacks, regions>>

AlignUp(value, alignment) == ((value + alignment - 1) \div alignment) * alignment
AlignDown(value, alignment) == (value \div alignment) * alignment

\* paging_map_page on one entry after the other: what was there is overwritten.
MapPages(p, base, physical) ==
  LET at(i) == base + (i - 1) * PAGE_SIZE
      new == {at(i) : i \in 1..Len(physical)}
  IN [v \in DOMAIN p \union new |->
        IF v \in new THEN physical[(v - base) \div PAGE_SIZE + 1] ELSE p[v]]
UnmapPages(p, gone) == [v \in DOMAIN p \ gone |-> p[v]]

\* palloc_alloc_page, when a frame is free: which one makes no difference here.
NextFrame(available) == Min(available)

-----------------------------------------------------------------------------
(* kheap.c *)

KHEAP_MIN_SPLIT == HEADER + KHEAP_ALIGN
Null == 0

\* The list from heap_head on, as every loop of the code walks it.
Chain(h) ==
  LET from[a \in DOMAIN h.blocks \union {Null}] ==
        IF a = Null THEN <<>> ELSE <<a>> \o from[h.blocks[a].next]
  IN from[h.head]

Unlinked(blocks, a) == [b \in DOMAIN blocks \ {a} |-> blocks[b]]

Split(blocks, a, size) ==
  IF blocks[a].size < size + KHEAP_MIN_SPLIT THEN blocks
  ELSE LET tail == a + HEADER + size
           after == blocks[a].next
           rest == [size |-> blocks[a].size - size - HEADER, free |-> TRUE,
                    next |-> after, prev |-> a]
       IN [b \in DOMAIN blocks \union {tail} |->
             CASE b = tail -> rest
               [] b = a -> [blocks[a] EXCEPT !.size = size, !.next = tail]
               [] b = after -> [blocks[b] EXCEPT !.prev = tail]
               [] OTHER -> blocks[b]]

CoalesceForward(blocks, a) ==
  LET next == blocks[a].next
      merged == [blocks EXCEPT ![a].size = @ + HEADER + blocks[next].size,
                               ![a].next = blocks[next].next]
      after == blocks[next].next
  IN IF ~blocks[a].free \/ next = Null THEN blocks
     ELSE IF ~blocks[next].free THEN blocks
     ELSE Unlinked(IF after = Null THEN merged ELSE [merged EXCEPT ![after].prev = a], next)

Coalesce(blocks, a) ==
  LET prev == blocks[a].prev
  IN IF prev = Null THEN CoalesceForward(blocks, a)
     ELSE IF ~blocks[prev].free THEN CoalesceForward(blocks, a)
     ELSE CoalesceForward(CoalesceForward(blocks, prev), prev)

\* The count pages from base to heap_end become a free block at the end of the list,
\* joined to a free last block.
Grown(h, base, count) ==
  LET last == IF h.head = Null THEN Null ELSE Last(Chain(h))
      new == [size |-> count * PAGE_SIZE - HEADER, free |-> TRUE, next |-> Null, prev |-> last]
      linked == [b \in DOMAIN h.blocks \union {base} |->
                   CASE b = base -> new
                     [] b = last -> [h.blocks[b] EXCEPT !.next = base]
                     [] OTHER -> h.blocks[b]]
  IN [h EXCEPT !.head = IF last = Null THEN base ELSE @,
               !.blocks = IF last = Null THEN linked ELSE Coalesce(linked, base)]

\* The loops of kheap_expand, on m = [free, pages, end]. A turn of the first takes a frame
\* and maps it at heap_end; one of the second takes the last page away again.
GrowPage(m) ==
  LET frame == NextFrame(m.free)
  IN [free |-> m.free \ {frame}, pages |-> MapPages(m.pages, m.end, <<frame>>), end |-> m.end + PAGE_SIZE]

UndoPage(m) ==
  LET v == m.end - PAGE_SIZE
  IN IF v \in DOMAIN m.pages
       THEN [free |-> m.free \union {m.pages[v]}, pages |-> UnmapPages(m.pages, {v}), end |-> v]
       ELSE [m EXCEPT !.end = v]

RECURSIVE UndoPages(_, _)
UndoPages(m, mapped) == IF mapped = 0 THEN m ELSE UndoPages(UndoPage(m), mapped - 1)

\* Mutant: what could not be finished is left as it is.
FailedGrowthKept(m, mapped, base) == m

FailedGrowth(m, mapped, base) == [UndoPages(m, mapped) EXCEPT !.end = base]

RECURSIVE GrowPages(_, _, _, _)
GrowPages(m, mapped, count, base) ==
  IF mapped = count THEN [ok |-> TRUE, memory |-> m]
  ELSE IF m.free = {} THEN [ok |-> FALSE, memory |-> FailedGrowth(m, mapped, base)]
  ELSE GrowPages(GrowPage(m), mapped + 1, count, base)

\* kheap_expand
Expand(h, payload) ==
  LET wanted == AlignUp(payload + HEADER, PAGE_SIZE) \div PAGE_SIZE
      count == IF wanted < KHEAP_INITIAL_PAGES THEN KHEAP_INITIAL_PAGES ELSE wanted
      grown == GrowPages([free |-> free, pages |-> pages, end |-> h.end], 0, count, h.end)
      moved == [h EXCEPT !.end = grown.memory.end]
  IN IF h.end + count * PAGE_SIZE > KERNEL_HEAP_LIMIT
       THEN [ok |-> FALSE, heap |-> h, free |-> free, pages |-> pages]
       ELSE [ok |-> grown.ok, heap |-> IF grown.ok THEN Grown(moved, h.end, count) ELSE moved,
             free |-> grown.memory.free, pages |-> grown.memory.pages]

Fits(h, a, size) == h.blocks[a].free /\ h.blocks[a].size >= size

\* First fit; the heap grows at most once, because the block that kheap_expand adds is
\* large enough.
KmallocSearch(h, size) == SelectSeq(Chain(h), LAMBDA a : Fits(h, a, size))

Kmalloc(size) ==
  /\ Cardinality(DOMAIN held) < MaxHeld
  /\ heap.ready
  /\ LET aligned == AlignUp(size, KHEAP_ALIGN)
         grown == IF KmallocSearch(heap, aligned) # <<>>
                    THEN [ok |-> TRUE, heap |-> heap, free |-> free, pages |-> pages]
                    ELSE Expand(heap, aligned)
         a == Head(KmallocSearch(grown.heap, aligned))
     IN /\ IF grown.ok
             THEN /\ heap' = [grown.heap EXCEPT
                                !.blocks = [Split(@, a, aligned) EXCEPT ![a].free = FALSE]]
                  /\ held' = [p \in DOMAIN held \union {a + HEADER} |->
                                IF p = a + HEADER THEN size ELSE held[p]]
             ELSE heap' = grown.heap /\ UNCHANGED held
        /\ free' = grown.free
        /\ pages' = grown.pages
  /\ UNCHANGED <<pool, slots, mmio, stacks, regions>>

\* Callers free what they hold, once.
Kfree(pointer) ==
  /\ LET a == pointer - HEADER
     IN heap' = [heap EXCEPT !.blocks = Coalesce([@ EXCEPT ![a].free = TRUE], a)]
  /\ held' = [p \in DOMAIN held \ {pointer} |-> held[p]]
  /\ UNCHANGED <<pool, free, pages, slots, mmio, stacks, regions>>

-----------------------------------------------------------------------------
(* kstack.c *)

SlotSize == (KSTACK_GUARD_PAGES + KSTACK_DATA_PAGES) * PAGE_SIZE
SlotCount == (KERNEL_STACK_LIMIT - KERNEL_STACK_BASE) \div SlotSize
GuardBase(slot) == KERNEL_STACK_BASE + slot * SlotSize
StackBase(slot) == GuardBase(slot) + KSTACK_GUARD_PAGES * PAGE_SIZE
StackPages(base) == {base + i * PAGE_SIZE : i \in 0..KSTACK_DATA_PAGES - 1}

\* kstack_slots, a bit for each slot.
UnusedSlots == (0..SlotCount - 1) \ slots
FindSlot == Min(UnusedSlots)
MarkUsed(used, slot) == used \union {slot}
MarkFree(used, slot) == used \ {slot}

\* Mutant: the loop that gives the frames back ends one too early.
RollbackShort(available, taken) == available \union {taken[i] : i \in 1..Len(taken) - 1}

Rollback(available, taken) == available \union Range(taken)

\* The loop of kstack_alloc: frame after frame into physical_pages, or none.
RECURSIVE TakeFrames(_, _)
TakeFrames(available, taken) ==
  IF Len(taken) = KSTACK_DATA_PAGES THEN [ok |-> TRUE, free |-> available, physical_pages |-> taken]
  ELSE IF available = {} THEN [ok |-> FALSE, free |-> Rollback(available, taken), physical_pages |-> <<>>]
  ELSE TakeFrames(available \ {NextFrame(available)}, Append(taken, NextFrame(available)))

KstackAlloc ==
  LET slot == FindSlot
      marked == MarkUsed(slots, slot)
      got == TakeFrames(free, <<>>)
  IN /\ heap.booted
     /\ IF UnusedSlots = {} THEN UNCHANGED <<slots, free, pages, stacks>>
        ELSE /\ free' = got.free
             /\ IF got.ok
                  THEN /\ slots' = marked
                       /\ pages' = MapPages(pages, StackBase(slot), got.physical_pages)
                       /\ stacks' = stacks \union {[guard_base |-> GuardBase(slot),
                                                    stack_base |-> StackBase(slot)]}
                  ELSE slots' = MarkFree(marked, slot) /\ UNCHANGED <<pages, stacks>>
     /\ UNCHANGED <<pool, heap, mmio, held, regions>>

SlotOfGuard(guard) == (guard - KERNEL_STACK_BASE) \div SlotSize

KstackFree(stack) ==
  LET mapped == StackPages(stack.stack_base) \intersect DOMAIN pages
  IN /\ free' = free \union {pages[v] : v \in mapped}
     /\ pages' = UnmapPages(pages, mapped \union {stack.guard_base})
     /\ slots' = MarkFree(slots, SlotOfGuard(stack.guard_base))
     /\ stacks' = stacks \ {stack}
     /\ UNCHANGED <<pool, heap, mmio, held, regions>>

\* kstack_is_guard_address, which the page fault handler asks.
IsGuardAddress(address) ==
  /\ address \in KERNEL_STACK_BASE..KERNEL_STACK_LIMIT - 1
  /\ (address - KERNEL_STACK_BASE) % SlotSize < KSTACK_GUARD_PAGES * PAGE_SIZE

-----------------------------------------------------------------------------
(* mmio.c *)

MmioMapRegion(region) ==
  LET physical == region[1]
      base == AlignDown(physical, PAGE_SIZE)
      end == AlignUp((physical + region[2]) % SPACE, PAGE_SIZE) % SPACE
      length == end - base
      device == [i \in 1..length \div PAGE_SIZE |-> base + (i - 1) * PAGE_SIZE]
  IN /\ heap.booted /\ Cardinality(regions) < MaxRegions
     /\ IF region[2] # 0 /\ end >= base /\ (mmio + length) % SPACE <= KERNEL_MMIO_LIMIT
          THEN /\ pages' = MapPages(pages, mmio, device)
               /\ mmio' = (mmio + length) % SPACE
               /\ regions' = regions \union {<<mmio + (physical - base), region>>}
          ELSE UNCHANGED <<pages, mmio, regions>>
     /\ UNCHANGED <<pool, free, heap, slots, held, stacks>>

-----------------------------------------------------------------------------
\* The boot: kheap_init grows an empty heap, or leaves it unready; kstack_init and mmio_init
\* clear their books.
NoHeap == [booted |-> FALSE, ready |-> FALSE, head |-> Null, end |-> KERNEL_HEAP_BASE, blocks |-> <<>>]

Init ==
  /\ pool \in Pools /\ free = pool
  /\ pages = <<>>
  /\ heap = NoHeap
  /\ slots = {}
  /\ mmio = KERNEL_MMIO_BASE
  /\ held = <<>>
  /\ stacks = {}
  /\ regions = {}

KheapInit ==
  /\ ~heap.booted
  /\ LET grown == Expand(NoHeap, PAGE_SIZE)
     IN /\ heap' = [grown.heap EXCEPT !.booted = TRUE, !.ready = grown.ok]
        /\ free' = grown.free
        /\ pages' = grown.pages
  /\ UNCHANGED <<pool, slots, mmio, held, stacks, regions>>

Next ==
  \/ KheapInit
  \/ \E size \in Sizes : Kmalloc(size)
  \/ \E pointer \in DOMAIN held : Kfree(pointer)
  \/ KstackAlloc
  \/ \E stack \in stacks : KstackFree(stack)
  \/ \E region \in Regions : MmioMapRegion(region)

Spec == Init /\ [][Next]_vars

-----------------------------------------------------------------------------
\* The heap is exactly its list: the blocks cover the grown region without a gap or an
\* overlap, every prev undoes a next, two free blocks never touch, and the blocks in use
\* are exactly those that callers hold, each at least as large as what was asked for.
HeapExact ==
  LET chain == Chain(heap)
      block == heap.blocks
  IN /\ Range(chain) = DOMAIN block
     /\ chain = <<>> => heap.end = KERNEL_HEAP_BASE
     /\ \A i \in 1..Len(chain) :
          /\ chain[i] + HEADER + block[chain[i]].size
               = (IF i = Len(chain) THEN heap.end ELSE chain[i + 1])
          /\ block[chain[i]].prev = (IF i = 1 THEN Null ELSE chain[i - 1])
          /\ i > 1 => ~(block[chain[i]].free /\ block[chain[i - 1]].free)
     /\ heap.head \in {Null, KERNEL_HEAP_BASE}
     /\ {a + HEADER : a \in {b \in DOMAIN block : ~block[b].free}} = DOMAIN held
     /\ \A p \in DOMAIN held : block[p - HEADER].size >= held[p]

\* No frame has two owners or none: the entries of the heap and of the stacks hold different
\* frames, and palloc would hand out exactly the others, whatever growth or stack could not
\* be finished. Exactly the heap's pages, the data pages of the stacks in use and the regions
\* given to drivers are mapped, so that an overrun always meets an unmapped guard page, and
\* every region shows its own registers; and exactly the slots of the stacks are taken.
MappingsExact ==
  LET heapPages == {v \in DOMAIN pages : v \in KERNEL_HEAP_BASE..KERNEL_HEAP_LIMIT - 1}
      stackPages == {v \in DOMAIN pages : v \in KERNEL_STACK_BASE..KERNEL_STACK_LIMIT - 1}
      owned == heapPages \union stackPages
  IN /\ \A v, w \in owned : v # w => pages[v] # pages[w]
     /\ free = pool \ {pages[v] : v \in owned}
     /\ heapPages = {v \in KERNEL_HEAP_BASE..heap.end - 1 : v % PAGE_SIZE = 0}
     /\ stackPages = UNION {StackPages(s.stack_base) : s \in stacks}
     /\ slots = {SlotOfGuard(s.guard_base) : s \in stacks}
     /\ \A v \in stackPages : ~IsGuardAddress(v)
     /\ \A s \in stacks : IsGuardAddress(s.stack_base - 1)
     /\ \A r \in regions : \A i \in 0..r[2][2] - 1 :
          LET v == r[1] + i
          IN /\ v \in KERNEL_MMIO_BASE..KERNEL_MMIO_LIMIT - 1
             /\ pages[AlignDown(v, PAGE_SIZE)] + (v % PAGE_SIZE) = r[2][1] + i
=============================================================================
