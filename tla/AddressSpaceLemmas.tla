------------------------- MODULE AddressSpaceLemmas --------------------------
(***************************************************************************)
(* The invariant of user address spaces, and what allocating, placing,     *)
(* sharing and moving frames does to it. AddressSpaceProofs shows that     *)
(* the handlers keep it.                                                   *)
(***************************************************************************)
EXTENDS AddressSpace, FiniteSetTheorems, TLAPS

-----------------------------------------------------------------------------
(* The inductive invariant *)

Memory == [refs : [Frame -> Nat], next : 0 .. FrameCount]
Flags == {"none", "ro", "rw", "cow"}
Images == {program.pages : program \in Programs} \cup {<<>>}
Space == [at : [Slots -> Frame], flags : [Pages -> Flags], image : Images]

\* A live address space has a frame for exactly the slots that its release gives up, and flags
\* for exactly the pages of its image.
Complete(sp) ==
  /\ \A s \in Slots : sp.at[s] # NoFrame <=> s \in StackPages \cup UserSlots(sp)
  /\ \A p \in Pages : sp.flags[p] # "none" <=> p \in Range(sp.image)

\* The places that hold a frame.
Holders(spaces, f) == {h \in Tasks \X Slots : spaces[h[1]].at[h[2]] = f}

Exact(m, k, spaces) ==
  \A f \in Frame \ {NoFrame} :
    m.refs[f] = Cardinality(Holders(spaces, f)) + (IF f \in k THEN 1 ELSE 0)

\* A page that may be written without a fault is on a frame that nothing else holds.
Exclusive(spaces) ==
  \A t, u \in Tasks, p \in Pages, s \in Slots :
    spaces[t].flags[p] = "rw" /\ spaces[u].at[s] = spaces[t].at[p] => u = t /\ s = p

Isolated(spaces, d, v) ==
  \A t \in Tasks, p \in Pages :
    spaces[t].flags[p] # "none" => d[spaces[t].at[p]] = v[t][p]

\* Frame 0 is never free, so that it is never handed out.
MemoryOK(m, k) == /\ m \in Memory /\ m.refs[NoFrame] # 0
                  /\ k \in SUBSET Frame /\ NoFrame \in k

SpacesOK(spaces) == /\ spaces \in [Tasks -> Space]
                    /\ \A t \in Tasks : spaces[t] = NoSpace \/ Complete(spaces[t])

ContentsOK(d, v) == d \in [Frame -> Values] /\ v \in [Tasks -> [Pages -> Values]]

Inv ==
  /\ MemoryOK(memory, kernel) /\ SpacesOK(space) /\ ContentsOK(data, view)
  /\ Exact(memory, kernel, space)
  /\ Exclusive(space)
  /\ Isolated(space, data, view)

-----------------------------------------------------------------------------
(* Allocating and freeing frames *)

\* The frames that n calls of palloc_alloc_page hand out.
Taken(m, n) == {f \in Frame : m.refs[f] = 0 /\ Place(m, f) < n}

\* There are finitely many frames.
LEMMA FramesFinite == IsFiniteSet(Frame) /\ \A S \in SUBSET Frame : IsFiniteSet(S) /\ Cardinality(S) \in Nat
<1>1. IsFiniteSet(Frame)
  BY FramesAssumption, FS_Interval DEF Frame
<1>2. QED
  BY <1>1, FS_Subset, FS_CardinalityType

\* The search meets one frame after the other.
LEMMA RoundIs ==
  ASSUME NEW m \in Memory
  PROVE  /\ \A f \in Frame : Round(m, f) \in Nat
         /\ \A f, g \in Frame : f # g => Round(m, f) < Round(m, g) \/ Round(m, g) < Round(m, f)
<1>1. m.next \in 0 .. FrameCount
  BY DEF Memory
<1> DEFINE next == m.next
<1>2. \A f \in Frame : Round(m, f) = IF f >= next THEN f - next ELSE f - next + FrameCount
  BY DEF Round
<1> HIDE DEF next
<1>3. next \in 0 .. FrameCount
  BY <1>1 DEF next
<1>4. QED
  BY <1>2, <1>3, FramesAssumption DEF Frame

\* No two free frames are handed out at the same place in line.
LEMMA PlaceIs ==
  ASSUME NEW m \in Memory
  PROVE  /\ \A f \in Frame : Place(m, f) \in Nat
         /\ \A f, g \in FreeIn(m) : Place(m, f) = Place(m, g) => f = g
<1> DEFINE Before(f) == {g \in FreeIn(m) : Round(m, g) < Round(m, f)}
<1>1. \A f \in Frame : Before(f) \in SUBSET Frame
  BY DEF FreeIn
<1>2. \A f \in Frame : IsFiniteSet(Before(f)) /\ Cardinality(Before(f)) \in Nat
  BY <1>1, FramesFinite
<1>3. \A f \in Frame : Place(m, f) = Cardinality(Before(f))
  BY DEF Place
<1>4. ASSUME NEW f \in FreeIn(m), NEW g \in FreeIn(m), Round(m, f) < Round(m, g)
      PROVE  Place(m, f) < Place(m, g)
  <2>1. f \in Frame /\ g \in Frame
    BY DEF FreeIn
  <2>2. \A h \in Frame : Round(m, h) \in Nat
    BY RoundIs
  <2>3. Before(f) \subseteq Before(g) /\ f \in Before(g) /\ f \notin Before(f)
    BY <1>4, <2>1, <2>2 DEF FreeIn
  <2>4. IsFiniteSet(Before(g)) /\ Before(f) # Before(g)
    BY <1>2, <2>1, <2>3
  <2> HIDE DEF Before
  <2>5. Cardinality(Before(f)) < Cardinality(Before(g))
    BY <2>3, <2>4, FS_Subset, <1>2, <2>1
  <2>6. QED
    BY <1>3, <2>1, <2>5
<1> HIDE DEF Before
<1>5. \A f \in Frame : Place(m, f) \in Nat
  BY <1>2, <1>3
<1>6. ASSUME NEW f \in FreeIn(m), NEW g \in FreeIn(m), f # g PROVE Place(m, f) # Place(m, g)
  <2>1. f \in Frame /\ g \in Frame
    BY DEF FreeIn
  <2>2. Round(m, f) < Round(m, g) \/ Round(m, g) < Round(m, f)
    BY <1>6, <2>1, RoundIs
  <2>3. Place(m, f) < Place(m, g) \/ Place(m, g) < Place(m, f)
    BY <1>4, <2>2
  <2>4. QED
    BY <1>5, <2>1, <2>3
<1>7. QED
  BY <1>5, <1>6

\* The i-th frame handed out is a free one, and different calls return different frames.
LEMMA NthIs ==
  ASSUME NEW m \in Memory, NEW n \in Nat, Available(m, n)
  PROVE  /\ \A i \in 1 .. n : Nth(m, i) \in Taken(m, n) /\ Place(m, Nth(m, i)) = i - 1
         /\ \A f \in Taken(m, n) : Place(m, f) + 1 \in 1 .. n /\ Nth(m, Place(m, f) + 1) = f
<1>1. ASSUME NEW i \in 1 .. n PROVE Nth(m, i) \in FreeIn(m) /\ Place(m, Nth(m, i)) = i - 1
  <2>1. \E f \in FreeIn(m) : Place(m, f) = i - 1
    BY DEF Available
  <2>2. QED
    BY <2>1 DEF Nth
<1>2. \A i \in 1 .. n : Nth(m, i) \in Taken(m, n) /\ Place(m, Nth(m, i)) = i - 1
  BY <1>1 DEF Taken, FreeIn
<1>3. ASSUME NEW f \in Taken(m, n) PROVE Place(m, f) + 1 \in 1 .. n /\ Nth(m, Place(m, f) + 1) = f
  <2>1. f \in FreeIn(m) /\ f \in Frame /\ Place(m, f) < n
    BY DEF Taken, FreeIn
  <2>2. Place(m, f) \in Nat
    BY <2>1, PlaceIs
  <2>3. Place(m, f) + 1 \in 1 .. n
    BY <2>1, <2>2
  <2> DEFINE i == Place(m, f) + 1
  <2>4. i \in 1 .. n /\ i - 1 = Place(m, f)
    BY <2>2, <2>3
  <2> HIDE DEF i
  <2>5. Nth(m, i) \in FreeIn(m) /\ Place(m, Nth(m, i)) = Place(m, f)
    BY <1>1, <2>4
  <2>6. Nth(m, i) = f
    BY <2>1, <2>5, PlaceIs
  <2>7. QED
    BY <2>3, <2>6 DEF i
<1>4. QED
  BY <1>2, <1>3

\* The frames taken have one reference each, all others the ones they had.
LEMMA TakeIs ==
  ASSUME NEW m \in Memory, NEW n \in Nat, Available(m, n)
  PROVE  /\ Take(m, n) \in Memory
         /\ \A f \in Frame : Take(m, n).refs[f] = IF f \in Taken(m, n) THEN 1 ELSE m.refs[f]
<1>1. m.refs \in [Frame -> Nat] /\ m.next \in 0 .. FrameCount
  BY DEF Memory
<1> DEFINE refs == [f \in Frame |-> IF m.refs[f] = 0 /\ Place(m, f) < n THEN 1 ELSE m.refs[f]]
           next == IF n = 0 THEN m.next ELSE Nth(m, n) + 1
<1>2. Take(m, n) = [refs |-> refs, next |-> next]
  BY DEF Take
<1>3. refs \in [Frame -> Nat]
  BY <1>1
<1>4. \A f \in Frame : refs[f] = IF f \in Taken(m, n) THEN 1 ELSE m.refs[f]
  BY DEF Taken
<1>5. next \in 0 .. FrameCount
  <2>1. n # 0 => Nth(m, n) \in Frame
    BY NthIs DEF Taken
  <2>2. QED
    BY <1>1, <2>1, FramesAssumption DEF Frame
<1> HIDE DEF refs, next
<1>6. QED
  BY <1>2, <1>3, <1>4, <1>5 DEF Memory

\* One call of palloc_alloc_page.
LEMMA TakeOne ==
  ASSUME NEW m \in Memory, Available(m, 1), NEW g, g = Nth(m, 1)
  PROVE  /\ g \in Frame /\ m.refs[g] = 0
         /\ Take(m, 1) \in Memory
         /\ \A f \in Frame : Take(m, 1).refs[f] = IF f = g THEN 1 ELSE m.refs[f]
<1>1. /\ \A i \in 1 .. 1 : Nth(m, i) \in Taken(m, 1)
      /\ \A f \in Taken(m, 1) : Place(m, f) + 1 \in 1 .. 1 /\ Nth(m, Place(m, f) + 1) = f
  BY NthIs
<1>2. \A f \in Frame : f \in Taken(m, 1) <=> f = g
  BY <1>1
<1>3. g \in Frame /\ m.refs[g] = 0
  BY <1>1 DEF Taken
<1>4. QED
  BY <1>2, <1>3, TakeIs

\* Some numbers have a lowest one among them.
LEMMA Lowest ==
  ASSUME NEW S \in SUBSET Nat, S # {}
  PROVE  \E n \in S : \A g \in S : n <= g
<1> DEFINE R == OpToRel(<, Nat)
<1>1. IsWellFoundedOn(R, Nat)
  BY NatLessThanWellFounded
<1>2. \A g, n \in Nat : <<g, n>> \in R <=> g < n
  BY DEF OpToRel
<1> HIDE DEF R
<1>3. PICK n \in S : \A g \in S : ~(<<g, n>> \in R)
  BY <1>1, WFMin
<1>4. ASSUME NEW g \in S PROVE n <= g
  <2>1. g \in Nat /\ n \in Nat /\ ~(g < n)
    BY <1>2, <1>3
  <2>2. QED
    BY <2>1
<1>5. QED
  BY <1>4

\* Every frame loses the references that are dropped, and the search starts at some frame.
LEMMA DropIs ==
  ASSUME NEW m \in Memory, NEW drops \in [Frame -> Nat], \A f \in Frame : drops[f] <= m.refs[f]
  PROVE  /\ Drop(m, drops) \in Memory
         /\ \A f \in Frame : Drop(m, drops).refs[f] = m.refs[f] - drops[f]
<1>1. m.refs \in [Frame -> Nat] /\ m.next \in 0 .. FrameCount
  BY DEF Memory
<1> DEFINE refs == [f \in Frame |-> Minus(m.refs[f], drops[f])]
           S == Freed(m, drops) \cup {m.next}
           next == CHOOSE n \in S : \A g \in S : n <= g
<1>2. Drop(m, drops) = [refs |-> refs, next |-> next]
  BY DEF Drop
<1>3. \A f \in Frame : refs[f] \in Nat /\ refs[f] = m.refs[f] - drops[f]
  BY <1>1 DEF Minus
<1>4. S \in SUBSET (0 .. FrameCount) /\ S # {}
  BY <1>1, FramesAssumption DEF Freed, Frame
<1> HIDE DEF S
<1>5. S \in SUBSET Nat
  BY <1>4, FramesAssumption
<1>6. \E n \in S : \A g \in S : n <= g
  BY <1>4, <1>5, Lowest
<1>7. next \in S
  BY <1>6
<1>8. next \in 0 .. FrameCount /\ refs \in [Frame -> Nat]
  BY <1>3, <1>4, <1>7
<1> HIDE DEF refs, next
<1>9. QED
  BY <1>2, <1>3, <1>8 DEF Memory

\* palloc_retain_page adds to the counts.
LEMMA RetainIs ==
  ASSUME NEW m \in Memory, NEW gains \in [Frame -> Nat], NEW n, n = Retain(m, gains)
  PROVE  n \in Memory /\ \A f \in Frame : n.refs[f] = m.refs[f] + gains[f]
<1> DEFINE refs == [f \in Frame |-> m.refs[f] + gains[f]]
<1>1. m.refs \in [Frame -> Nat]
  BY DEF Memory
<1>2. refs \in [Frame -> Nat] /\ \A f \in Frame : refs[f] = m.refs[f] + gains[f]
  BY <1>1
<1>3. n = [m EXCEPT !.refs = refs]
  BY DEF Retain
<1> HIDE DEF refs
<1>4. n \in Memory /\ n.refs = refs
  BY <1>2, <1>3 DEF Memory
<1>5. QED
  BY <1>2, <1>4

\* A call that fails and gives back the frames it took leaves the counts as they were.
LEMMA UndoneIs ==
  ASSUME NEW m \in Memory, NEW n \in Nat, Available(m, n)
  PROVE  Undone(m, n) \in Memory /\ \A f \in Frame : Undone(m, n).refs[f] = m.refs[f]
<1> DEFINE drops == [f \in Frame |-> IF m.refs[f] = 0 /\ Place(m, f) < n THEN 1 ELSE 0]
           took == Take(m, n)
<1>1. m.refs \in [Frame -> Nat]
  BY DEF Memory
<1>2. drops \in [Frame -> Nat] /\ \A f \in Frame : drops[f] = IF f \in Taken(m, n) THEN 1 ELSE 0
  BY DEF Taken
<1>3. took \in Memory /\ \A f \in Frame : took.refs[f] = IF f \in Taken(m, n) THEN 1 ELSE m.refs[f]
  BY TakeIs
<1>4. \A f \in Taken(m, n) : m.refs[f] = 0
  BY DEF Taken
<1>5. Undone(m, n) = Drop(took, drops)
  BY DEF Undone
<1> HIDE DEF drops, took
<1>6. \A f \in Frame : drops[f] <= took.refs[f] /\ took.refs[f] - drops[f] = m.refs[f]
  BY <1>1, <1>2, <1>3, <1>4
<1>7. Drop(took, drops) \in Memory /\ \A f \in Frame : Drop(took, drops).refs[f] = took.refs[f] - drops[f]
  BY <1>2, <1>3, <1>6, DropIs
<1>8. QED
  BY <1>5, <1>6, <1>7

-----------------------------------------------------------------------------
(* Placing the slots of an address space *)

\* order lists each slot of S once; there are n of them.
Lists(order, n, S) == /\ order \in Seq(Slots) /\ Len(order) = n /\ Distinct(order)
                      /\ Range(order) = S

\* One sequence after another.
LEMMA ConcatIs ==
  ASSUME NEW S, NEW a \in Seq(S), NEW b \in Seq(S)
  PROVE  /\ a \o b \in Seq(S) /\ Len(a \o b) = Len(a) + Len(b)
         /\ \A i \in 1 .. Len(a) + Len(b) : (a \o b)[i] = IF i <= Len(a) THEN a[i] ELSE b[i - Len(a)]
OBVIOUS

\* A list followed by one of other slots.
LEMMA ListsConcat ==
  ASSUME NEW a, NEW b, NEW m, NEW n, NEW S, NEW T, Lists(a, m, S), Lists(b, n, T), S \cap T = {}
  PROVE  Lists(a \o b, m + n, S \cup T)
<1>1. a \in Seq(Slots) /\ b \in Seq(Slots) /\ Len(a) = m /\ Len(b) = n /\ m \in Nat /\ n \in Nat
  BY DEF Lists
<1>2. a \o b \in Seq(Slots) /\ Len(a \o b) = m + n
  BY <1>1
<1>3. \A i \in 1 .. m + n : (a \o b)[i] = IF i <= m THEN a[i] ELSE b[i - m]
  BY <1>1
<1>4. /\ \A i \in 1 .. m : a[i] \in S /\ \A j \in 1 .. m : a[i] = a[j] => i = j
      /\ \A i \in 1 .. n : b[i] \in T /\ \A j \in 1 .. n : b[i] = b[j] => i = j
      /\ \A s \in S : \E i \in 1 .. m : a[i] = s
      /\ \A s \in T : \E i \in 1 .. n : b[i] = s
  BY <1>1 DEF Lists, Distinct, Range
<1> DEFINE c == a \o b
<1>5. DOMAIN c = 1 .. m + n
  BY <1>2
<1> HIDE DEF c
<1>6. \A i \in 1 .. m + n : c[i] = IF i <= m THEN a[i] ELSE b[i - m]
  BY <1>3 DEF c
<1>7. Distinct(c)
  <2>1. SUFFICES ASSUME NEW i \in 1 .. m + n, NEW j \in 1 .. m + n, c[i] = c[j] PROVE i = j
    BY <1>5 DEF Distinct
  <2>2. CASE i <= m /\ j <= m
    BY <1>1, <1>4, <1>6, <2>1, <2>2
  <2>3. CASE ~(i <= m) /\ ~(j <= m)
    <3>1. i - m \in 1 .. n /\ j - m \in 1 .. n /\ b[i - m] = b[j - m]
      BY <1>1, <1>6, <2>1, <2>3
    <3>2. i - m = j - m
      BY <1>4, <3>1
    <3>3. QED
      BY <1>1, <3>2
  <2>4. CASE i <= m /\ ~(j <= m)
    <3>1. i \in 1 .. m /\ j - m \in 1 .. n /\ a[i] = b[j - m]
      BY <1>1, <1>6, <2>1, <2>4
    <3>2. QED
      BY <1>4, <3>1
  <2>5. CASE ~(i <= m) /\ j <= m
    <3>1. j \in 1 .. m /\ i - m \in 1 .. n /\ a[j] = b[i - m]
      BY <1>1, <1>6, <2>1, <2>5
    <3>2. QED
      BY <1>4, <3>1
  <2>6. QED
    BY <1>1, <2>2, <2>3, <2>4, <2>5
<1>8. ASSUME NEW i \in 1 .. m + n PROVE c[i] \in S \cup T
  <2>1. i <= m => i \in 1 .. m
    BY <1>1
  <2>2. ~(i <= m) => i - m \in 1 .. n
    BY <1>1
  <2>3. QED
    BY <1>4, <1>6, <2>1, <2>2
<1>9. ASSUME NEW s \in S PROVE \E i \in 1 .. m + n : c[i] = s
  <2>1. PICK i \in 1 .. m : a[i] = s
    BY <1>4
  <2>2. i \in 1 .. m + n /\ i <= m
    BY <1>1
  <2>3. QED
    BY <1>6, <2>1, <2>2
<1>10. ASSUME NEW s \in T PROVE \E i \in 1 .. m + n : c[i] = s
  <2>1. PICK i \in 1 .. n : b[i] = s
    BY <1>4
  <2> DEFINE k == i + m
  <2>2. k \in 1 .. m + n /\ ~(k <= m) /\ k - m = i
    BY <1>1
  <2> HIDE DEF k
  <2>3. c[k] = b[i]
    BY <1>6, <2>2
  <2>4. QED
    BY <2>1, <2>2, <2>3
<1>11. Range(c) = S \cup T
  BY <1>5, <1>8, <1>9, <1>10 DEF Range
<1>12. QED
  BY <1>2, <1>7, <1>11 DEF Lists, c

\* The slots for which exec allocates frames, and those of the kernel stack.
LEMMA LoadLists ==
  ASSUME NEW program \in Programs
  PROVE  /\ Lists(LoadOrder(program), Len(program.pages) + 2, Range(program.pages) \cup {Directory, Table})
         /\ Len(program.pages) \in Nat
<1> DEFINE pages == program.pages
           order == LoadOrder(program)
<1>1. pages \in Seq(Pages) /\ pages # <<>> /\ Distinct(pages)
  BY SpaceAssumption
<1>2. Directory # Table /\ Directory \notin Pages /\ Table \notin Pages
  BY SpaceAssumption
<1>3. Pages \subseteq Slots /\ Directory \in Slots /\ Table \in Slots
  BY DEF Slots
<1> HIDE DEF pages
<1>4. Len(pages) \in Nat /\ Len(pages) >= 1 /\ \A i \in 1 .. Len(pages) : pages[i] \in Pages
  BY <1>1
<1>5. /\ order \in Seq(Slots) /\ Len(order) = Len(pages) + 2
      /\ \A i \in 1 .. Len(pages) + 2 :
           order[i] = IF i = 1 THEN Directory ELSE IF i = 2 THEN pages[1]
                      ELSE IF i = 3 THEN Table ELSE pages[i - 2]
  <2>1. /\ Head(pages) = pages[1] /\ Tail(pages) \in Seq(Pages) /\ Len(Tail(pages)) = Len(pages) - 1
        /\ \A i \in 1 .. Len(pages) - 1 : Tail(pages)[i] = pages[i + 1]
    BY <1>1, <1>4
  <2> DEFINE tail == Tail(pages)
             first == <<Directory, pages[1], Table>>
  <2>2. order = first \o tail
    BY <2>1 DEF LoadOrder, pages
  <2>3. first \in Seq(Slots) /\ Len(first) = 3 /\ first[1] = Directory /\ first[2] = pages[1] /\ first[3] = Table
    BY <1>3, <1>4
  <2>4. tail \in Seq(Slots) /\ Len(tail) = Len(pages) - 1 /\ \A i \in 1 .. Len(pages) - 1 : tail[i] = pages[i + 1]
    BY <1>3, <2>1
  <2> HIDE DEF first, tail, order
  <2>5. order \in Seq(Slots) /\ Len(order) = Len(pages) + 2
    <3>1. first \o tail \in Seq(Slots) /\ Len(first \o tail) = Len(first) + Len(tail)
      BY <2>3, <2>4, ConcatIs, Zenon
    <3>2. QED
      BY <1>4, <2>2, <2>3, <2>4, <3>1
  <2>6. \A i \in 1 .. Len(pages) + 2 : order[i] = IF i <= 3 THEN first[i] ELSE tail[i - 3]
    <3>1. \A i \in 1 .. Len(first) + Len(tail) :
            (first \o tail)[i] = IF i <= Len(first) THEN first[i] ELSE tail[i - Len(first)]
      BY <2>3, <2>4, ConcatIs, Zenon
    <3>2. Len(first) + Len(tail) = Len(pages) + 2
      BY <1>4, <2>3, <2>4
    <3>3. QED
      BY <2>2, <2>3, <3>1, <3>2
  <2>7. ASSUME NEW i \in 1 .. Len(pages) + 2, ~(i <= 3) PROVE order[i] = pages[i - 2]
    <3>1. i - 3 \in 1 .. Len(pages) - 1 /\ i - 3 + 1 = i - 2
      BY <1>4, <2>7
    <3>2. tail[i - 3] = pages[i - 3 + 1]
      BY <2>4, <3>1
    <3>3. QED
      BY <2>6, <2>7, <3>1, <3>2
  <2>8. QED
    BY <1>4, <2>3, <2>5, <2>6, <2>7
<1>6. \A i, j \in 1 .. Len(pages) : pages[i] = pages[j] => i = j
  BY <1>1 DEF Distinct
<1> HIDE DEF order
<1>7. DOMAIN order = 1 .. Len(pages) + 2 /\ DOMAIN pages = 1 .. Len(pages)
  BY <1>1, <1>4, <1>5
<1>8. \A i \in 1 .. Len(pages) + 2 :
        \/ i = 1 /\ order[i] = Directory
        \/ i = 3 /\ order[i] = Table
        \/ \E k \in 1 .. Len(pages) : order[i] = pages[k] /\ i = (IF k = 1 THEN 2 ELSE k + 2)
  <2> TAKE i \in 1 .. Len(pages) + 2
  <2>1. CASE i \in {1, 3}
    BY <1>5, <2>1
  <2>2. CASE i = 2
    BY <1>4, <1>5, <2>2
  <2>3. CASE i \notin {1, 2, 3}
    <3>1. i - 2 \in 1 .. Len(pages) /\ i - 2 # 1 /\ i = i - 2 + 2 /\ order[i] = pages[i - 2]
      BY <1>4, <1>5, <2>3
    <3>2. QED
      BY <3>1
  <2>4. QED
    BY <2>1, <2>2, <2>3
<1>9. Distinct(order)
  <2>1. SUFFICES ASSUME NEW i \in 1 .. Len(pages) + 2, NEW j \in 1 .. Len(pages) + 2, order[i] = order[j]
                 PROVE  i = j
    BY <1>7 DEF Distinct
  <2>2. QED
    BY <1>2, <1>4, <1>6, <1>8, <2>1
<1>10. ASSUME NEW k \in 1 .. Len(pages) PROVE \E i \in 1 .. Len(pages) + 2 : order[i] = pages[k]
  <2>1. CASE k = 1
    BY <1>4, <1>5, <2>1
  <2>2. CASE k # 1
    <3>1. k + 2 \in 1 .. Len(pages) + 2 /\ k + 2 \notin {1, 2, 3} /\ k + 2 - 2 = k
      BY <1>4, <2>2
    <3>2. order[k + 2] = pages[k + 2 - 2]
      BY <1>5, <3>1
    <3>3. QED
      BY <3>1, <3>2
  <2>3. QED
    BY <2>1, <2>2
<1>11. 1 \in 1 .. Len(pages) + 2 /\ 3 \in 1 .. Len(pages) + 2
  BY <1>4
<1>12. Range(order) = Range(pages) \cup {Directory, Table}
  <2>1. \A i \in 1 .. Len(pages) + 2 : order[i] \in Range(pages) \cup {Directory, Table}
    BY <1>7, <1>8 DEF Range
  <2>2. \A s \in Range(pages) : \E i \in 1 .. Len(pages) + 2 : order[i] = s
    BY <1>7, <1>10 DEF Range
  <2>3. order[1] = Directory /\ order[3] = Table
    BY <1>5, <1>11
  <2> DEFINE S == Range(pages) \cup {Directory, Table}
  <2>4. \A s \in S : \E i \in 1 .. Len(pages) + 2 : order[i] = s
    BY <1>11, <2>2, <2>3
  <2> HIDE DEF S
  <2>5. Range(order) = S
    BY <1>7, <2>1, <2>4 DEF Range, S
  <2>6. QED
    BY <2>5 DEF S
<1>13. QED
  BY <1>4, <1>5, <1>9, <1>12 DEF Lists, order, pages

\* The slots of a kernel stack, those fork allocates, and those the first task allocates.
LEMMA OtherLists ==
  /\ Lists(KernelStack, Len(KernelStack), StackPages) /\ Len(KernelStack) \in Nat
  /\ Lists(KernelStack \o <<Directory, Table>>, ForkFrames, StackPages \cup {Directory, Table})
  /\ \A program \in Programs :
       Lists(KernelStack \o LoadOrder(program), Len(KernelStack) + (Len(program.pages) + 2),
             StackPages \cup (Range(program.pages) \cup {Directory, Table}))
<1>1. StackPages \subseteq Slots /\ Directory \in Slots /\ Table \in Slots
  BY DEF Slots
<1>2. KernelStack \in Seq(Slots) /\ Len(KernelStack) \in Nat
  BY <1>1, SpaceAssumption
<1>3. Lists(KernelStack, Len(KernelStack), StackPages)
  BY <1>2, SpaceAssumption DEF Lists, StackPages
<1> DEFINE pair == <<Directory, Table>>
<1>4. Lists(pair, 2, {Directory, Table})
  <2>1. pair \in Seq(Slots) /\ Len(pair) = 2 /\ DOMAIN pair = {1, 2} /\ pair[1] = Directory /\ pair[2] = Table
    BY <1>1
  <2> HIDE DEF pair
  <2>2. Distinct(pair)
    BY <2>1, SpaceAssumption DEF Distinct
  <2>3. Range(pair) = {Directory, Table}
    BY <2>1 DEF Range
  <2>4. QED
    BY <2>1, <2>2, <2>3 DEF Lists
<1>5. StackPages \cap {Directory, Table} = {}
  BY SpaceAssumption
<1> HIDE DEF pair
<1>6. Lists(KernelStack \o pair, Len(KernelStack) + 2, StackPages \cup {Directory, Table})
  BY <1>3, <1>4, <1>5, ListsConcat
<1>7. ASSUME NEW program \in Programs
      PROVE  Lists(KernelStack \o LoadOrder(program), Len(KernelStack) + (Len(program.pages) + 2),
                   StackPages \cup (Range(program.pages) \cup {Directory, Table}))
  <2>1. program.pages \in Seq(Pages)
    BY SpaceAssumption
  <2>2. Range(program.pages) \subseteq Pages
    BY <2>1 DEF Range
  <2>3. StackPages \cap (Range(program.pages) \cup {Directory, Table}) = {}
    BY <1>5, <2>2, SpaceAssumption
  <2>4. Lists(LoadOrder(program), Len(program.pages) + 2, Range(program.pages) \cup {Directory, Table})
    BY LoadLists
  <2>5. QED
    BY <1>3, <2>3, <2>4, ListsConcat
<1>8. QED
  BY <1>2, <1>3, <1>6, <1>7 DEF ForkFrames, pair

SlotsAt(at, f) == {s \in Slots : at[s] = f}

\* Slots are counted.
LEMMA SlotsFinite ==
  /\ \A S \in SUBSET Slots : IsFiniteSet(S) /\ Cardinality(S) \in Nat
  /\ \A H \in SUBSET (Tasks \X Slots) : IsFiniteSet(H) /\ Cardinality(H) \in Nat
<1>1. IsFiniteSet(Slots) /\ IsFiniteSet(Tasks)
  BY SpaceAssumption
<1>2. IsFiniteSet(Tasks \X Slots)
  BY <1>1, FS_Product
<1>3. QED
  BY <1>1, <1>2, FS_Subset, FS_CardinalityType

\* Each listed slot gets a frame of its own among those taken, and each frame taken gets a slot.
LEMMA PlacedIs ==
  ASSUME NEW m \in Memory, NEW n \in Nat, NEW order, NEW S \in SUBSET Slots, Lists(order, n, S),
         Available(m, n), NEW at \in [Slots -> Frame], \A s \in Slots \ S : m.refs[at[s]] # 0,
         NEW new, new = Placed(m, order, at)
  PROVE  /\ new \in [Slots -> Frame]
         /\ \A s \in Slots \ S : new[s] = at[s]
         /\ \A s \in S : new[s] \in Taken(m, n)
         /\ \A r, s \in S : new[r] = new[s] => r = s
         /\ \A f \in Frame : Cardinality(SlotsAt(new, f)) = IF f \in Taken(m, n) THEN 1
                                                            ELSE Cardinality({s \in Slots \ S : at[s] = f})
<1> DEFINE Index(s) == CHOOSE i \in DOMAIN order : order[i] = s
<1>1. order \in Seq(Slots) /\ DOMAIN order = 1 .. n /\ Distinct(order) /\ Range(order) = S
  BY DEF Lists
<1>2. ASSUME NEW s \in S PROVE Index(s) \in 1 .. n /\ order[Index(s)] = s
  <2>1. \E i \in DOMAIN order : order[i] = s
    BY <1>1 DEF Range
  <2>2. QED
    BY <1>1, <2>1
<1>3. \A s \in Slots : new[s] = IF s \in S THEN Nth(m, Index(s)) ELSE at[s]
  BY <1>1 DEF Placed
<1> HIDE DEF Index
<1>4. /\ \A i \in 1 .. n : Nth(m, i) \in Taken(m, n) /\ Place(m, Nth(m, i)) = i - 1
      /\ \A f \in Taken(m, n) : Place(m, f) + 1 \in 1 .. n /\ Nth(m, Place(m, f) + 1) = f
  BY NthIs
<1>5. \A s \in S : new[s] \in Taken(m, n)
  BY <1>2, <1>3, <1>4
<1>6. ASSUME NEW r \in S, NEW s \in S, new[r] = new[s] PROVE r = s
  <2>1. Index(r) \in 1 .. n /\ Index(s) \in 1 .. n /\ Nth(m, Index(r)) = Nth(m, Index(s))
    BY <1>2, <1>3, <1>6
  <2>2. Index(r) - 1 = Index(s) - 1
    BY <1>4, <2>1
  <2>3. Index(r) = Index(s)
    BY <2>1, <2>2
  <2>4. QED
    BY <1>2, <2>3
<1>7. ASSUME NEW f \in Taken(m, n) PROVE \E s \in S : new[s] = f
  <2> DEFINE i == Place(m, f) + 1
  <2>1. i \in 1 .. n /\ Nth(m, i) = f
    BY <1>4
  <2> HIDE DEF i
  <2>2. order[i] \in S
    BY <1>1, <2>1 DEF Range
  <2>3. Index(order[i]) = i
    BY <1>1, <1>2, <2>1, <2>2 DEF Distinct
  <2>4. QED
    BY <1>3, <2>1, <2>2, <2>3
<1>8. Taken(m, n) \in SUBSET Frame /\ \A f \in Taken(m, n) : m.refs[f] = 0
  BY DEF Taken
<1>9. new \in [Slots -> Frame]
  <2>1. \A s \in Slots : new[s] \in Frame
    BY <1>3, <1>5, <1>8
  <2>2. QED
    BY <2>1 DEF Placed
<1>10. \A s \in Slots \ S : new[s] = at[s] /\ new[s] \notin Taken(m, n)
  BY <1>3, <1>8
<1>11. ASSUME NEW f \in Frame
       PROVE  Cardinality(SlotsAt(new, f)) = IF f \in Taken(m, n) THEN 1
                                             ELSE Cardinality({s \in Slots \ S : at[s] = f})
  <2>1. CASE f \in Taken(m, n)
    <3>1. PICK s \in S : new[s] = f
      BY <1>7, <2>1
    <3>2. SlotsAt(new, f) = {s}
      BY <1>6, <1>10, <2>1, <3>1 DEF SlotsAt
    <3>3. QED
      BY <2>1, <3>2, FS_Singleton
  <2>2. CASE f \notin Taken(m, n)
    <3>1. SlotsAt(new, f) = {s \in Slots \ S : at[s] = f}
      BY <1>5, <1>10, <2>2 DEF SlotsAt
    <3>2. QED
      BY <2>2, <3>1
  <2>3. QED
    BY <2>1, <2>2
<1>12. QED
  BY <1>5, <1>6, <1>9, <1>10, <1>11

-----------------------------------------------------------------------------
(* Counting the holders of a frame *)

PutSpace(spaces, t, sp) == [spaces EXCEPT ![t] = sp]

\* Only the slots of the task whose address space is replaced count anew.
LEMMA HoldersChange ==
  ASSUME NEW spaces \in [Tasks -> Space], NEW t \in Tasks, NEW sp \in Space,
         NEW after, after = PutSpace(spaces, t, sp), NEW f
  PROVE  /\ Cardinality(Holders(spaces, f)) \in Nat
         /\ Cardinality(SlotsAt(spaces[t].at, f)) \in Nat /\ Cardinality(SlotsAt(sp.at, f)) \in Nat
         /\ Cardinality(SlotsAt(spaces[t].at, f)) <= Cardinality(Holders(spaces, f))
         /\ Cardinality(Holders(after, f)) = Cardinality(Holders(spaces, f))
                - Cardinality(SlotsAt(spaces[t].at, f)) + Cardinality(SlotsAt(sp.at, f))
<1> DEFINE H == Holders(spaces, f)
           Old == {t} \X SlotsAt(spaces[t].at, f)
           New == {t} \X SlotsAt(sp.at, f)
<1>1. /\ IsFiniteSet(H) /\ Cardinality(H) \in Nat
      /\ IsFiniteSet(SlotsAt(spaces[t].at, f)) /\ Cardinality(SlotsAt(spaces[t].at, f)) \in Nat
      /\ IsFiniteSet(SlotsAt(sp.at, f)) /\ Cardinality(SlotsAt(sp.at, f)) \in Nat
  BY SlotsFinite DEF Holders, SlotsAt
<1>2. IsFiniteSet({t}) /\ Cardinality({t}) = 1
  BY FS_Singleton
<1>3. /\ IsFiniteSet(Old) /\ Cardinality(Old) = Cardinality(SlotsAt(spaces[t].at, f))
      /\ IsFiniteSet(New) /\ Cardinality(New) = Cardinality(SlotsAt(sp.at, f))
  <2>1. ASSUME NEW D, IsFiniteSet(D), Cardinality(D) \in Nat
        PROVE  IsFiniteSet({t} \X D) /\ Cardinality({t} \X D) = Cardinality(D)
    <3>1. IsFiniteSet({t} \X D) /\ Cardinality({t} \X D) = Cardinality({t}) * Cardinality(D)
      BY <1>2, <2>1, FS_Product
    <3>2. QED
      BY <1>2, <2>1, <3>1
  <2>2. QED
    BY <1>1, <2>1
<1>4. Old \subseteq H
  BY DEF Holders, SlotsAt
<1>5. Holders(after, f) = (H \ Old) \cup New /\ (H \ Old) \cap New = {}
  BY DEF Holders, SlotsAt, PutSpace
<1> HIDE DEF H, Old, New
<1>6. H \cap Old = Old /\ IsFiniteSet(H \ Old)
  BY <1>1, <1>4, FS_Subset
<1>7. Cardinality(H \ Old) = Cardinality(H) - Cardinality(Old)
  BY <1>1, <1>6, FS_Difference
<1> DEFINE K == H \ Old
<1>8. IsFiniteSet(K) /\ K \cap New = {} /\ Cardinality(K) = Cardinality(H) - Cardinality(Old)
  BY <1>5, <1>6, <1>7
<1> HIDE DEF K
<1>9. Cardinality(K \cup New) = Cardinality(K) + Cardinality(New) - Cardinality(K \cap New)
  BY <1>3, <1>8, FS_Union
<1>10. Cardinality(K \cap New) = 0
  BY <1>8, FS_EmptySet, Zenon
<1>11. Cardinality(Old) <= Cardinality(H)
  BY <1>1, <1>4, FS_Subset
<1>12. Holders(after, f) = K \cup New
  BY <1>5 DEF K
<1>13. QED
  BY <1>1, <1>3, <1>8, <1>9, <1>10, <1>11, <1>12 DEF H

\* A frame that some slot holds is not free.
LEMMA HeldInUse ==
  ASSUME Inv, NEW t \in Tasks, NEW s \in Slots
  PROVE  memory.refs[space[t].at[s]] # 0 /\ space[t].at[s] \in Frame
<1> DEFINE f == space[t].at[s]
<1>1. f \in Frame
  BY DEF Inv, SpacesOK, Space
<1>2. CASE f = NoFrame
  BY <1>1, <1>2 DEF Inv, MemoryOK
<1>3. CASE f # NoFrame
  <2>1. <<t, s>> \in Holders(space, f)
    BY DEF Holders
  <2>2. IsFiniteSet(Holders(space, f)) /\ Cardinality(Holders(space, f)) \in Nat
    BY SlotsFinite DEF Holders
  <2>3. Cardinality(Holders(space, f)) # 0
    BY <2>1, <2>2, FS_EmptySet
  <2>4. memory.refs[f] = Cardinality(Holders(space, f)) + (IF f \in kernel THEN 1 ELSE 0)
    BY <1>1, <1>3 DEF Inv, Exact
  <2>5. QED
    BY <1>1, <2>2, <2>3, <2>4
<1>4. QED
  BY <1>2, <1>3

\* A free frame is not frame 0, is none of the kernel's and is in no slot.
LEMMA FreeUnheld ==
  ASSUME Inv, NEW f \in Frame, memory.refs[f] = 0
  PROVE  /\ f # NoFrame /\ f \notin kernel
         /\ \A t \in Tasks, s \in Slots : space[t].at[s] # f
         /\ Cardinality(Holders(space, f)) = 0
         /\ \A t \in Tasks, S \in SUBSET Slots : Cardinality({s \in S : space[t].at[s] = f}) = 0
<1>1. f # NoFrame
  BY DEF Inv, MemoryOK
<1>2. \A t \in Tasks, s \in Slots : space[t].at[s] # f
  BY HeldInUse
<1>3. Holders(space, f) = {}
  BY <1>2 DEF Holders
<1>4. Cardinality(Holders(space, f)) = 0
  BY <1>3, FS_EmptySet
<1>5. f \notin kernel
  BY <1>1, <1>4 DEF Inv, Exact
<1>6. ASSUME NEW t \in Tasks, NEW S \in SUBSET Slots PROVE Cardinality({s \in S : space[t].at[s] = f}) = 0
  <2>1. {s \in S : space[t].at[s] = f} = {}
    BY <1>2
  <2>2. QED
    BY <2>1, FS_EmptySet
<1>7. QED
  BY <1>1, <1>2, <1>4, <1>5, <1>6

\* What Held counts.
LEMMA HeldIs ==
  ASSUME NEW at \in [Slots -> Frame], NEW S \in SUBSET Slots
  PROVE  /\ Held(at, S) \in [Frame -> Nat] /\ Held(at, S)[NoFrame] = 0
         /\ \A f \in Frame \ {NoFrame} : /\ Held(at, S)[f] = Cardinality({s \in S : at[s] = f})
                                         /\ Held(at, S)[f] <= Cardinality(SlotsAt(at, f))
         /\ (\A s \in Slots \ S : at[s] = NoFrame) =>
              \A f \in Frame \ {NoFrame} : Held(at, S)[f] = Cardinality(SlotsAt(at, f))
<1>1. \A f : {s \in S : at[s] = f} \in SUBSET SlotsAt(at, f) /\ SlotsAt(at, f) \in SUBSET Slots
  BY DEF SlotsAt
<1>2. \A f : /\ Cardinality({s \in S : at[s] = f}) \in Nat
             /\ Cardinality({s \in S : at[s] = f}) <= Cardinality(SlotsAt(at, f))
  BY <1>1, SlotsFinite, FS_Subset
<1>3. NoFrame \in Frame
  BY FramesAssumption DEF Frame, NoFrame
<1>4. ASSUME \A s \in Slots \ S : at[s] = NoFrame, NEW f \in Frame \ {NoFrame}
      PROVE  {s \in S : at[s] = f} = SlotsAt(at, f)
  BY <1>4 DEF SlotsAt
<1>5. \A f \in Frame \ {NoFrame} : Held(at, S)[f] = Cardinality({s \in S : at[s] = f})
  BY DEF Held
<1>6. Held(at, S) \in [Frame -> Nat] /\ Held(at, S)[NoFrame] = 0
  BY <1>2, <1>3 DEF Held
<1>7. (\A s \in Slots \ S : at[s] = NoFrame) =>
        \A f \in Frame \ {NoFrame} : Held(at, S)[f] = Cardinality(SlotsAt(at, f))
  BY <1>4, <1>5
<1>8. QED
  BY <1>2, <1>5, <1>6, <1>7

\* The pages of an image are pages, and its slots are slots.
LEMMA ImageIs ==
  ASSUME NEW sp \in Space
  PROVE  /\ Range(sp.image) \in SUBSET Pages /\ UserSlots(sp) \in SUBSET Slots
         /\ StackPages \in SUBSET Slots /\ Pages \in SUBSET Slots
         /\ StackPages \cap UserSlots(sp) = {}
<1>1. sp.image \in Images
  BY DEF Space
<1>2. Range(<<>>) = {}
  BY DEF Range
<1>3. \A program \in Programs : Range(program.pages) \in SUBSET Pages
  BY SpaceAssumption DEF Range
<1>4. Range(sp.image) \in SUBSET Pages
  BY <1>1, <1>2, <1>3 DEF Images
<1>5. QED
  BY <1>4, SpaceAssumption DEF UserSlots, Slots

\* A slot without an address space holds nothing.
LEMMA NoSpaceIs ==
  /\ NoSpace \in Space /\ \A s \in Slots : NoSpace.at[s] = NoFrame
  /\ \A p \in Pages : NoSpace.flags[p] = "none"
  /\ \A f \in Frame \ {NoFrame} : Cardinality(SlotsAt(NoSpace.at, f)) = 0
<1>1. NoFrame \in Frame /\ <<>> \in Images
  BY FramesAssumption DEF Frame, NoFrame, Images
<1>2. NoSpace \in Space /\ (\A s \in Slots : NoSpace.at[s] = NoFrame) /\ \A p \in Pages : NoSpace.flags[p] = "none"
  BY <1>1 DEF NoSpace, Space, Flags
<1>3. \A f \in Frame \ {NoFrame} : SlotsAt(NoSpace.at, f) = {}
  BY <1>2 DEF SlotsAt
<1>4. QED
  BY <1>2, <1>3, FS_EmptySet

\* A page with flags is on a frame, in an address space that is complete.
LEMMA MappedIs ==
  ASSUME NEW spaces, SpacesOK(spaces), NEW t \in Tasks, NEW p \in Pages, spaces[t].flags[p] # "none"
  PROVE  /\ Complete(spaces[t]) /\ p \in Slots /\ p \in Range(spaces[t].image)
         /\ spaces[t].at[p] # NoFrame /\ spaces[t].at[p] \in Frame
<1>1. spaces[t] # NoSpace /\ spaces[t] \in Space
  BY NoSpaceIs DEF SpacesOK
<1>2. Complete(spaces[t]) /\ p \in Slots
  BY <1>1, ImageIs DEF SpacesOK
<1>3. QED
  BY <1>1, <1>2 DEF Complete, UserSlots, Space

-----------------------------------------------------------------------------
(* Building and changing address spaces *)

\* An image whose pages, directory and table are on the frames F, each on one of its own, beside
\* the kernel stack of another address space.
OnNewFrames(new, F, sp, program) ==
  /\ new \in Space /\ Complete(new) /\ new.image = program.pages
  /\ \A p \in Pages : new.flags[p] # "none" => new.at[p] \in F
  /\ \A r, s \in Slots : r # s /\ new.at[r] = new.at[s] => new.at[s] \notin F
  /\ \A s \in Slots : \/ new.at[s] \in F \/ new.at[s] = NoFrame
                      \/ s \in StackPages /\ new.at[s] = sp.at[s]
  /\ \A f \in Frame \ {NoFrame} :
       Cardinality(SlotsAt(new.at, f)) = IF f \in F THEN 1 ELSE Cardinality({s \in StackPages : sp.at[s] = f})

\* What exec_load_path builds.
LEMMA LoadIs ==
  ASSUME Inv, NEW t \in Tasks, Complete(space[t]), NEW program \in Programs, NEW n, n = Len(LoadOrder(program)),
         Available(memory, n), NEW new, new = Load(memory, LoadOrder(program), space[t].at, program)
  PROVE  n \in Nat /\ OnNewFrames(new, Taken(memory, n), space[t], program)
<1> DEFINE order == LoadOrder(program)
           S == Range(program.pages) \cup {Directory, Table}
           old == space[t].at
           base == [s \in Slots |-> IF s \in StackPages THEN old[s] ELSE NoFrame]
           at == Placed(memory, order, base)
           flags == [p \in Pages |-> IF p \in program.writable THEN "rw"
                                     ELSE IF p \in Range(program.pages) THEN "ro" ELSE "none"]
<1>1. Lists(order, n, S) /\ n \in Nat
  BY LoadLists DEF Lists
<1>2. Range(program.pages) \in SUBSET Pages /\ program.writable \subseteq Range(program.pages)
  BY SpaceAssumption DEF Range
<1>3. S \in SUBSET Slots /\ S \cap StackPages = {} /\ StackPages \in SUBSET Slots
  BY <1>2, SpaceAssumption DEF Slots
<1>4. NoFrame \in Frame /\ old \in [Slots -> Frame] /\ memory \in Memory
  BY FramesAssumption DEF Inv, SpacesOK, Space, MemoryOK, Frame, NoFrame
<1>5. base \in [Slots -> Frame] /\ \A s \in Slots : base[s] = IF s \in StackPages THEN old[s] ELSE NoFrame
  BY <1>4
<1>6. \A s \in Slots \ S : memory.refs[base[s]] # 0
  BY <1>5, HeldInUse DEF Inv, MemoryOK
<1>7. new = [at |-> at, flags |-> flags, image |-> program.pages]
  BY DEF Load
<1>8. flags \in [Pages -> Flags] /\ \A p \in Pages : flags[p] # "none" <=> p \in Range(program.pages)
  BY <1>2 DEF Flags
<1> HIDE DEF S, base, order
<1>9. /\ at \in [Slots -> Frame]
      /\ \A s \in Slots \ S : at[s] = base[s]
      /\ \A s \in S : at[s] \in Taken(memory, n)
      /\ \A r, s \in S : at[r] = at[s] => r = s
      /\ \A f \in Frame : Cardinality(SlotsAt(at, f)) = IF f \in Taken(memory, n) THEN 1
                                                        ELSE Cardinality({s \in Slots \ S : base[s] = f})
  BY <1>1, <1>3, <1>4, <1>5, <1>6, PlacedIs
<1> HIDE DEF at, flags
<1>10. new \in Space /\ new.image = program.pages /\ new.at = at /\ new.flags = flags
  BY <1>7, <1>8, <1>9 DEF Space, Images
<1>11. \A f \in Taken(memory, n) : f \in Frame /\ f # NoFrame /\ memory.refs[f] = 0
  BY DEF Taken, Inv, MemoryOK
<1>12. UserSlots(new) = S
  BY <1>10 DEF UserSlots, S
<1>13. \A s \in StackPages : old[s] # NoFrame
  BY <1>3 DEF Complete
<1>14. Complete(new)
  <2>1. \A s \in Slots : at[s] # NoFrame <=> s \in StackPages \cup S
    BY <1>3, <1>5, <1>9, <1>11, <1>13
  <2>2. QED
    BY <1>8, <1>10, <1>12, <2>1 DEF Complete
<1>15. \A s \in Slots \ S : at[s] \notin Taken(memory, n)
  BY <1>6, <1>9, <1>11
<1>16. \A p \in Pages : flags[p] # "none" => p \in S
  BY <1>8 DEF S
<1>17. ASSUME NEW f \in Frame \ {NoFrame}
       PROVE  Cardinality(SlotsAt(at, f)) = IF f \in Taken(memory, n) THEN 1
                                            ELSE Cardinality({s \in StackPages : old[s] = f})
  <2>1. {s \in Slots \ S : base[s] = f} = {s \in StackPages : old[s] = f}
    BY <1>3, <1>5
  <2>2. QED
    BY <1>9, <2>1
<1>18. \A p \in Pages : new.flags[p] # "none" => new.at[p] \in Taken(memory, n)
  BY <1>9, <1>10, <1>16
<1>19. \A r, s \in Slots : r # s /\ new.at[r] = new.at[s] => new.at[s] \notin Taken(memory, n)
  BY <1>9, <1>10, <1>15
<1>20. \A s \in Slots : \/ new.at[s] \in Taken(memory, n) \/ new.at[s] = NoFrame
                        \/ s \in StackPages /\ new.at[s] = old[s]
  BY <1>5, <1>9, <1>10
<1>21. \A f \in Frame \ {NoFrame} :
         Cardinality(SlotsAt(new.at, f)) = IF f \in Taken(memory, n) THEN 1
                                           ELSE Cardinality({s \in StackPages : old[s] = f})
  BY <1>10, <1>17
<1>22. QED
  BY <1>1, <1>10, <1>14, <1>18, <1>19, <1>20, <1>21 DEF OnNewFrames

\* Making pages copy-on-write leaves them where they are.
LEMMA CopyOnWriteIs ==
  ASSUME NEW sp \in Space, NEW P, NEW c, c = CopyOnWrite(sp, P)
  PROVE  /\ c \in Space /\ c.at = sp.at /\ c.image = sp.image
         /\ \A p \in Pages : /\ c.flags[p] # "none" <=> sp.flags[p] # "none"
                             /\ c.flags[p] = "rw" => sp.flags[p] = "rw" /\ p \notin P
         /\ Complete(sp) => Complete(c)
<1> DEFINE flags == [p \in Pages |-> IF p \in P /\ sp.flags[p] = "rw" THEN "cow" ELSE sp.flags[p]]
<1>1. sp.flags \in [Pages -> Flags]
  BY DEF Space
<1>2. flags \in [Pages -> Flags] /\ \A p \in Pages : /\ flags[p] # "none" <=> sp.flags[p] # "none"
                                                     /\ flags[p] = "rw" => sp.flags[p] = "rw" /\ p \notin P
  BY <1>1 DEF Flags
<1>3. c = [sp EXCEPT !.flags = flags]
  BY DEF CopyOnWrite
<1> HIDE DEF flags
<1>4. c \in Space /\ c.at = sp.at /\ c.image = sp.image /\ c.flags = flags
  BY <1>2, <1>3 DEF Space
<1>5. Complete(sp) => Complete(c)
  BY <1>2, <1>4 DEF Complete, UserSlots
<1>6. QED
  BY <1>2, <1>4, <1>5

\* Nothing but who may write changes when a task makes pages copy-on-write.
LEMMA CopyOnWriteKept ==
  ASSUME NEW spaces, SpacesOK(spaces), Exclusive(spaces), NEW t \in Tasks, spaces[t] # NoSpace, NEW P,
         NEW after, after = PutSpace(spaces, t, CopyOnWrite(spaces[t], P))
  PROVE  /\ SpacesOK(after) /\ Exclusive(after)
         /\ \A f : Holders(after, f) = Holders(spaces, f)
         /\ \A d, v : Isolated(spaces, d, v) => Isolated(after, d, v)
<1> DEFINE c == CopyOnWrite(spaces[t], P)
<1>1. spaces \in [Tasks -> Space] /\ Complete(spaces[t])
  BY DEF SpacesOK
<1>2. /\ c \in Space /\ c.at = spaces[t].at
      /\ \A p \in Pages : /\ c.flags[p] # "none" <=> spaces[t].flags[p] # "none"
                          /\ c.flags[p] = "rw" => spaces[t].flags[p] = "rw"
      /\ Complete(c)
  BY <1>1, CopyOnWriteIs
<1>3. after = PutSpace(spaces, t, c)
  OBVIOUS
<1> HIDE DEF c
<1>4. /\ after \in [Tasks -> Space]
      /\ \A u \in Tasks : after[u] = IF u = t THEN c ELSE spaces[u]
  BY <1>1, <1>2, <1>3 DEF PutSpace
<1>5. \A u \in Tasks : /\ after[u].at = spaces[u].at
                       /\ \A p \in Pages : /\ after[u].flags[p] # "none" <=> spaces[u].flags[p] # "none"
                                           /\ after[u].flags[p] = "rw" => spaces[u].flags[p] = "rw"
  BY <1>2, <1>4
<1>6. SpacesOK(after)
  BY <1>2, <1>4 DEF SpacesOK
<1>7. Exclusive(after)
  BY <1>5 DEF Exclusive
<1>8. \A f : Holders(after, f) = Holders(spaces, f)
  BY <1>5 DEF Holders
<1>9. ASSUME NEW d, NEW v, Isolated(spaces, d, v) PROVE Isolated(after, d, v)
  BY <1>5, <1>9 DEF Isolated
<1>10. QED
  BY <1>6, <1>7, <1>8, <1>9

\* An address space that shares the pages of another one, none of them writable, and has its own
\* kernel stack, directory and table on the frames F.
Shares(new, F, sp) ==
  /\ new \in Space /\ Complete(new) /\ new.image = sp.image
  /\ \A p \in Pages : new.flags[p] # "rw"
  /\ \A p \in Range(sp.image) : new.at[p] = sp.at[p]
  /\ \A s \in Slots : \/ new.at[s] \in F \/ new.at[s] = NoFrame
                      \/ s \in Range(sp.image) /\ new.at[s] = sp.at[s]
  /\ \A f \in Frame \ {NoFrame} :
       Cardinality(SlotsAt(new.at, f)) = IF f \in F THEN 1 ELSE Cardinality({s \in Range(sp.image) : sp.at[s] = f})

\* What fork builds for the child.
LEMMA CloneIs ==
  ASSUME Inv, NEW t \in Tasks, Complete(space[t]), Available(memory, ForkFrames),
         NEW new, new = Clone(memory, space[t])
  PROVE  ForkFrames \in Nat /\ Shares(new, Taken(memory, ForkFrames), space[t])
<1> DEFINE order == KernelStack \o <<Directory, Table>>
           S == StackPages \cup {Directory, Table}
           sp == space[t]
           image == Range(space[t].image)
           base == [s \in Slots |-> IF s \in image THEN sp.at[s] ELSE NoFrame]
           at == Placed(memory, order, base)
           flags == CopyOnWrite(sp, image).flags
           n == ForkFrames
<1>1. Lists(order, n, S) /\ n \in Nat
  BY OtherLists DEF ForkFrames
<1>2. sp \in Space
  BY DEF Inv, SpacesOK
<1>3. /\ S \in SUBSET Slots /\ image \in SUBSET Pages /\ image \in SUBSET Slots /\ S \cap image = {}
      /\ UserSlots(sp) = image \cup {Directory, Table}
  BY <1>2, ImageIs, SpaceAssumption DEF Slots, UserSlots
<1>4. NoFrame \in Frame /\ sp.at \in [Slots -> Frame] /\ memory \in Memory
  BY <1>2, FramesAssumption DEF Inv, Space, MemoryOK, Frame, NoFrame
<1>5. base \in [Slots -> Frame] /\ \A s \in Slots : base[s] = IF s \in image THEN sp.at[s] ELSE NoFrame
  BY <1>4
<1>6. \A s \in Slots \ S : memory.refs[base[s]] # 0
  BY <1>5, HeldInUse DEF Inv, MemoryOK
<1>7. new = [at |-> at, flags |-> flags, image |-> sp.image]
  BY DEF Clone
<1>8. \A p \in Pages : sp.flags[p] # "none" <=> p \in image
  BY DEF Complete
<1>9. /\ flags \in [Pages -> Flags]
      /\ \A p \in Pages : /\ flags[p] # "none" <=> p \in image
                          /\ flags[p] # "rw"
  <2> DEFINE c == CopyOnWrite(sp, image)
  <2>1. /\ c \in Space
        /\ \A p \in Pages : /\ c.flags[p] # "none" <=> sp.flags[p] # "none"
                            /\ c.flags[p] = "rw" => sp.flags[p] = "rw" /\ p \notin image
    BY <1>2, CopyOnWriteIs
  <2> HIDE DEF c
  <2>2. c.flags \in [Pages -> Flags]
    BY <2>1 DEF Space
  <2>3. \A p \in Pages : (c.flags[p] # "none" <=> p \in image) /\ c.flags[p] # "rw"
    BY <1>8, <2>1
  <2>4. QED
    BY <2>2, <2>3 DEF c
<1> HIDE DEF S, base, order, n, flags
<1>10. /\ at \in [Slots -> Frame]
       /\ \A s \in Slots \ S : at[s] = base[s]
       /\ \A s \in S : at[s] \in Taken(memory, n)
       /\ \A f \in Frame : Cardinality(SlotsAt(at, f)) = IF f \in Taken(memory, n) THEN 1
                                                         ELSE Cardinality({s \in Slots \ S : base[s] = f})
  <2>1. Available(memory, n)
    BY DEF n
  <2>2. QED
    BY <1>1, <1>3, <1>4, <1>5, <1>6, <2>1, PlacedIs
<1> HIDE DEF at
<1>11. new \in Space /\ new.image = sp.image /\ new.at = at /\ new.flags = flags
  BY <1>2, <1>7, <1>9, <1>10 DEF Space
<1>12. \A f \in Taken(memory, n) : f # NoFrame
  BY DEF Taken, Inv, MemoryOK
<1>13. UserSlots(new) = UserSlots(sp)
  BY <1>11 DEF UserSlots
<1>14. \A s \in image : sp.at[s] # NoFrame
  BY <1>3 DEF Complete
<1>15. Complete(new)
  <2>1. StackPages \cup UserSlots(new) = S \cup image
    BY <1>3, <1>13 DEF S
  <2>2. \A s \in Slots : at[s] # NoFrame <=> s \in S \cup image
    BY <1>3, <1>5, <1>10, <1>12, <1>14
  <2>3. QED
    BY <1>9, <1>11, <2>1, <2>2 DEF Complete
<1>16. \A p \in image : at[p] = sp.at[p]
  BY <1>3, <1>5, <1>10
<1>17. \A s \in Slots : at[s] \in Taken(memory, n) \/ at[s] = NoFrame \/ (s \in image /\ at[s] = sp.at[s])
  BY <1>5, <1>10
<1>18. ASSUME NEW f \in Frame \ {NoFrame}
       PROVE  Cardinality(SlotsAt(at, f)) = IF f \in Taken(memory, n) THEN 1
                                            ELSE Cardinality({s \in image : sp.at[s] = f})
  <2>1. {s \in Slots \ S : base[s] = f} = {s \in image : sp.at[s] = f}
    BY <1>3, <1>5
  <2>2. QED
    BY <1>10, <2>1
<1>19. Shares(new, Taken(memory, n), sp)
  BY <1>9, <1>11, <1>15, <1>16, <1>17, <1>18 DEF Shares
<1>20. QED
  BY <1>1, <1>19 DEF n

\* The address space with page p on frame g, and writable.
Moved(sp, p, g) == [sp EXCEPT !.at[p] = g, !.flags[p] = "rw"]

\* Nothing else of the address space changes.
LEMMA MovedIs ==
  ASSUME NEW sp \in Space, NEW p \in Pages, NEW g \in Frame, NEW q, q = Moved(sp, p, g)
  PROVE  /\ q \in Space /\ q.image = sp.image
         /\ \A s \in Slots : q.at[s] = IF s = p THEN g ELSE sp.at[s]
         /\ \A r \in Pages : q.flags[r] = IF r = p THEN "rw" ELSE sp.flags[r]
<1> DEFINE at == [sp.at EXCEPT ![p] = g]
           flags == [sp.flags EXCEPT ![p] = "rw"]
<1>1. sp.at \in [Slots -> Frame] /\ sp.flags \in [Pages -> Flags] /\ p \in Slots
  BY DEF Space, Slots
<1>2. /\ at \in [Slots -> Frame] /\ \A s \in Slots : at[s] = IF s = p THEN g ELSE sp.at[s]
      /\ flags \in [Pages -> Flags] /\ \A r \in Pages : flags[r] = IF r = p THEN "rw" ELSE sp.flags[r]
  BY <1>1 DEF Flags
<1>3. q = [sp EXCEPT !.at = at, !.flags = flags]
  BY DEF Moved
<1> HIDE DEF at, flags
<1>4. q \in Space /\ q.image = sp.image /\ q.at = at /\ q.flags = flags
  BY <1>2, <1>3 DEF Space
<1>5. QED
  BY <1>2, <1>4

\* A copy-on-write page may be made writable on a frame that no other place holds and that
\* has the contents of the page.
LEMMA MovedKept ==
  ASSUME Inv, NEW t \in Tasks, NEW p \in Pages, space[t].flags[p] # "none",
         NEW g \in Frame, g # NoFrame, \A u \in Tasks, s \in Slots : space[u].at[s] = g => u = t /\ s = p,
         NEW after, after = PutSpace(space, t, Moved(space[t], p, g)),
         NEW d, d = [data EXCEPT ![g] = data[space[t].at[p]]]
  PROVE  /\ SpacesOK(after) /\ Exclusive(after) /\ Isolated(after, d, view) /\ ContentsOK(d, view)
         /\ after[t].at[p] = g /\ after[t].flags[p] = "rw"
<1> DEFINE sp == space[t]
           q == Moved(sp, p, g)
           old == sp.at[p]
<1>1. space \in [Tasks -> Space] /\ sp \in Space
  BY DEF Inv, SpacesOK
<1>2. Complete(sp) /\ p \in Slots /\ p \in Range(sp.image) /\ old # NoFrame /\ old \in Frame
  BY MappedIs DEF Inv
<1>3. /\ q \in Space /\ q.image = sp.image
      /\ \A s \in Slots : q.at[s] = IF s = p THEN g ELSE sp.at[s]
      /\ \A r \in Pages : q.flags[r] = IF r = p THEN "rw" ELSE sp.flags[r]
  BY <1>1, MovedIs
<1>4. after = PutSpace(space, t, q)
  OBVIOUS
<1> HIDE DEF q
<1>5. after \in [Tasks -> Space] /\ \A u \in Tasks : after[u] = IF u = t THEN q ELSE space[u]
  BY <1>1, <1>3, <1>4 DEF PutSpace
<1>6. Complete(q)
  BY <1>2, <1>3 DEF Complete, UserSlots
<1>7. SpacesOK(after)
  BY <1>5, <1>6 DEF Inv, SpacesOK
<1>8. \A r \in Pages : r \in Slots
  BY DEF Slots
<1>9. \A u \in Tasks, s \in Slots : after[u].at[s] = IF u = t /\ s = p THEN g ELSE space[u].at[s]
  BY <1>5, <1>3
<1>10. \A u \in Tasks, r \in Pages : after[u].flags[r] = IF u = t /\ r = p THEN "rw" ELSE space[u].flags[r]
  BY <1>5, <1>3
<1>11. Exclusive(after)
  BY <1>8, <1>9, <1>10 DEF Inv, Exclusive
<1>12. ContentsOK(d, view)
  BY <1>2 DEF Inv, ContentsOK
<1>13. Isolated(after, d, view)
  <2> SUFFICES ASSUME NEW u \in Tasks, NEW r \in Pages, after[u].flags[r] # "none"
               PROVE  d[after[u].at[r]] = view[u][r]
    BY DEF Isolated
  <2>1. data \in [Frame -> Values]
    BY DEF Inv, ContentsOK
  <2>2. r \in Slots /\ data[old] = view[t][p]
    BY <1>8 DEF Inv, Isolated
  <2>3. CASE u = t /\ r = p
    BY <1>2, <1>9, <2>1, <2>2, <2>3
  <2>4. CASE ~(u = t /\ r = p)
    <3>1. after[u].at[r] = space[u].at[r] /\ space[u].flags[r] # "none"
      BY <1>9, <1>10, <2>2, <2>4
    <3>2. data[space[u].at[r]] = view[u][r] /\ space[u].at[r] # g
      BY <2>2, <2>4, <3>1 DEF Inv, Isolated
    <3>3. space[u].at[r] \in Frame
      BY <2>2, HeldInUse
    <3>4. QED
      BY <2>1, <3>1, <3>2, <3>3
  <2>5. QED
    BY <2>3, <2>4
<1>14. QED
  BY <1>2, <1>7, <1>9, <1>10, <1>11, <1>12, <1>13

\* A page that moves to a frame not yet in use leaves its old frame with one holder less.
LEMMA MovedCounts ==
  ASSUME NEW sp \in Space, NEW p \in Pages, NEW g \in Frame, \A s \in Slots : sp.at[s] # g,
         NEW q, q = Moved(sp, p, g), NEW f
  PROVE  Cardinality(SlotsAt(q.at, f)) = IF f = g THEN 1
                                         ELSE IF f = sp.at[p] THEN Cardinality(SlotsAt(sp.at, f)) - 1
                                         ELSE Cardinality(SlotsAt(sp.at, f))
<1> DEFINE Q == SlotsAt(q.at, f)
           S == SlotsAt(sp.at, f)
<1>1. p \in Slots /\ \A s \in Slots : q.at[s] = IF s = p THEN g ELSE sp.at[s]
  BY MovedIs DEF Slots
<1>2. IsFiniteSet(S) /\ Cardinality(S) \in Nat
  BY SlotsFinite DEF SlotsAt
<1>3. CASE f = g
  <2>1. Q = {p}
    BY <1>1, <1>3 DEF SlotsAt
  <2>2. QED
    BY <1>3, <2>1, FS_Singleton
<1>4. CASE f # g /\ f = sp.at[p]
  <2>1. Q = S \ {p} /\ p \in S
    BY <1>1, <1>4 DEF SlotsAt
  <2> HIDE DEF Q, S
  <2>2. Cardinality(Q) = Cardinality(S) - 1
    BY <1>2, <2>1, FS_RemoveElement
  <2>3. QED
    BY <1>4, <2>2 DEF Q, S
<1>5. CASE f # g /\ f # sp.at[p]
  <2>1. Q = S
    BY <1>1, <1>5 DEF SlotsAt
  <2>2. QED
    BY <1>5, <2>1
<1>6. QED
  BY <1>3, <1>4, <1>5

\* A frame with one reference that a page is on has no other holder.
LEMMA SoleHolder ==
  ASSUME Inv, NEW t \in Tasks, NEW p \in Slots, space[t].at[p] # NoFrame, memory.refs[space[t].at[p]] = 1
  PROVE  \A u \in Tasks, s \in Slots : space[u].at[s] = space[t].at[p] => u = t /\ s = p
<1> DEFINE f == space[t].at[p]
           H == Holders(space, f)
<1>1. f \in Frame
  BY HeldInUse
<1>2. <<t, p>> \in H /\ IsFiniteSet(H) /\ Cardinality(H) \in Nat
  BY SlotsFinite DEF Holders
<1>3. 1 = Cardinality(H) + (IF f \in kernel THEN 1 ELSE 0)
  BY <1>1 DEF Inv, Exact
<1>4. \A u \in Tasks, s \in Slots : space[u].at[s] = f => <<u, s>> \in H
  BY DEF Holders
<1> HIDE DEF f, H
<1>5. Cardinality(H) # 0
  BY <1>2, FS_EmptySet
<1>6. Cardinality(H) = 1
  BY <1>2, <1>3, <1>5
<1>7. \E x : H = {x}
  BY <1>2, <1>6, FS_Singleton
<1>8. ASSUME NEW u \in Tasks, NEW s \in Slots, space[u].at[s] = f PROVE u = t /\ s = p
  <2>1. <<u, s>> = <<t, p>>
    BY <1>2, <1>4, <1>7, <1>8
  <2>2. QED
    BY <2>1
<1>9. QED
  BY <1>8 DEF f

\* A write through a page that may be written is seen by its task only.
LEMMA WriteKept ==
  ASSUME NEW spaces, SpacesOK(spaces), Exclusive(spaces), NEW d, NEW v, ContentsOK(d, v), Isolated(spaces, d, v),
         NEW t \in Tasks, NEW p \in Pages, spaces[t].flags[p] = "rw", NEW value \in Values,
         NEW d2, d2 = [d EXCEPT ![spaces[t].at[p]] = value], NEW v2, v2 = [v EXCEPT ![t][p] = value]
  PROVE  ContentsOK(d2, v2) /\ Isolated(spaces, d2, v2)
<1> DEFINE g == spaces[t].at[p]
<1>1. g \in Frame /\ p \in Slots
  BY MappedIs
<1>2. d \in [Frame -> Values] /\ v \in [Tasks -> [Pages -> Values]]
  BY DEF ContentsOK
<1>3. d2 \in [Frame -> Values] /\ \A f \in Frame : d2[f] = IF f = g THEN value ELSE d[f]
  BY <1>1, <1>2
<1>4. /\ v2 \in [Tasks -> [Pages -> Values]]
      /\ \A u \in Tasks, r \in Pages : v2[u][r] = IF u = t /\ r = p THEN value ELSE v[u][r]
  BY <1>2
<1>5. ASSUME NEW u \in Tasks, NEW r \in Pages, spaces[u].flags[r] # "none"
      PROVE  d2[spaces[u].at[r]] = v2[u][r]
  <2>1. spaces[u].at[r] \in Frame /\ r \in Slots
    BY <1>5, MappedIs
  <2>2. d[spaces[u].at[r]] = v[u][r]
    BY <1>5 DEF Isolated
  <2>3. spaces[u].at[r] = g <=> u = t /\ r = p
    BY <2>1 DEF Exclusive
  <2>4. QED
    BY <1>3, <1>4, <2>1, <2>2, <2>3
<1>6. QED
  BY <1>3, <1>4, <1>5 DEF ContentsOK, Isolated

\* The memory when proc_create_user_task is called.
BootMemory == [refs |-> [f \in Frame |-> IF f < BootFrames THEN 1 ELSE 0], next |-> BootFrames]

\* Exactly the frames in use at boot are counted.
LEMMA BootMemoryIs ==
  /\ BootMemory \in Memory /\ NoFrame \in Frame /\ 0 .. BootFrames - 1 \in SUBSET Frame
  /\ \A f \in Frame : BootMemory.refs[f] = IF f \in 0 .. BootFrames - 1 THEN 1 ELSE 0
  /\ NoFrame \in 0 .. BootFrames - 1
<1>1. BootFrames \in 1 .. FrameCount
  BY SpaceAssumption
<1> DEFINE refs == [f \in Frame |-> IF f < BootFrames THEN 1 ELSE 0]
           next == BootFrames
<1>2. refs \in [Frame -> Nat] /\ \A f \in Frame : refs[f] = IF f \in 0 .. BootFrames - 1 THEN 1 ELSE 0
  BY <1>1, FramesAssumption DEF Frame
<1>3. BootMemory = [refs |-> refs, next |-> next] /\ next \in 0 .. FrameCount
  BY <1>1, FramesAssumption DEF BootMemory
<1> HIDE DEF refs, next
<1>4. BootMemory \in Memory /\ BootMemory.refs = refs
  BY <1>2, <1>3 DEF Memory
<1>5. 0 .. BootFrames - 1 \in SUBSET Frame /\ NoFrame \in Frame /\ NoFrame \in 0 .. BootFrames - 1
  BY <1>1, FramesAssumption DEF Frame, NoFrame
<1>6. QED
  BY <1>2, <1>4, <1>5

\* The first address space: all of it is on frames of its own.
FirstSpace(new, F, pages) ==
  /\ new \in Space /\ Complete(new)
  /\ \A p \in Pages : new.flags[p] = "rw" => p \in pages
  /\ \A s \in Slots : new.at[s] \in F \/ new.at[s] = NoFrame
  /\ \A r, s \in Slots : new.at[r] = new.at[s] /\ new.at[r] # NoFrame => r = s
  /\ \A f \in Frame \ {NoFrame} : Cardinality(SlotsAt(new.at, f)) = IF f \in F THEN 1 ELSE 0

\* What proc_create_user_task builds.
LEMMA FirstSpaceIs ==
  ASSUME NEW program \in Programs, NEW n, n = Len(KernelStack \o LoadOrder(program)), Available(BootMemory, n),
         NEW new, new = Load(BootMemory, KernelStack \o LoadOrder(program), NoSpace.at, program)
  PROVE  n \in Nat /\ FirstSpace(new, Taken(BootMemory, n), Range(program.pages))
<1> DEFINE order == KernelStack \o LoadOrder(program)
           pages == Range(program.pages)
           S == StackPages \cup (pages \cup {Directory, Table})
           base == [s \in Slots |-> IF s \in StackPages THEN NoSpace.at[s] ELSE NoFrame]
           at == Placed(BootMemory, order, base)
           flags == [p \in Pages |-> IF p \in program.writable THEN "rw"
                                     ELSE IF p \in Range(program.pages) THEN "ro" ELSE "none"]
           F == Taken(BootMemory, n)
<1>1. Lists(order, n, S) /\ n \in Nat
  BY OtherLists, LoadLists DEF Lists
<1>2. pages \in SUBSET Pages /\ program.writable \subseteq pages
  BY SpaceAssumption DEF Range
<1>3. S \in SUBSET Slots
  BY <1>2 DEF Slots
<1>4. base \in [Slots -> Frame] /\ \A s \in Slots : base[s] = NoFrame
  BY NoSpaceIs, BootMemoryIs
<1>5. \A s \in Slots \ S : BootMemory.refs[base[s]] # 0
  BY <1>4, BootMemoryIs
<1>6. new = [at |-> at, flags |-> flags, image |-> program.pages]
  BY DEF Load
<1>7. /\ flags \in [Pages -> Flags]
      /\ \A p \in Pages : (flags[p] # "none" <=> p \in pages) /\ (flags[p] = "rw" => p \in pages)
  BY <1>2 DEF Flags
<1> HIDE DEF S, base, order, flags, pages
<1>8. /\ at \in [Slots -> Frame]
      /\ \A s \in Slots \ S : at[s] = base[s]
      /\ \A s \in S : at[s] \in F
      /\ \A r, s \in S : at[r] = at[s] => r = s
      /\ \A f \in Frame : Cardinality(SlotsAt(at, f)) = IF f \in F THEN 1
                                                        ELSE Cardinality({s \in Slots \ S : base[s] = f})
  BY <1>1, <1>3, <1>4, <1>5, BootMemoryIs, PlacedIs
<1> HIDE DEF at
<1>9. at \in [Slots -> Frame] /\ flags \in [Pages -> Flags] /\ program.pages \in Images
  BY <1>7, <1>8 DEF Images
<1>10. new \in Space /\ new.image = program.pages /\ new.at = at /\ new.flags = flags
  BY <1>6, <1>9 DEF Space
<1>11. \A f \in F : f # NoFrame
  BY BootMemoryIs DEF Taken
<1> HIDE DEF F
<1>12. StackPages \cup UserSlots(new) = S /\ Range(new.image) = pages
  BY <1>10 DEF UserSlots, S, pages
<1>13. \A s \in Slots : (at[s] # NoFrame <=> s \in S) /\ (at[s] \in F \/ at[s] = NoFrame)
  BY <1>4, <1>8, <1>11
<1>14. Complete(new)
  BY <1>7, <1>10, <1>12, <1>13 DEF Complete
<1>15. \A r, s \in Slots : at[r] = at[s] /\ at[r] # NoFrame => r = s
  BY <1>8, <1>13
<1>16. ASSUME NEW f \in Frame \ {NoFrame} PROVE Cardinality(SlotsAt(at, f)) = IF f \in F THEN 1 ELSE 0
  <2>1. {s \in Slots \ S : base[s] = f} = {}
    BY <1>4
  <2>2. QED
    BY <1>8, <2>1, FS_EmptySet
<1>17. FirstSpace(new, F, pages)
  BY <1>7, <1>10, <1>13, <1>14, <1>15, <1>16 DEF FirstSpace
<1>18. QED
  BY <1>1, <1>17 DEF F, pages

\* Frames taken and given back are counted as before.
LEMMA UndoneKept ==
  ASSUME Inv, NEW n \in Nat, Available(memory, n), NEW m, m = Undone(memory, n),
         NEW spaces, \A f : Holders(spaces, f) = Holders(space, f)
  PROVE  MemoryOK(m, kernel) /\ Exact(m, kernel, spaces)
<1>1. memory \in Memory /\ NoFrame \in Frame
  BY FramesAssumption DEF Inv, MemoryOK, Frame, NoFrame
<1>2. m \in Memory /\ \A f \in Frame : m.refs[f] = memory.refs[f]
  BY <1>1, UndoneIs
<1>3. MemoryOK(m, kernel)
  BY <1>1, <1>2 DEF Inv, MemoryOK
<1>4. Exact(m, kernel, spaces)
  BY <1>2 DEF Inv, Exact
<1>5. QED
  BY <1>3, <1>4

=============================================================================
