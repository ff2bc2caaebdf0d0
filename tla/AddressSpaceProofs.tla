------------------------- MODULE AddressSpaceProofs --------------------------
(***************************************************************************)
(* Proofs about user address spaces, for any number of tasks, frames,      *)
(* programs and pages: every frame is counted exactly, and no task sees    *)
(* the writes of another.                                                  *)
(***************************************************************************)
EXTENDS AddressSpaceLemmas

-----------------------------------------------------------------------------
(* The handlers keep the invariant *)

\* task_release_resources gives up one reference for every slot that has a frame.
LEMMA ReleaseInv ==
  ASSUME Inv, NEW t \in Live, Release(t)
  PROVE  Inv'
<1> DEFINE sp == space[t]
           S == UserSlots(sp) \cup StackPages
           drops == Held(sp.at, S)
<1>1. t \in Tasks /\ space \in [Tasks -> Space] /\ sp \in Space /\ sp # NoSpace /\ Complete(sp)
  BY DEF Inv, SpacesOK, Live
<1>2. /\ memory' = Drop(memory, drops) /\ space' = PutSpace(space, t, NoSpace)
      /\ view' = [view EXCEPT ![t] = NoView] /\ kernel' = kernel /\ data' = data
  BY DEF Release, PutSpace
<1>3. S \in SUBSET Slots /\ sp.at \in [Slots -> Frame]
  BY <1>1, ImageIs DEF Space
<1>4. \A s \in Slots \ S : sp.at[s] = NoFrame
  BY <1>1 DEF Complete
<1> HIDE DEF S
<1>5. /\ drops \in [Frame -> Nat] /\ drops[NoFrame] = 0
      /\ \A f \in Frame \ {NoFrame} : drops[f] = Cardinality(SlotsAt(sp.at, f))
  BY <1>3, <1>4, HeldIs
<1> HIDE DEF drops
<1>6. memory \in Memory /\ memory.refs \in [Frame -> Nat] /\ NoFrame \in Frame
  BY FramesAssumption DEF Inv, MemoryOK, Memory, Frame, NoFrame
<1>7. \A f \in Frame \ {NoFrame} :
        /\ memory.refs[f] = Cardinality(Holders(space, f)) + (IF f \in kernel THEN 1 ELSE 0)
        /\ Cardinality(Holders(space, f)) \in Nat /\ drops[f] <= Cardinality(Holders(space, f))
        /\ Cardinality(Holders(space', f)) = Cardinality(Holders(space, f)) - drops[f]
  <2> TAKE f \in Frame \ {NoFrame}
  <2>1. Cardinality(SlotsAt(NoSpace.at, f)) = 0 /\ NoSpace \in Space
    BY NoSpaceIs
  <2>2. /\ Cardinality(Holders(space, f)) \in Nat /\ Cardinality(SlotsAt(sp.at, f)) \in Nat
        /\ Cardinality(SlotsAt(sp.at, f)) <= Cardinality(Holders(space, f))
        /\ Cardinality(Holders(space', f)) = Cardinality(Holders(space, f))
              - Cardinality(SlotsAt(sp.at, f)) + Cardinality(SlotsAt(NoSpace.at, f))
    BY <1>1, <1>2, <2>1, HoldersChange
  <2>3. QED
    BY <1>5, <2>1, <2>2 DEF Inv, Exact
<1>8. \A f \in Frame : drops[f] <= memory.refs[f]
  BY <1>5, <1>6, <1>7
<1>9. memory' \in Memory /\ \A f \in Frame : memory'.refs[f] = memory.refs[f] - drops[f]
  BY <1>2, <1>5, <1>6, <1>8, DropIs
<1>10. MemoryOK(memory', kernel')
  BY <1>2, <1>5, <1>6, <1>9 DEF Inv, MemoryOK
<1>11. Exact(memory', kernel', space')
  BY <1>2, <1>5, <1>7, <1>9 DEF Exact
<1>12. \A u \in Tasks : space'[u] = IF u = t THEN NoSpace ELSE space[u]
  BY <1>1, <1>2 DEF PutSpace
<1>13. SpacesOK(space')
  BY <1>1, <1>2, <1>12, NoSpaceIs DEF Inv, SpacesOK, PutSpace
<1>14. Exclusive(space')
  <2>1. SUFFICES ASSUME NEW a \in Tasks, NEW b \in Tasks, NEW p \in Pages, NEW s \in Slots,
                        space'[a].flags[p] = "rw", space'[b].at[s] = space'[a].at[p]
                 PROVE  b = a /\ s = p
    BY DEF Exclusive
  <2>2. a # t /\ space'[a] = space[a]
    BY <1>12, <2>1, NoSpaceIs
  <2>3. space[a].at[p] # NoFrame
    <3>1. space[a] # NoSpace
      BY <2>1, <2>2, NoSpaceIs
    <3>2. Complete(space[a]) /\ p \in Slots /\ space[a].flags[p] # "none"
      BY <2>1, <2>2, <3>1, NoSpaceIs, ImageIs DEF Inv, SpacesOK
    <3>3. QED
      BY <3>2 DEF Complete, UserSlots
  <2>4. b # t
    BY <1>12, <2>1, <2>2, <2>3, NoSpaceIs
  <2>5. QED
    BY <1>12, <2>1, <2>2, <2>4 DEF Inv, Exclusive
<1>15. view' \in [Tasks -> [Pages -> Values]] /\ \A u \in Tasks \ {t} : view'[u] = view[u]
  BY <1>2, SpaceAssumption DEF Inv, ContentsOK, NoView
<1>16. ContentsOK(data', view')
  BY <1>2, <1>15 DEF Inv, ContentsOK
<1>17. Isolated(space', data', view')
  BY <1>2, <1>12, <1>15, NoSpaceIs DEF Inv, Isolated
<1>18. QED
  BY <1>10, <1>11, <1>13, <1>14, <1>16, <1>17 DEF Inv

\* exec takes the frames of the new image and then gives up those of the old one.
LEMMA ExecInv ==
  ASSUME Inv, NEW t \in Live, NEW program \in Programs, Exec(t, program)
  PROVE  Inv'
<1> DEFINE n == Len(LoadOrder(program))
           sp == space[t]
           new == Load(memory, LoadOrder(program), sp.at, program)
           drops == Held(sp.at, UserSlots(sp))
           took == Take(memory, n)
<1>1. t \in Tasks /\ space \in [Tasks -> Space] /\ sp \in Space /\ sp # NoSpace /\ Complete(sp)
  BY DEF Inv, SpacesOK, Live
<1>2. /\ Available(memory, n) /\ memory' = Drop(took, drops) /\ space' = PutSpace(space, t, new)
      /\ data' = [f \in Frame |-> IF \E p \in Range(program.pages) : new.at[p] = f THEN Loaded ELSE data[f]]
      /\ view' = [view EXCEPT ![t] = NoView] /\ kernel' = kernel
  BY DEF Exec, PutSpace
<1>3. /\ n \in Nat /\ new \in Space /\ Complete(new) /\ new.image = program.pages
      /\ \A p \in Pages : new.flags[p] # "none" => new.at[p] \in Taken(memory, n)
      /\ \A r, s \in Slots : r # s /\ new.at[r] = new.at[s] => new.at[s] \notin Taken(memory, n)
      /\ \A s \in Slots : \/ new.at[s] \in Taken(memory, n) \/ new.at[s] = NoFrame
                          \/ s \in StackPages /\ new.at[s] = sp.at[s]
      /\ \A f \in Frame \ {NoFrame} :
           Cardinality(SlotsAt(new.at, f)) = IF f \in Taken(memory, n) THEN 1
                                             ELSE Cardinality({s \in StackPages : sp.at[s] = f})
  <2>1. t \in Tasks /\ Complete(space[t]) /\ Available(memory, n)
    BY <1>1, <1>2
  <2>2. n \in Nat /\ OnNewFrames(new, Taken(memory, n), space[t], program)
    BY <2>1, LoadIs
  <2> HIDE DEF n, new
  <2>3. QED
    BY <2>2 DEF OnNewFrames
<1>4. UserSlots(sp) \in SUBSET Slots /\ StackPages \in SUBSET Slots /\ StackPages \cap UserSlots(sp) = {}
      /\ sp.at \in [Slots -> Frame]
  BY <1>1, ImageIs DEF Space
<1>5. /\ drops \in [Frame -> Nat] /\ drops[NoFrame] = 0
      /\ \A f \in Frame \ {NoFrame} : drops[f] = Cardinality({s \in UserSlots(sp) : sp.at[s] = f})
  BY <1>4, HeldIs
<1>6. memory \in Memory /\ memory.refs \in [Frame -> Nat] /\ NoFrame \in Frame
  BY FramesAssumption DEF Inv, MemoryOK, Memory, Frame, NoFrame
<1>7. took \in Memory /\ \A f \in Frame : took.refs[f] = IF f \in Taken(memory, n) THEN 1 ELSE memory.refs[f]
  BY <1>2, <1>3, <1>6, TakeIs
<1> HIDE DEF n, new, drops, took
<1>8. \A f \in Taken(memory, n) :
        /\ f \in Frame \ {NoFrame} /\ memory.refs[f] = 0 /\ f \notin kernel
        /\ \A u \in Tasks, s \in Slots : space[u].at[s] # f
        /\ Cardinality(Holders(space, f)) = 0
        /\ \A S \in SUBSET Slots : Cardinality({s \in S : space[t].at[s] = f}) = 0
  BY <1>1, FreeUnheld DEF Taken
<1>9. ASSUME NEW f \in Frame \ {NoFrame}
      PROVE  /\ drops[f] <= took.refs[f]
             /\ took.refs[f] - drops[f]
                  = Cardinality(Holders(space', f)) + (IF f \in kernel THEN 1 ELSE 0)
  <2> DEFINE stack == {s \in StackPages : sp.at[s] = f}
             user == {s \in UserSlots(sp) : sp.at[s] = f}
  <2>1. SlotsAt(sp.at, f) = stack \cup user /\ stack \cap user = {}
    BY <1>1, <1>4 DEF SlotsAt, Complete
  <2>2. /\ IsFiniteSet(stack) /\ IsFiniteSet(user) /\ Cardinality(stack) \in Nat /\ Cardinality(user) \in Nat
    BY <1>4, SlotsFinite
  <2>3. drops[f] = Cardinality(user)
    BY <1>5
  <2>4. Cardinality(SlotsAt(new.at, f)) = IF f \in Taken(memory, n) THEN 1 ELSE Cardinality(stack)
    BY <1>3
  <2>5. f \in Taken(memory, n) => Cardinality(stack) = 0 /\ Cardinality(user) = 0
    BY <1>4, <1>8
  <2> HIDE DEF stack, user
  <2>6. Cardinality(stack \cup user) = Cardinality(stack) + Cardinality(user) - Cardinality(stack \cap user)
    BY <2>2, FS_Union
  <2>7. Cardinality(stack \cap user) = 0
    BY <2>1, FS_EmptySet, Zenon
  <2>8. Cardinality(SlotsAt(sp.at, f)) = Cardinality(stack) + Cardinality(user)
    BY <2>1, <2>2, <2>6, <2>7
  <2>9. /\ Cardinality(Holders(space, f)) \in Nat
        /\ Cardinality(SlotsAt(sp.at, f)) <= Cardinality(Holders(space, f))
        /\ Cardinality(Holders(space', f)) = Cardinality(Holders(space, f))
              - Cardinality(SlotsAt(sp.at, f)) + Cardinality(SlotsAt(new.at, f))
    BY <1>1, <1>2, <1>3, HoldersChange
  <2>10. memory.refs[f] = Cardinality(Holders(space, f)) + (IF f \in kernel THEN 1 ELSE 0)
    BY DEF Inv, Exact
  <2>11. CASE f \in Taken(memory, n)
    BY <1>7, <1>8, <2>2, <2>3, <2>4, <2>5, <2>8, <2>9, <2>11
  <2>12. CASE f \notin Taken(memory, n)
    BY <1>7, <2>2, <2>3, <2>4, <2>8, <2>9, <2>10, <2>12
  <2>13. QED
    BY <2>11, <2>12
<1>10. NoFrame \notin Taken(memory, n) /\ took.refs[NoFrame] = memory.refs[NoFrame]
  BY <1>6, <1>7, <1>8
<1>11. \A f \in Frame : drops[f] <= took.refs[f]
  BY <1>5, <1>6, <1>9, <1>10
<1>12. memory' \in Memory /\ \A f \in Frame : memory'.refs[f] = took.refs[f] - drops[f]
  BY <1>2, <1>5, <1>7, <1>11, DropIs
<1>13. MemoryOK(memory', kernel')
  BY <1>2, <1>5, <1>6, <1>10, <1>12 DEF Inv, MemoryOK
<1>14. Exact(memory', kernel', space')
  BY <1>2, <1>9, <1>12 DEF Exact
<1>15. \A u \in Tasks : space'[u] = IF u = t THEN new ELSE space[u]
  BY <1>1, <1>2 DEF PutSpace
<1>16. SpacesOK(space')
  BY <1>1, <1>2, <1>3, <1>15 DEF Inv, SpacesOK, PutSpace
<1>17. Exclusive(space')
  <2>1. SUFFICES ASSUME NEW a \in Tasks, NEW b \in Tasks, NEW p \in Pages, NEW s \in Slots,
                        space'[a].flags[p] = "rw", space'[b].at[s] = space'[a].at[p]
                 PROVE  b = a /\ s = p
    BY DEF Exclusive
  <2>2. p \in Slots /\ space'[a].at[p] # NoFrame /\ space'[a].at[p] \in Frame
    BY <1>16, <2>1, MappedIs
  <2>3. CASE a = t
    <3>1. new.at[p] \in Taken(memory, n) /\ space'[a].at[p] = new.at[p]
      BY <1>3, <1>15, <2>1, <2>3
    <3>2. b = t
      BY <1>8, <1>15, <2>1, <3>1
    <3>3. QED
      BY <1>3, <1>15, <2>1, <2>2, <2>3, <3>1, <3>2
  <2>4. CASE a # t /\ b = t
    <3>1. space[a].flags[p] = "rw" /\ new.at[s] = space[a].at[p] /\ space[a].at[p] # NoFrame
      BY <1>15, <2>1, <2>2, <2>4
    <3>2. new.at[s] \notin Taken(memory, n)
      BY <1>8, <2>2, <3>1
    <3>3. sp.at[s] = space[a].at[p]
      BY <1>3, <3>1, <3>2
    <3>4. QED
      BY <1>1, <2>4, <3>1, <3>3 DEF Inv, Exclusive
  <2>5. CASE a # t /\ b # t
    BY <1>15, <2>1, <2>5 DEF Inv, Exclusive
  <2>6. QED
    BY <2>3, <2>4, <2>5
<1>18. ContentsOK(data', view') /\ \A u \in Tasks : view'[u] = IF u = t THEN NoView ELSE view[u]
  BY <1>1, <1>2, SpaceAssumption DEF Inv, ContentsOK, NoView
<1>19. Isolated(space', data', view')
  <2>1. SUFFICES ASSUME NEW u \in Tasks, NEW p \in Pages, space'[u].flags[p] # "none"
                 PROVE  data'[space'[u].at[p]] = view'[u][p]
    BY DEF Isolated
  <2>2. p \in Slots /\ space'[u].at[p] \in Frame /\ p \in Range(space'[u].image)
    BY <1>16, <2>1, MappedIs
  <2>3. CASE u = t
    <3>1. p \in Range(program.pages) /\ space'[u].at[p] = new.at[p]
      BY <1>3, <1>15, <2>2, <2>3
    <3>2. data'[space'[u].at[p]] = Loaded
      BY <1>2, <2>2, <3>1
    <3>3. QED
      BY <1>18, <2>3, <3>2 DEF NoView
  <2>4. CASE u # t
    <3>1. space'[u] = space[u] /\ view'[u] = view[u]
      BY <1>15, <1>18, <2>4
    <3>2. ASSUME NEW q \in Range(program.pages) PROVE new.at[q] # space[u].at[p]
      <4>1. q \in Pages /\ new.flags[q] # "none"
        BY <1>3, SpaceAssumption DEF Complete, Range
      <4>2. QED
        BY <1>3, <1>8, <2>2, <4>1
    <3>3. data'[space[u].at[p]] = data[space[u].at[p]]
      BY <1>2, <2>2, <3>1, <3>2
    <3>4. QED
      BY <2>1, <3>1, <3>3 DEF Inv, Isolated
  <2>5. QED
    BY <2>3, <2>4
<1>20. QED
  BY <1>13, <1>14, <1>16, <1>17, <1>18, <1>19 DEF Inv

\* A failed exec changes nothing that is counted or seen.
LEMMA ExecFailsInv ==
  ASSUME Inv, NEW program \in Programs, ExecFails(program)
  PROVE  Inv'
<1>1. PICK n \in 0 .. Len(LoadOrder(program)) : /\ Available(memory, n) /\ memory' = Undone(memory, n)
                                                /\ UNCHANGED <<kernel, data, space, view>>
  BY DEF ExecFails
<1>2. n \in Nat
  BY <1>1
<1>3. MemoryOK(memory', kernel) /\ Exact(memory', kernel, space)
  BY <1>1, <1>2, UndoneKept
<1>4. QED
  BY <1>1, <1>3 DEF Inv

\* After fork parent and child share the pages, and neither may write them without a fault.
LEMMA ForkInv ==
  ASSUME Inv, NEW t \in Live, NEW child \in Tasks, Fork(t, child)
  PROVE  Inv'
<1> DEFINE sp == space[t]
           image == Range(sp.image)
           gains == Held(sp.at, image)
           took == Take(memory, ForkFrames)
           T == Taken(memory, ForkFrames)
           new == Clone(memory, sp)
           between == PutSpace(space, t, CopyOnWrite(sp, image))
<1>1. t \in Tasks /\ space \in [Tasks -> Space] /\ sp \in Space /\ sp # NoSpace /\ Complete(sp)
  BY DEF Inv, SpacesOK, Live
<1>2. /\ space[child] = NoSpace /\ Available(memory, ForkFrames)
      /\ memory' = Retain(took, gains) /\ kernel' = kernel /\ data' = data
      /\ view' = [view EXCEPT ![child] = view[t]]
  BY DEF Fork
<1>3. t # child
  BY <1>1, <1>2
<1>4. space' = PutSpace(between, child, new)
  BY <1>1, <1>3 DEF Fork, PutSpace
<1>5. ForkFrames \in Nat /\ Shares(new, T, sp)
  BY <1>1, <1>2, CloneIs
<1>6. /\ SpacesOK(between) /\ Exclusive(between)
      /\ (\A f : Holders(between, f) = Holders(space, f)) /\ Isolated(between, data, view)
  <2>1. SpacesOK(space) /\ Exclusive(space) /\ Isolated(space, data, view)
    BY DEF Inv
  <2>2. QED
    BY <1>1, <2>1, CopyOnWriteKept
<1>7. /\ between[child] = NoSpace
      /\ \A u \in Tasks : /\ u # t => between[u] = space[u]
                          /\ between[u].at = space[u].at
      /\ \A p \in Pages : between[t].flags[p] # "rw"
  <2> DEFINE c == CopyOnWrite(sp, image)
  <2>1. /\ c \in Space /\ c.at = sp.at
        /\ \A p \in Pages : c.flags[p] = "rw" => sp.flags[p] = "rw" /\ p \notin image
    BY <1>1, CopyOnWriteIs
  <2>2. \A p \in Pages : sp.flags[p] = "rw" => p \in image
    BY <1>1 DEF Complete
  <2>3. between = PutSpace(space, t, c)
    OBVIOUS
  <2> HIDE DEF c, between
  <2>4. \A u \in Tasks : between[u] = IF u = t THEN c ELSE space[u]
    BY <1>1, <2>1, <2>3 DEF PutSpace
  <2>5. QED
    BY <1>1, <1>2, <1>3, <2>1, <2>2, <2>4
<1>8. image \in SUBSET Slots /\ sp.at \in [Slots -> Frame] /\ memory \in Memory /\ NoFrame \in Frame
  BY <1>1, ImageIs, FramesAssumption DEF Space, Inv, MemoryOK, Frame, NoFrame, Slots
<1>9. /\ gains \in [Frame -> Nat] /\ gains[NoFrame] = 0
      /\ \A f \in Frame \ {NoFrame} : gains[f] = Cardinality({s \in image : sp.at[s] = f})
  BY <1>8, HeldIs
<1>10. took \in Memory /\ \A f \in Frame : took.refs[f] = IF f \in T THEN 1 ELSE memory.refs[f]
  BY <1>2, <1>5, <1>8, TakeIs
<1>11. \A f \in T : f \in Frame /\ memory.refs[f] = 0
  BY DEF Taken
<1> HIDE DEF gains, took, T, new, between
<1>12. memory' \in Memory /\ \A f \in Frame : memory'.refs[f] = took.refs[f] + gains[f]
  BY <1>2, <1>9, <1>10, RetainIs
<1>13. memory.refs[NoFrame] # 0 /\ memory.refs \in [Frame -> Nat]
  BY <1>8 DEF Inv, MemoryOK, Memory
<1>14. MemoryOK(memory', kernel')
  <2>1. memory'.refs[NoFrame] # 0
    BY <1>8, <1>9, <1>10, <1>11, <1>12, <1>13
  <2>2. QED
    BY <1>2, <1>12, <2>1 DEF Inv, MemoryOK
<1>15. new \in Space /\ between \in [Tasks -> Space] /\ Complete(new)
  BY <1>5, <1>6 DEF Shares, SpacesOK
<1>16. space' \in [Tasks -> Space] /\ \A u \in Tasks : space'[u] = IF u = child THEN new ELSE between[u]
  BY <1>4, <1>15 DEF PutSpace
<1>17. SpacesOK(space')
  BY <1>6, <1>15, <1>16 DEF SpacesOK
<1>18. Exact(memory', kernel', space')
  <2> SUFFICES ASSUME NEW f \in Frame \ {NoFrame}
               PROVE  memory'.refs[f] = Cardinality(Holders(space', f)) + (IF f \in kernel THEN 1 ELSE 0)
    BY <1>2 DEF Exact
  <2>1. /\ Cardinality(Holders(between, f)) \in Nat
        /\ Cardinality(Holders(space', f)) = Cardinality(Holders(between, f))
              - Cardinality(SlotsAt(between[child].at, f)) + Cardinality(SlotsAt(new.at, f))
    BY <1>4, <1>15, HoldersChange
  <2>2. Cardinality(SlotsAt(between[child].at, f)) = 0
    BY <1>7, NoSpaceIs
  <2>3. Cardinality(Holders(between, f)) = Cardinality(Holders(space, f))
    BY <1>6
  <2>4. memory.refs[f] = Cardinality(Holders(space, f)) + (IF f \in kernel THEN 1 ELSE 0)
    BY DEF Inv, Exact
  <2>5. Cardinality(SlotsAt(new.at, f)) = IF f \in T THEN 1 ELSE gains[f]
    BY <1>5, <1>9 DEF Shares
  <2>6. CASE f \in T
    <3>1. gains[f] = 0 /\ f \notin kernel /\ Cardinality(Holders(space, f)) = 0
      <4>1. /\ f \notin kernel /\ Cardinality(Holders(space, f)) = 0
            /\ \A u \in Tasks, s \in Slots : space[u].at[s] # f
        BY <1>11, <2>6, FreeUnheld
      <4>2. {s \in image : sp.at[s] = f} = {}
        BY <1>1, <1>8, <4>1
      <4>3. gains[f] = 0
        BY <1>9, <4>2, FS_EmptySet
      <4>4. QED
        BY <4>1, <4>3
    <3>2. QED
      BY <1>10, <1>12, <2>1, <2>2, <2>3, <2>5, <2>6, <3>1
  <2>7. CASE f \notin T
    BY <1>9, <1>10, <1>12, <2>1, <2>2, <2>3, <2>4, <2>5, <2>7
  <2>8. QED
    BY <2>6, <2>7
<1>19. Exclusive(space')
  <2> SUFFICES ASSUME NEW w \in Tasks, NEW u \in Tasks, NEW p \in Pages, NEW s \in Slots,
                      space'[w].flags[p] = "rw", space'[u].at[s] = space'[w].at[p]
               PROVE  u = w /\ s = p
    BY DEF Exclusive
  <2>1. w # child /\ w # t
    BY <1>5, <1>7, <1>16 DEF Shares
  <2>2. space'[w] = space[w] /\ space[w].flags[p] = "rw"
    BY <1>7, <1>16, <2>1
  <2>3. /\ p \in Slots /\ space[w].at[p] # NoFrame
        /\ space[w].at[p] \in Frame /\ memory.refs[space[w].at[p]] # 0
    <3>1. p \in Slots /\ space[w].at[p] # NoFrame
      BY <2>2, MappedIs DEF Inv
    <3>2. QED
      BY <3>1, HeldInUse
  <2>4. CASE u # child
    BY <1>7, <1>16, <2>2, <2>4 DEF Inv, Exclusive
  <2>5. CASE u = child
    <3>1. s \in image /\ space[w].at[p] = space[t].at[s]
      BY <1>5, <1>11, <1>16, <2>2, <2>3, <2>5 DEF Shares
    <3>2. QED
      BY <1>1, <2>1, <2>2, <3>1 DEF Inv, Exclusive
  <2>6. QED
    BY <2>4, <2>5
<1>20. view \in [Tasks -> [Pages -> Values]]
  BY DEF Inv, ContentsOK
<1>21. ContentsOK(data', view')
  BY <1>1, <1>2, <1>20 DEF Inv, ContentsOK
<1>22. Isolated(space', data', view')
  <2> SUFFICES ASSUME NEW u \in Tasks, NEW p \in Pages, space'[u].flags[p] # "none"
               PROVE  data[space'[u].at[p]] = view'[u][p]
    BY <1>2 DEF Isolated
  <2>1. CASE u # child
    BY <1>2, <1>6, <1>16, <1>20, <2>1 DEF Isolated
  <2>2. CASE u = child
    <3>1. p \in image
      BY <1>5, <1>16, <2>2 DEF Shares, Complete
    <3>2. space'[u].at[p] = sp.at[p] /\ sp.flags[p] # "none"
      BY <1>1, <1>5, <1>16, <2>2, <3>1 DEF Shares, Complete
    <3>3. data[sp.at[p]] = view[t][p]
      BY <1>1, <3>2 DEF Inv, Isolated
    <3>4. QED
      BY <1>2, <1>20, <2>2, <3>2, <3>3
  <2>3. QED
    BY <2>1, <2>2
<1>23. QED
  BY <1>14, <1>17, <1>18, <1>19, <1>21, <1>22 DEF Inv

\* A failed fork may leave the first page of the parent copy-on-write, and nothing else.
LEMMA ForkFailsInv ==
  ASSUME Inv, NEW t \in Live, ForkFails(t)
  PROVE  Inv'
<1>1. PICK n \in 0 .. ForkFrames - 1 :
        /\ Available(memory, n) /\ memory' = Undone(memory, n)
        /\ space' = IF n = ForkFrames - 1
                      THEN [space EXCEPT ![t] = CopyOnWrite(@, {Head(@.image)})] ELSE space
        /\ UNCHANGED <<kernel, data, view>>
  BY DEF ForkFails
<1>2. n \in Nat /\ t \in Tasks /\ space[t] # NoSpace
  BY <1>1 DEF Live
<1> DEFINE P == {Head(space[t].image)}
<1>3. space' = space \/ space' = PutSpace(space, t, CopyOnWrite(space[t], P))
  BY <1>1, <1>2 DEF PutSpace, Inv, SpacesOK
<1> HIDE DEF P
<1>4. /\ SpacesOK(space') /\ Exclusive(space') /\ Isolated(space', data, view)
      /\ \A f : Holders(space', f) = Holders(space, f)
  <2>1. CASE space' = space
    BY <2>1 DEF Inv, SpacesOK, Exclusive, Isolated, Holders
  <2>2. CASE space' = PutSpace(space, t, CopyOnWrite(space[t], P))
    BY <1>2, <2>2, CopyOnWriteKept DEF Inv
  <2>3. QED
    BY <1>3, <2>1, <2>2
<1>5. MemoryOK(memory', kernel) /\ Exact(memory', kernel, space')
  BY <1>1, <1>2, <1>4, UndoneKept
<1>6. QED
  BY <1>1, <1>4, <1>5 DEF Inv

\* The kernel takes and returns frames of its own.
LEMMA KernelTakesInv ==
  ASSUME Inv, KernelTakes
  PROVE  Inv'
<1> DEFINE g == Nth(memory, 1)
<1>1. /\ Available(memory, 1) /\ memory' = Take(memory, 1) /\ kernel' = kernel \cup {g}
      /\ data' = data /\ space' = space /\ view' = view
  BY DEF KernelTakes
<1>2. memory \in Memory /\ NoFrame \in Frame
  BY FramesAssumption DEF Inv, MemoryOK, Frame, NoFrame
<1>3. /\ g \in Frame /\ memory.refs[g] = 0
      /\ memory' \in Memory /\ \A f \in Frame : memory'.refs[f] = IF f = g THEN 1 ELSE memory.refs[f]
  BY <1>1, <1>2, TakeOne
<1> HIDE DEF g
<1>4. g # NoFrame /\ g \notin kernel /\ Cardinality(Holders(space, g)) = 0
  BY <1>3, FreeUnheld
<1>5. MemoryOK(memory', kernel')
  BY <1>1, <1>2, <1>3, <1>4 DEF Inv, MemoryOK
<1>6. Exact(memory', kernel', space)
  BY <1>1, <1>3, <1>4 DEF Inv, Exact
<1>7. QED
  BY <1>1, <1>5, <1>6 DEF Inv

\* Only frames taken after boot are returned, so frame 0 never is.
LEMMA KernelReturnsInv ==
  ASSUME Inv, NEW g \in kernel, KernelReturns(g)
  PROVE  Inv'
<1> DEFINE drops == [f \in Frame |-> IF f = g THEN 1 ELSE 0]
<1>1. /\ g >= BootFrames /\ memory' = Drop(memory, drops) /\ kernel' = kernel \ {g}
      /\ data' = data /\ space' = space /\ view' = view
  BY DEF KernelReturns
<1>2. memory \in Memory /\ NoFrame \in Frame /\ g \in Frame
  BY FramesAssumption DEF Inv, MemoryOK, Frame, NoFrame
<1>3. g # NoFrame
  BY <1>1, SpaceAssumption DEF NoFrame
<1>4. memory.refs \in [Frame -> Nat]
  BY <1>2 DEF Memory
<1>5. \A f \in Frame \ {NoFrame} : Cardinality(Holders(space, f)) \in Nat
  BY SlotsFinite DEF Holders
<1>6. memory.refs[g] >= 1
  BY <1>2, <1>3, <1>5 DEF Inv, Exact
<1>7. drops \in [Frame -> Nat] /\ \A f \in Frame : drops[f] <= memory.refs[f]
  BY <1>4, <1>6
<1>8. \A f \in Frame : drops[f] = IF f = g THEN 1 ELSE 0
  OBVIOUS
<1> HIDE DEF drops
<1>9. memory' \in Memory /\ \A f \in Frame : memory'.refs[f] = memory.refs[f] - drops[f]
  BY <1>1, <1>2, <1>7, DropIs
<1>10. \A f \in Frame : memory'.refs[f] = IF f = g THEN memory.refs[f] - 1 ELSE memory.refs[f]
  BY <1>4, <1>8, <1>9
<1>11. MemoryOK(memory', kernel')
  BY <1>1, <1>2, <1>3, <1>9, <1>10 DEF Inv, MemoryOK
<1>12. Exact(memory', kernel', space)
  BY <1>1, <1>5, <1>10 DEF Inv, Exact
<1>13. QED
  BY <1>1, <1>11, <1>12 DEF Inv

\* What resolving a copy-on-write page leaves: the invariant, and a page that may be written.
LEMMA ResolvedIs ==
  ASSUME Inv, NEW t \in Tasks, NEW p \in Pages, Resolvable(t, p), NEW r, r = Resolved(t, p)
  PROVE  /\ MemoryOK(r.memory, kernel) /\ SpacesOK(r.space) /\ ContentsOK(r.data, view)
         /\ Exact(r.memory, kernel, r.space) /\ Exclusive(r.space) /\ Isolated(r.space, r.data, view)
         /\ r.frame = r.space[t].at[p] /\ r.space[t].flags[p] = "rw"
<1> DEFINE sp == space[t]
           old == sp.at[p]
           g == IF Shared(t, p) THEN Nth(memory, 1) ELSE old
           took == Take(memory, 1)
           drops == [f \in Frame |-> IF f = old THEN 1 ELSE 0]
           after == PutSpace(space, t, Moved(sp, p, g))
           d == [data EXCEPT ![g] = data[old]]
           m == IF Shared(t, p) THEN Drop(took, drops) ELSE memory
<1>1. space \in [Tasks -> Space] /\ sp \in Space /\ sp.flags[p] # "none"
  BY DEF Inv, SpacesOK, Resolvable
<1>2. [space EXCEPT ![t].at[p] = g, ![t].flags[p] = "rw"] = after
  BY <1>1 DEF PutSpace, Moved
<1>3. r.frame = g /\ r.memory = m /\ r.space = after /\ r.data = d
  <2>1. r = [frame |-> g, memory |-> m, space |-> [space EXCEPT ![t].at[p] = g, ![t].flags[p] = "rw"], data |-> d]
    BY DEF Resolved
  <2> HIDE DEF g, m, after, d
  <2>2. QED
    BY <1>2, <2>1
<1>4. p \in Slots /\ old # NoFrame /\ old \in Frame /\ memory.refs[old] # 0
  <2>1. p \in Slots /\ old # NoFrame /\ old \in Frame
    BY <1>1, MappedIs DEF Inv
  <2>2. QED
    BY <2>1, HeldInUse
<1>5. memory \in Memory /\ NoFrame \in Frame /\ memory.refs \in [Frame -> Nat] /\ memory.refs[NoFrame] # 0
  BY FramesAssumption DEF Inv, MemoryOK, Frame, NoFrame, Memory
<1>6. CASE ~Shared(t, p)
  <2>1. g = old /\ m = memory /\ memory.refs[old] = 1
    BY <1>6 DEF Shared
  <2>2. \A u \in Tasks, s \in Slots : space[u].at[s] = g => u = t /\ s = p
    BY <1>4, <2>1, SoleHolder
  <2> HIDE DEF g, m
  <2>3. /\ SpacesOK(after) /\ Exclusive(after) /\ Isolated(after, d, view) /\ ContentsOK(d, view)
        /\ after[t].at[p] = g /\ after[t].flags[p] = "rw"
    BY <1>1, <1>4, <2>1, <2>2, MovedKept
  <2>4. \A f : Holders(after, f) = Holders(space, f)
    <3> DEFINE q == Moved(sp, p, g)
    <3>1. q \in Space /\ \A s \in Slots : q.at[s] = sp.at[s]
      BY <1>1, <1>4, <2>1, MovedIs
    <3>2. after = PutSpace(space, t, q)
      OBVIOUS
    <3> HIDE DEF q, after
    <3>3. \A u \in Tasks, s \in Slots : after[u].at[s] = space[u].at[s]
      BY <1>1, <3>1, <3>2 DEF PutSpace
    <3>4. QED
      BY <3>3 DEF Holders
  <2> HIDE DEF after, d
  <2>5. Exact(m, kernel, after) /\ MemoryOK(m, kernel)
    BY <2>1, <2>4 DEF Inv, Exact
  <2>6. QED
    BY <1>3, <2>3, <2>5
<1>7. CASE Shared(t, p)
  <2>1. g = Nth(memory, 1) /\ m = Drop(took, drops) /\ Available(memory, 1)
    BY <1>7 DEF Resolvable
  <2>2. /\ g \in Frame /\ memory.refs[g] = 0
        /\ took \in Memory /\ \A f \in Frame : took.refs[f] = IF f = g THEN 1 ELSE memory.refs[f]
    BY <1>5, <2>1, TakeOne
  <2>3. /\ g # NoFrame /\ g \notin kernel /\ \A u \in Tasks, s \in Slots : space[u].at[s] # g
        /\ Cardinality(Holders(space, g)) = 0
    BY <2>2, FreeUnheld
  <2>4. drops \in [Frame -> Nat] /\ \A f \in Frame : drops[f] = IF f = old THEN 1 ELSE 0
    OBVIOUS
  <2> HIDE DEF g, m, drops, took
  <2>5. g # old
    BY <1>4, <2>2
  <2>6. \A f \in Frame : drops[f] <= took.refs[f]
    BY <1>4, <1>5, <2>2, <2>4, <2>5
  <2>7. m \in Memory /\ \A f \in Frame : m.refs[f] = took.refs[f] - drops[f]
    BY <2>1, <2>2, <2>4, <2>6, DropIs
  <2>8. \A f \in Frame : m.refs[f] = IF f = g THEN 1 ELSE IF f = old THEN memory.refs[f] - 1 ELSE memory.refs[f]
    BY <1>5, <2>2, <2>4, <2>5, <2>7
  <2>9. MemoryOK(m, kernel)
    BY <1>4, <1>5, <2>3, <2>7, <2>8 DEF Inv, MemoryOK
  <2>10. /\ SpacesOK(after) /\ Exclusive(after) /\ Isolated(after, d, view) /\ ContentsOK(d, view)
         /\ after[t].at[p] = g /\ after[t].flags[p] = "rw"
    BY <1>1, <1>4, <2>2, <2>3, MovedKept
  <2>11. Exact(m, kernel, after)
    <3> DEFINE q == Moved(sp, p, g)
    <3>1. q \in Space
      BY <1>1, <2>2, MovedIs
    <3>2. after = PutSpace(space, t, q)
      OBVIOUS
    <3>3. \A f : Cardinality(SlotsAt(q.at, f)) = IF f = g THEN 1
                                                 ELSE IF f = old THEN Cardinality(SlotsAt(sp.at, f)) - 1
                                                 ELSE Cardinality(SlotsAt(sp.at, f))
      BY <1>1, <2>2, <2>3, MovedCounts
    <3> HIDE DEF q, after, old
    <3> SUFFICES ASSUME NEW f \in Frame \ {NoFrame}
                 PROVE  m.refs[f] = Cardinality(Holders(after, f)) + (IF f \in kernel THEN 1 ELSE 0)
      BY DEF Exact
    <3>4. /\ Cardinality(Holders(space, f)) \in Nat /\ Cardinality(SlotsAt(sp.at, f)) \in Nat
          /\ Cardinality(SlotsAt(sp.at, f)) <= Cardinality(Holders(space, f))
          /\ Cardinality(Holders(after, f)) = Cardinality(Holders(space, f))
                - Cardinality(SlotsAt(sp.at, f)) + Cardinality(SlotsAt(q.at, f))
      BY <1>1, <3>1, <3>2, HoldersChange
    <3>5. memory.refs[f] = Cardinality(Holders(space, f)) + (IF f \in kernel THEN 1 ELSE 0)
      BY DEF Inv, Exact
    <3>6. CASE f = g
      BY <2>3, <2>8, <3>3, <3>4, <3>6
    <3>7. CASE f # g
      BY <2>8, <3>3, <3>4, <3>5, <3>7
    <3>8. QED
      BY <3>6, <3>7
  <2> HIDE DEF after, d
  <2>12. QED
    BY <1>3, <2>9, <2>10, <2>11
<1>8. QED
  BY <1>6, <1>7

\* The write fault and the copies into user memory.
LEMMA WriteFaultInv ==
  ASSUME Inv, NEW t \in Tasks, NEW p \in Pages, WriteFault(t, p)
  PROVE  Inv'
<1> DEFINE r == Resolved(t, p)
<1>1. /\ Resolvable(t, p) /\ memory' = r.memory /\ space' = r.space /\ data' = r.data
      /\ kernel' = kernel /\ view' = view
  BY DEF WriteFault
<1>2. /\ MemoryOK(r.memory, kernel) /\ SpacesOK(r.space) /\ ContentsOK(r.data, view)
      /\ Exact(r.memory, kernel, r.space) /\ Exclusive(r.space) /\ Isolated(r.space, r.data, view)
  BY <1>1, ResolvedIs
<1> HIDE DEF r
<1>3. QED
  BY <1>1, <1>2 DEF Inv

\* A store through a writable page.
LEMMA StoreInv ==
  ASSUME Inv, NEW t \in Tasks, NEW p \in Pages, NEW value \in Values, Store(t, p, value)
  PROVE  Inv'
<1>1. /\ space[t].flags[p] = "rw" /\ data' = [data EXCEPT ![space[t].at[p]] = value]
      /\ view' = [view EXCEPT ![t][p] = value] /\ memory' = memory /\ kernel' = kernel /\ space' = space
  BY DEF Store
<1>2. ContentsOK(data', view') /\ Isolated(space, data', view')
  BY <1>1, WriteKept DEF Inv
<1>3. QED
  BY <1>1, <1>2 DEF Inv

\* A copy into a page of a task: the page is resolved, then written.
LEMMA CopyToInv ==
  ASSUME Inv, NEW t \in Tasks, NEW p \in Pages, NEW value \in Values, CopyTo(t, p, value)
  PROVE  Inv'
<1> DEFINE r == Resolved(t, p)
<1>1. /\ Resolvable(t, p) /\ memory' = r.memory /\ space' = r.space /\ kernel' = kernel
      /\ data' = [r.data EXCEPT ![r.frame] = value] /\ view' = [view EXCEPT ![t][p] = value]
  BY DEF CopyTo
<1>2. /\ MemoryOK(r.memory, kernel) /\ SpacesOK(r.space) /\ ContentsOK(r.data, view)
      /\ Exact(r.memory, kernel, r.space) /\ Exclusive(r.space) /\ Isolated(r.space, r.data, view)
      /\ r.frame = r.space[t].at[p] /\ r.space[t].flags[p] = "rw"
  BY <1>1, ResolvedIs
<1> HIDE DEF r
<1>3. ContentsOK(data', view') /\ Isolated(r.space, data', view')
  BY <1>1, <1>2, WriteKept
<1>4. QED
  BY <1>1, <1>2, <1>3 DEF Inv

-----------------------------------------------------------------------------
(* The invariant always holds *)

\* The first user task starts with the invariant.
LEMMA InitInv == Init => Inv
<1> SUFFICES ASSUME Init PROVE Inv
  OBVIOUS
<1>1. PICK program \in Programs :
        /\ Available(BootMemory, Len(KernelStack \o LoadOrder(program)))
        /\ memory = Take(BootMemory, Len(KernelStack \o LoadOrder(program)))
        /\ kernel = 0 .. BootFrames - 1
        /\ data = [f \in Frame |-> Loaded]
        /\ space = [t \in Tasks |-> IF t = FirstTask
                                      THEN Load(BootMemory, KernelStack \o LoadOrder(program), NoSpace.at, program)
                                      ELSE NoSpace]
        /\ view = [t \in Tasks |-> NoView]
  BY DEF Init, BootMemory
<1> DEFINE n == Len(KernelStack \o LoadOrder(program))
           new == Load(BootMemory, KernelStack \o LoadOrder(program), NoSpace.at, program)
           F == Taken(BootMemory, n)
           none == [t \in Tasks |-> NoSpace]
<1>2. n \in Nat /\ FirstSpace(new, F, Range(program.pages))
  BY <1>1, FirstSpaceIs
<1>3. /\ memory = Take(BootMemory, n) /\ Available(BootMemory, n)
      /\ space = [t \in Tasks |-> IF t = FirstTask THEN new ELSE NoSpace]
  BY <1>1
<1> HIDE DEF n, new
<1>4. memory \in Memory /\ \A f \in Frame : memory.refs[f] = IF f \in F THEN 1 ELSE BootMemory.refs[f]
  BY <1>2, <1>3, BootMemoryIs, TakeIs
<1>5. \A f \in F : f \in Frame /\ f \notin kernel /\ f # NoFrame
  BY <1>1, BootMemoryIs DEF Taken
<1> HIDE DEF F
<1>6. MemoryOK(memory, kernel)
  BY <1>1, <1>4, <1>5, BootMemoryIs DEF MemoryOK
<1>7. FirstTask \in Tasks /\ Loaded \in Values
  BY SpaceAssumption
<1>8. new \in Space /\ Complete(new)
  BY <1>2 DEF FirstSpace
<1>9. SpacesOK(space)
  BY <1>3, <1>8, NoSpaceIs DEF SpacesOK
<1>10. NoView \in [Pages -> Values] /\ \A p \in Pages : NoView[p] = Loaded
  BY <1>7 DEF NoView
<1>11. ContentsOK(data, view)
  BY <1>1, <1>7, <1>10 DEF ContentsOK
<1>12. Exact(memory, kernel, space)
  <2> SUFFICES ASSUME NEW f \in Frame \ {NoFrame}
               PROVE  memory.refs[f] = Cardinality(Holders(space, f)) + (IF f \in kernel THEN 1 ELSE 0)
    BY DEF Exact
  <2>1. none \in [Tasks -> Space] /\ none[FirstTask] = NoSpace /\ space = PutSpace(none, FirstTask, new)
    BY <1>3, <1>7, NoSpaceIs DEF PutSpace
  <2>2. Holders(none, f) = {}
    BY NoSpaceIs DEF Holders
  <2> HIDE DEF none
  <2>3. Cardinality(Holders(space, f)) = Cardinality(Holders(none, f))
              - Cardinality(SlotsAt(none[FirstTask].at, f)) + Cardinality(SlotsAt(new.at, f))
    BY <1>7, <1>8, <2>1, HoldersChange
  <2>4. Cardinality(Holders(none, f)) = 0
    BY <2>2, FS_EmptySet
  <2>5. Cardinality(SlotsAt(none[FirstTask].at, f)) = 0
    BY <2>1, NoSpaceIs
  <2>6. Cardinality(SlotsAt(new.at, f)) = IF f \in F THEN 1 ELSE 0
    BY <1>2 DEF FirstSpace
  <2>7. BootMemory.refs[f] = IF f \in kernel THEN 1 ELSE 0
    BY <1>1, BootMemoryIs
  <2>8. QED
    BY <1>4, <1>5, <2>3, <2>4, <2>5, <2>6, <2>7
<1>13. \A u \in Tasks : space[u] = IF u = FirstTask THEN new ELSE NoSpace
  BY <1>3
<1>14. Exclusive(space)
  <2> SUFFICES ASSUME NEW w \in Tasks, NEW u \in Tasks, NEW p \in Pages, NEW s \in Slots,
                      space[w].flags[p] = "rw", space[u].at[s] = space[w].at[p]
               PROVE  u = w /\ s = p
    BY DEF Exclusive
  <2>1. w = FirstTask
    BY <1>13, NoSpaceIs
  <2>2. p \in Slots /\ space[w].at[p] # NoFrame
    BY <1>9, MappedIs
  <2>3. u = FirstTask
    BY <1>13, <2>2, NoSpaceIs
  <2>4. QED
    BY <1>2, <1>13, <2>1, <2>2, <2>3 DEF FirstSpace
<1>15. Isolated(space, data, view)
  <2> SUFFICES ASSUME NEW u \in Tasks, NEW p \in Pages, space[u].flags[p] # "none"
               PROVE  data[space[u].at[p]] = view[u][p]
    BY DEF Isolated
  <2>1. space[u].at[p] \in Frame
    BY <1>9, MappedIs
  <2>2. QED
    BY <1>1, <1>10, <2>1
<1>16. QED
  BY <1>6, <1>9, <1>11, <1>12, <1>14, <1>15 DEF Inv

\* Every handler keeps the invariant.
LEMMA NextInv == Inv /\ [Next]_vars => Inv'
<1> SUFFICES ASSUME Inv, [Next]_vars PROVE Inv'
  OBVIOUS
<1>1. ASSUME NEW t \in Live, NEW program \in Programs, Exec(t, program) PROVE Inv'
  BY <1>1, ExecInv
<1>2. ASSUME NEW program \in Programs, ExecFails(program) PROVE Inv'
  BY <1>2, ExecFailsInv
<1>3. ASSUME NEW t \in Live, NEW child \in Tasks, Fork(t, child) PROVE Inv'
  BY <1>3, ForkInv
<1>4. ASSUME NEW t \in Live, ForkFails(t) PROVE Inv'
  BY <1>4, ForkFailsInv
<1>5. ASSUME NEW t \in Live, Release(t) PROVE Inv'
  BY <1>5, ReleaseInv
<1>6. ASSUME NEW t \in Live, NEW p \in Pages, WriteFault(t, p) PROVE Inv'
  BY <1>6, WriteFaultInv DEF Live
<1>7. ASSUME NEW t \in Live, NEW p \in Pages, NEW v \in Values, Store(t, p, v) PROVE Inv'
  BY <1>7, StoreInv DEF Live
<1>8. ASSUME NEW t \in Live, NEW p \in Pages, NEW v \in Values, CopyTo(t, p, v) PROVE Inv'
  BY <1>8, CopyToInv DEF Live
<1>9. CASE KernelTakes
  BY <1>9, KernelTakesInv
<1>10. ASSUME NEW f \in kernel, KernelReturns(f) PROVE Inv'
  BY <1>10, KernelReturnsInv
<1>11. CASE UNCHANGED vars
  BY <1>11 DEF vars, Inv
<1>12. QED
  BY <1>1, <1>2, <1>3, <1>4, <1>5, <1>6, <1>7, <1>8, <1>9, <1>10, <1>11 DEF Next

\* However fork, exec, exit, write faults and copies into user memory follow each other, and
\* wherever they fail for want of frames, the count of a frame is the number of places that hold it.
THEOREM FramesAreExact == Spec => []FramesExact
<1>1. Inv => FramesExact
  BY DEF Inv, Exact, Holders, FramesExact
<1>2. QED
  BY InitInv, NextInv, <1>1, PTL DEF Spec

\* No task sees what another one has written, however copy-on-write shares and splits frames:
\* each page of a task reads as its own writes, its program and its parent left it.
THEOREM TasksAreIsolated == Spec => []Isolation
<1>1. Inv => Isolation
  BY DEF Inv, Isolated, Isolation
<1>2. QED
  BY InitInv, NextInv, <1>1, PTL DEF Spec
=============================================================================
