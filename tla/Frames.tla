------------------------------- MODULE Frames -------------------------------
(***************************************************************************)
(* The allocation of single page frames in src/kernel/palloc.c, as         *)
(* functions of the frame reference counts and the place where the next    *)
(* search starts. A frame is free when its count is 0 (Palloc shows that   *)
(* the bitmap says the same). Frame 0 is never handed out: address 0       *)
(* means that there is no frame.                                           *)
(***************************************************************************)
EXTENDS Integers, FiniteSets

CONSTANT FrameCount  \* first_unusable_frame

ASSUME FramesAssumption == FrameCount \in Nat \ {0}

Frame == 0 .. FrameCount - 1
NoFrame == 0

\* m.refs are the reference counts, m.next is next_search_frame.
FreeIn(m) == {f \in Frame : m.refs[f] = 0}

\* How far frame f is from where the search starts, going round.
Round(m, f) == IF f >= m.next THEN f - m.next ELSE f - m.next + FrameCount

\* The number of frames palloc_alloc_page returns before f.
Place(m, f) == Cardinality({g \in FreeIn(m) : Round(m, g) < Round(m, f)})

Available(m, n) == \A i \in 1 .. n : \E f \in FreeIn(m) : Place(m, f) = i - 1

\* What the i-th of several calls of palloc_alloc_page in a row returns.
Nth(m, i) == CHOOSE f \in FreeIn(m) : Place(m, f) = i - 1

Take(m, n) ==
  [refs |-> [f \in Frame |-> IF m.refs[f] = 0 /\ Place(m, f) < n THEN 1 ELSE m.refs[f]],
   next |-> IF n = 0 THEN m.next ELSE Nth(m, n) + 1]

\* palloc_retain_page, gains[f] times for each frame f.
Retain(m, gains) == [m EXCEPT !.refs = [f \in Frame |-> @[f] + gains[f]]]

Minus(a, b) == IF a >= b THEN a - b ELSE 0
Freed(m, drops) == {f \in Frame : m.refs[f] # 0 /\ m.refs[f] <= drops[f]}

\* palloc_free_page, drops[f] times for each frame f: the search starts at the lowest
\* frame that is now free, unless it would start lower.
Drop(m, drops) ==
  [refs |-> [f \in Frame |-> Minus(m.refs[f], drops[f])],
   next |-> CHOOSE n \in Freed(m, drops) \cup {m.next} :
              \A g \in Freed(m, drops) \cup {m.next} : n <= g]

=============================================================================
