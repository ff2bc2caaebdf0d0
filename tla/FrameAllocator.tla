--------------------------- MODULE FrameAllocator ---------------------------
(***************************************************************************)
(* What palloc promises: it hands out frames that nobody holds, counts the *)
(* holders of a frame, and fails to find one only when there is none.      *)
(***************************************************************************)
EXTENDS Integers

CONSTANTS Frame, RunLengths

VARIABLES
  holders,  \* the number of references to each frame
  result    \* how many frames the last call asked for, and the ones it returned

Free == {f \in Frame : holders[f] = 0}

\* The runs of n free frames all lie across one place in memory.
AllAcross(n) ==
  \E place \in Frame : \A start \in Frame :
     start .. start + n - 1 \subseteq Free => place \in start + 1 .. start + n - 1

\* A single frame is found whenever there is one; frames in a row may be missed when they
\* lie across the place where the search starts.
Alloc(n) ==
  \/ \E start \in Frame :
       LET run == start .. start + n - 1
       IN  /\ run \subseteq Free
           /\ result' = [asked |-> n, run |-> run]
           /\ holders' = [f \in Frame |-> IF f \in run THEN 1 ELSE holders[f]]
  \/ /\ AllAcross(n)
     /\ result' = [asked |-> n, run |-> {}]
     /\ UNCHANGED holders

Share(f) == /\ holders[f] # 0
            /\ holders' = [holders EXCEPT ![f] = @ + 1]
            /\ UNCHANGED result

Release(f) == /\ holders[f] # 0
              /\ holders' = [holders EXCEPT ![f] = @ - 1]
              /\ UNCHANGED result

Next == \/ \E n \in {1} \cup RunLengths : Alloc(n)
        \/ \E f \in Frame : Share(f) \/ Release(f)

=============================================================================
