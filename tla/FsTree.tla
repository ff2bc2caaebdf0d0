------------------------------- MODULE FsTree -------------------------------
(***************************************************************************)
(* What a file system promises to programs: a tree of named directories    *)
(* and files in which a call that succeeds makes exactly the change it     *)
(* asks for, of the one entry it names, and which nothing else changes, a  *)
(* reboot included. The promise is bound to the condition sound; a file    *)
(* system that may lose it says when.                                      *)
(***************************************************************************)
EXTENDS Integers, Sequences, SequencesExt, FiniteSetsExt

CONSTANTS Paths

VARIABLES
  tree,   \* the entry at each path
  sound,  \* whether the promise holds
  call    \* the last call, with its arguments and its result

Absent == [kind |-> "none", uid |-> 0, data |-> <<>>]
New(kind, uid) == [kind |-> kind, uid |-> uid, data |-> <<>>]

\* A directory outside Paths is one of the image's, which are always there.
Exists(path) == path \notin Paths \/ tree[path].kind = "dir"

Make(path, kind, uid) ==
  /\ tree[path] = Absent /\ Exists(Front(path))
  /\ tree' = [tree EXCEPT ![path] = New(kind, uid)]

Drop(path) ==
  /\ tree[path] # Absent
  /\ \A p \in Paths : Front(p) = path => tree[p] = Absent
  /\ tree' = [tree EXCEPT ![path] = Absent]

\* The file is there or is made, and is emptied when that is asked for.
Open(c) ==
  \/ c.create /\ Make(c.path, "file", c.uid)
  \/ /\ tree[c.path].kind = "file"
     /\ tree' = IF c.trunc THEN [tree EXCEPT ![c.path].data = <<>>] ELSE tree

\* Bytes first .. last become byte; a gap before them reads as zeros.
Written(data, first, last, byte) ==
  [k \in 1 .. Max({Len(data), last}) |->
     IF k \in first .. last THEN byte ELSE IF k <= Len(data) THEN data[k] ELSE 0]

Write(c) ==
  /\ tree[c.path].kind = "file"
  /\ tree' = [tree EXCEPT ![c.path].data = Written(@, c.first, c.last, c.byte)]

\* What a call does that succeeds, and one that does not: when the table of open files is
\* full, a file that the call made stays.
Done(c) ==
  CASE c.op = "open" -> Open(c)
    [] c.op = "write" -> Write(c)
    [] c.op = "mkdir" -> Make(c.path, "dir", c.uid)
    [] c.op = "unlink" -> Drop(c.path)
    [] OTHER -> UNCHANGED tree

Refused(c) ==
  \/ UNCHANGED tree
  \/ c.op = "open" /\ c.result = "full" /\ c.create /\ Make(c.path, "file", c.uid)

Init == sound = TRUE /\ \A path \in Paths : tree[path] = Absent

Next == sound /\ sound' => IF call'.result = "ok" THEN Done(call') ELSE Refused(call')

Spec == Init /\ [][Next]_<<tree, sound, call>>
=============================================================================
