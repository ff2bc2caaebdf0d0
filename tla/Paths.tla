------------------------------- MODULE Paths --------------------------------
(***************************************************************************)
(* Path names: how proc_normalize_path (src/kernel/proc.c) turns the path  *)
(* of a system call into an absolute one before vfs.c looks it up.         *)
(*                                                                         *)
(* A task keeps its working directory as text, and every path is brought   *)
(* to a form without "." and ".." by looking at the text alone: the        *)
(* directories it names need not exist. A path is a record: whether it     *)
(* begins with a slash, and the parts between its slashes; an empty part   *)
(* stands between two slashes or after the last one. A normal path, and a  *)
(* node of the tree, is the sequence of its names. Permissions are those   *)
(* of FileSystem and are left out: the caller is the superuser.            *)
(***************************************************************************)
EXTENDS Integers, Sequences, SequencesExt

CONSTANTS
  Names,                     \* file names
  NameLength,                \* the length of each of them
  PROC_PATH_COMPONENT_MAX,   \* the buffer of one component
  PROC_PATH_COMPONENTS_MAX,  \* the components of a path
  PROC_PATH_MAX,             \* the buffer of a path
  MaxParts                   \* bound: the parts of a path given to a call

VARIABLES
  tree,  \* the kind of each node
  cwd    \* the working directory of the task, as it is stored

vars == <<tree, cwd>>

Root == <<>>
Refused == <<"refused">>

Parts == Names \union {"", ".", ".."}
Path == [absolute : BOOLEAN, parts : UNION {[1 .. n -> Parts] : n \in 0 .. MaxParts}]

\* The string is not empty.
Given == {path \in Path : path.absolute \/ (path.parts # <<>> /\ Head(path.parts) # "")}

-----------------------------------------------------------------------------
(* proc_normalize_path *)

PushComponent(components, name) ==
  IF NameLength[name] >= PROC_PATH_COMPONENT_MAX \/ Len(components) >= PROC_PATH_COMPONENTS_MAX
    THEN Refused ELSE Append(components, name)

\* Mutant: ".." is not stopped at the root.
PopUnchecked(components) == IF components = Root THEN Refused ELSE Front(components)

Pop(components) == IF components = Root THEN Root ELSE Front(components)

ConsumePart(components, part) ==
  CASE components = Refused -> Refused
    [] part \in {"", "."} -> components
    [] part = ".." -> Pop(components)
    [] OTHER -> PushComponent(components, part)

ConsumePath(components, parts) == FoldLeft(ConsumePart, components, parts)

\* Where component k begins in the text of the path.
Offset(components, k) ==
  FoldLeft(LAMBDA offset, name : offset + NameLength[name] + 1, 1, SubSeq(components, 1, k - 1))

\* The text is written to a buffer of PROC_PATH_MAX bytes.
Fits(components) ==
  \A k \in DOMAIN components :
    Offset(components, k) + NameLength[components[k]] + 1 < PROC_PATH_MAX

NormalizePath(path) ==
  LET start == IF path.absolute THEN Root ELSE ConsumePath(Root, cwd)
      components == ConsumePath(start, path.parts)
  IN  IF components = Refused \/ ~Fits(components) THEN Refused ELSE components

-----------------------------------------------------------------------------
(* vfs.c *)

\* vfs_resolve_path: every component but the last names a directory.
Resolves(node) ==
  /\ node \in DOMAIN tree
  /\ \A k \in 1 .. Len(node) - 1 : tree[SubSeq(node, 1, k)] = "dir"

\* vfs_resolve_parent
HasParent(node) == node # Root /\ Resolves(Front(node)) /\ tree[Front(node)] = "dir"

Children(node) == {other \in DOMAIN tree : other # Root /\ Front(other) = node}

\* proc_chdir
Chdir(path) ==
  LET node == NormalizePath(path)
  IN  /\ node # Refused /\ Resolves(node) /\ tree[node] = "dir"
      /\ cwd' = node
      /\ UNCHANGED tree

\* vfs_mkdir_path and vfs_create_path
Create(path, kind) ==
  LET node == NormalizePath(path)
  IN  /\ node # Refused /\ ~Resolves(node) /\ HasParent(node)
      /\ tree' = [other \in DOMAIN tree \union {node} |-> IF other = node THEN kind ELSE tree[other]]
      /\ UNCHANGED cwd

\* vfs_unlink_path: a directory goes when it is empty, whoever works in it.
Unlink(path) ==
  LET node == NormalizePath(path)
  IN  /\ node # Refused /\ node # Root /\ HasParent(node) /\ Resolves(node)
      /\ Children(node) = {}
      /\ tree' = [other \in DOMAIN tree \ {node} |-> tree[other]]
      /\ UNCHANGED cwd

Init == tree = [node \in {Root} |-> "dir"] /\ cwd = Root

Next == \E path \in Given : \/ Chdir(path)
                            \/ \E kind \in {"dir", "file"} : Create(path, kind)
                            \/ Unlink(path)

Spec == Init /\ [][Next]_vars

-----------------------------------------------------------------------------
\* The node a walk is at after one more part, or Refused where it cannot go on: it enters
\* only directories that exist.
Walk(node, part) ==
  CASE node = Refused \/ ~Resolves(node) \/ tree[node] # "dir" -> Refused
    [] part \in {"", "."} -> node
    [] part = ".." -> IF node = Root THEN Root ELSE Front(node)
    [] OTHER -> IF Append(node, part) \in DOMAIN tree THEN Append(node, part) ELSE Refused

Reached(path) == FoldLeft(Walk, IF path.absolute THEN Root ELSE cwd, path.parts)

\* A path names what a walk through the directories would find. Whenever the walk from
\* the root, or from the working directory, comes to a node, proc_normalize_path gives that
\* node's own path, and no limit on the length or the number of components refuses it: a
\* node whose path is too long is never created. This holds too after the working directory
\* has been removed or replaced by a file. The working directory, stored as text, stays a
\* normal path that every relative path can start from.
PathsAgree ==
  /\ \A path \in Given :
       LET node == Reached(path)
       IN  node # Refused => NormalizePath(path) = node
  /\ NormalizePath([absolute |-> TRUE, parts |-> cwd]) = cwd
  /\ NormalizePath([absolute |-> FALSE, parts |-> <<".">>]) = cwd

=============================================================================
