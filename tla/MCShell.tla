------------------------------ MODULE MCShell ------------------------------
(***************************************************************************)
(* Instances of the shell for TLC.                                         *)
(***************************************************************************)
EXTENDS Shell

CONSTANT MaxLength
MCLines == BoundedSeq({" ", "|", ">", "#", "w"}, MaxLength)
=============================================================================
