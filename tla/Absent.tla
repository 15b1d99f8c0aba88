------------------------------- MODULE Absent -------------------------------
(***************************************************************************)
(* Python's None: the one value that stands for whatever is not there.     *)
(***************************************************************************)
CONSTANT None
=============================================================================
