-------------------------------- MODULE Python --------------------------------
(***************************************************************************)
(* What every part of the program has in common: Python's None, for a      *)
(* field that is not known, a place that is empty, an answer that is no    *)
(* answer.  It is a model value, different from all others.                *)
(***************************************************************************)

CONSTANT None
=============================================================================
