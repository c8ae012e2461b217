------------------------- MODULE MC_ExclusivePool -------------------------
(* Small instances of ExclusivePool. *)
EXTENDS ExclusivePool
=============================================================================
