---------------------------- MODULE MC_Agreement ----------------------------
(***************************************************************************)
(* Agreement for TLC.  Correct replicas that are neither the primary nor a *)
(* collector are interchangeable.                                          *)
(***************************************************************************)
EXTENDS Agreement, TLC

Symmetry == Permutations(Correct \ (Collectors \cup {Primary}))
=============================================================================
