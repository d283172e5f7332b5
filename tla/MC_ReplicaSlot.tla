--------------------------- MODULE MC_ReplicaSlot ---------------------------
(***************************************************************************)
(* An instance of ReplicaSlot.  Only MyId takes part in the numbering of   *)
(* primaries, so the peers are model values, and those that send no bad    *)
(* signatures are interchangeable.                                         *)
(***************************************************************************)
EXTENDS ReplicaSlot, TLC

Symmetry == Permutations(Peers \ Faulty)
=============================================================================
