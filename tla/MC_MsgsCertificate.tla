------------------------- MODULE MC_MsgsCertificate -------------------------
(***************************************************************************)
(* Instances of MsgsCertificate: the reply certificate of a client and the *)
(* checkpoint certificate of a replica.  Replicas other than the owner,    *)
(* and message classes, are interchangeable.                               *)
(***************************************************************************)
EXTENDS MsgsCertificate, TLC

Symmetry == Permutations(Replicas \ {SelfId}) \cup Permutations(Msgs)
=============================================================================
