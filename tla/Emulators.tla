----------------------------- MODULE Emulators -----------------------------
(***************************************************************************)
(* The "emulators" query of the membership service (replica.cpp,           *)
(* SimpleAppState::execute): which super leafs a super leaf has to ask for *)
(* the state of its ancestor at a given height.  The network topology is   *)
(* the "configuration" document, a function topo from the names of super   *)
(* leafs and virtual nodes to records with a parent and the sequence of    *)
(* children.  All super leafs lie at the same depth and a virtual node has *)
(* at least two children.                                                  *)
(***************************************************************************)
EXTENDS Integers, SequencesExt

(* The node h levels above n.                                              *)
RECURSIVE Ancestor(_, _, _)
Ancestor(topo, n, h) ==
    IF h = 0 THEN n ELSE Ancestor(topo, topo[n].parent, h - 1)

(* Mutant: the asker's own subtree is not left out.                        *)
MutantChildren(topo, n, exclude) == topo[n].children

Children(topo, n, exclude) ==
    SelectSeq(topo[n].children, LAMBDA c : c # exclude)

(* The level order traversal: the queue is expanded from the front until a *)
(* super leaf gets there.                                                  *)
RECURSIVE Expand(_, _, _)
Expand(topo, queue, exclude) ==
    IF queue = <<>> \/ topo[Head(queue)].children = <<>>
    THEN queue
    ELSE Expand(topo, Tail(queue) \o Children(topo, Head(queue), exclude), exclude)

(* Super leafs are gathered by parent.  The group at hand is added to the  *)
(* reply when a super leaf of another parent is met.                       *)
Gather(topo, slid, acc, n) ==
    IF topo[n].parent = acc.pare
    THEN [acc EXCEPT !.sub = @ \cup ({n} \ {slid})]
    ELSE [pare |-> topo[n].parent, sub |-> {n}, diff_parents |-> TRUE,
          final |-> acc.final \cup {[vnode |-> acc.pare, leafs |-> acc.sub]}]

(* The last group is added only if it is the only one.                     *)
Groups(topo, slid, queue) ==
    LET end == FoldLeft(LAMBDA acc, n : Gather(topo, slid, acc, n),
                        [pare |-> topo[Head(queue)].parent, sub |-> {},
                         diff_parents |-> FALSE, final |-> {}],
                        queue)
    IN  IF end.diff_parents
        THEN end.final
        ELSE end.final \cup {[vnode |-> end.pare, leafs |-> end.sub]}

(* The groups of super leafs whose emulators are sent back, for h > 0.     *)
EmulatorGroups(topo, slid, h) ==
    Groups(topo, slid,
           Expand(topo, <<Ancestor(topo, slid, h)>>, Ancestor(topo, slid, h - 1)))

-----------------------------------------------------------------------------
SuperLeafs(topo) == {n \in DOMAIN topo : topo[n].children = <<>>}

(* n is a or lies below it.                                                *)
RECURSIVE Below(_, _, _)
Below(topo, n, a) ==
    n = a \/ (topo[n].parent \in DOMAIN topo /\ Below(topo, topo[n].parent, a))

(* Reference: the super leafs below the ancestor at height h that are not  *)
(* below the one at height h - 1, which the asker already knows of.        *)
UnknownLeafs(topo, slid, h) ==
    {n \in SuperLeafs(topo) :
        /\ Below(topo, n, Ancestor(topo, slid, h))
        /\ ~Below(topo, n, Ancestor(topo, slid, h - 1))}
=============================================================================
