------------------------ MODULE MC_MembershipService ------------------------
(* Instances of MembershipService: its topologies.                         *)
EXTENDS MembershipService

VNode(p, s) == [parent |-> p, children |-> s]
Leaf(p) == [parent |-> p, children |-> <<>>]

(* The shape of configuration.json: two virtual nodes below the root.      *)
Shipped ==
    [v_n1 |-> VNode("v_n3", <<"0", "1">>), v_n2 |-> VNode("v_n3", <<"4", "5">>),
     v_n3 |-> VNode("", <<"v_n2", "v_n1">>)]
    @@ [n \in {"0", "1"} |-> Leaf("v_n1")] @@ [n \in {"4", "5"} |-> Leaf("v_n2")]

(* Three virtual nodes below the root.                                     *)
Wide ==
    [v_n1 |-> VNode("v_n4", <<"0", "1">>), v_n2 |-> VNode("v_n4", <<"4", "5">>),
     v_n3 |-> VNode("v_n4", <<"6", "7">>), v_n4 |-> VNode("", <<"v_n1", "v_n2", "v_n3">>)]
    @@ [n \in {"0", "1"} |-> Leaf("v_n1")] @@ [n \in {"4", "5"} |-> Leaf("v_n2")]
    @@ [n \in {"6", "7"} |-> Leaf("v_n3")]

(* Three levels of two.                                                    *)
Deep ==
    [w1 |-> VNode("w", <<"a1", "a2">>), w2 |-> VNode("w", <<"b1", "b2">>),
     w |-> VNode("", <<"w1", "w2">>),
     a1 |-> VNode("w1", <<"0", "1">>), a2 |-> VNode("w1", <<"2", "3">>),
     b1 |-> VNode("w2", <<"4", "5">>), b2 |-> VNode("w2", <<"6", "7">>)]
    @@ [n \in {"0", "1"} |-> Leaf("a1")] @@ [n \in {"2", "3"} |-> Leaf("a2")]
    @@ [n \in {"4", "5"} |-> Leaf("b1")] @@ [n \in {"6", "7"} |-> Leaf("b2")]

ManyGroups == {Wide, Deep}
ShippedAndDeep == {Shipped, Deep}
JustShipped == {Shipped}
Symmetry == Permutations(Correct)
=============================================================================
