------------------------------- MODULE MCBTree -------------------------------
(***************************************************************************)
(* BTree over trees of up to five pages: search trees, trees whose keys    *)
(* are out of order or repeated, empty pages, pages that name themselves,  *)
(* an ancestor or the same child twice, that do not parse, and trees one   *)
(* level, one page or one key over the limits.                             *)
(***************************************************************************)
EXTENDS BTree

CONSTANTS p0, p1, p2, p3, p4

MCRefs == {p0, p1, p2, p3, p4}
MCKeys == 0..4

Bad == [kind |-> "bad"]
Leaf(s) == [kind |-> "leaf", keys |-> s]
Node(s) == [kind |-> "node", entries |-> s]
E(k, r) == [key |-> k, ref |-> r]

Roots == {Bad, Leaf(<<1, 3>>), Leaf(<<1, 2, 3, 4>>), Leaf(<<0, 1, 2, 3, 4>>), Node(<<>>),
          Node(<<E(1, p1)>>), Node(<<E(1, p0)>>), Node(<<E(1, p1), E(3, p0)>>),
          Node(<<E(1, p1), E(3, p2)>>), Node(<<E(3, p2), E(1, p1)>>),
          Node(<<E(1, p1), E(2, p1)>>), Node(<<E(1, p1), E(3, p2), E(4, p3)>>),
          Node(<<E(1, p1), E(2, p4), E(3, p2), E(4, p3)>>),
          Node(<<E(2, p3), E(2, p2), E(3, p1)>>)}
Ones == {Bad, Leaf(<<1>>), Leaf(<<2, 1>>), Node(<<>>), Node(<<E(1, p3)>>),
         Node(<<E(1, p2)>>), Node(<<E(2, p0), E(3, p2)>>)}
Twos == {Bad, Leaf(<<>>), Leaf(<<3>>), Leaf(<<3, 4>>), Node(<<E(3, p3)>>)}
Threes == {Leaf(<<4>>), Leaf(<<2>>), Node(<<E(2, p1)>>)}

Trees(First) ==
    {[r \in MCRefs |-> CASE r = p0 -> a [] r = p1 -> b [] r = p2 -> c [] r = p3 -> d
                          [] r = p4 -> Leaf(<<>>)] :
        a \in First, b \in Ones, c \in Twos, d \in Threes}

MCStores ==
    {[pages |-> t, root |-> p0, walk |-> "entries"] : t \in Trees(Roots)}
    \cup {[pages |-> t, root |-> p0, walk |-> "pages"] :
             t \in Trees({Leaf(<<0, 1, 2, 3, 4>>), Node(<<E(1, p1), E(3, p2)>>)})}

=============================================================================
