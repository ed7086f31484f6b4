---------------------------- MODULE MCBlockReader ----------------------------
(***************************************************************************)
(* BlockReader over block layers of three internal and two data blocks:    *)
(* trees of every depth up to one more than the ceiling, blocks that name  *)
(* themselves, an ancestor or a block twice, that are missing or corrupt,  *)
(* an lcbTotal that lies either way, and totals on both sides of a limit.  *)
(***************************************************************************)
EXTENDS BlockReader

CONSTANTS d1, d2, x0, x1, x2, n1, n2

MCDataBids == {d1, d2}
MCInternalBids == {x0, x1, x2}
MCNids == {n1, n2}

Missing == [kind |-> "missing"]
Corrupt == [kind |-> "corrupt"]
Data(n) == [kind |-> "data", size |-> n]
XBlock(t, s) == [kind |-> "xblock", total |-> t, below |-> s]
SIBlock(s) == [kind |-> "siblock", below |-> s]
SLBlock(s) == [kind |-> "slblock", leaves |-> s]
Leaf(n, b) == [node |-> n, data |-> b]

UpTo(n, S) == UNION {[1..k -> S] : k \in 0..n}

Layers(Root, One, Two, First, Second) ==
    {[b \in MCDataBids \cup MCInternalBids |->
        CASE b = x0 -> r [] b = x1 -> p [] b = x2 -> q [] b = d1 -> e [] b = d2 -> f] :
       r \in Root, p \in One, q \in Two, e \in First, f \in Second}

DataRoots == {Missing, Corrupt, XBlock(5, <<d1>>), XBlock(4, <<d2, d1, d2>>)}
        \cup {XBlock(0, s) : s \in UpTo(2, {d1, d2, x1, x2}) \cup [1..3 -> {d1, x1}]}
DataLayers ==
    Layers(DataRoots,
           {Missing, Corrupt} \cup {XBlock(9, s) : s \in UpTo(2, {d1, d2, x0, x2})},
           {Missing} \cup {XBlock(0, s) : s \in {<<>>, <<d1>>, <<x0>>}},
           {Data(1)}, {Data(2), Missing})

Leaves == {SLBlock(s) : s \in {<<>>, <<Leaf(n1, d1)>>, <<Leaf(n1, d2)>>,
                                <<Leaf(n2, d1), Leaf(n1, d1)>>,
                                <<Leaf(n2, d2), Leaf(n2, d1)>>}}
SubnodeRoots == {Missing, Corrupt, SIBlock(<<x1, x2, d1>>)} \cup Leaves
           \cup {SIBlock(s) : s \in UpTo(2, {x0, x1, x2, d1})}
SubnodeLayers ==
    Layers(SubnodeRoots,
           {Missing} \cup Leaves \cup {SIBlock(s) : s \in {<<>>, <<x1>>, <<x2>>}},
           {Corrupt} \cup Leaves \cup {SIBlock(<<x0>>)},
           {Data(1), SLBlock(<<Leaf(n1, d2)>>)}, {Data(5)})

Call(o, b, layers) == {[op |-> o, root |-> b, blocks |-> s] : s \in layers}

MCCalls == Call("data", x0, DataLayers) \cup Call("subnode", x0, SubnodeLayers)
    \cup {c \in Call("data", d1, SubnodeLayers) \cup Call("data", d2, SubnodeLayers)
             \cup Call("subnode", d1, SubnodeLayers) :
          c.blocks[x0] = Missing /\ c.blocks[x1] = Missing /\ c.blocks[x2] = Corrupt}

=============================================================================
