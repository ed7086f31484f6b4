----------------------------- MODULE NdbProofs ------------------------------
(***************************************************************************)
(* Proofs about the block layer: the block walks, for every layer, call    *)
(* and limit, and what the encodings and the layout of a file promise, for *)
(* any alphabet of bytes, pair of tables, page and alignment.              *)
(***************************************************************************)
EXTENDS BlockReader, Disk, DataLemmas, FiniteSetTheorems

Pair == [bid : Bids, depth : Nat]

LEMMA ReadableTree ==
    ASSUME TypeOK, NEW b \in Bids, IsTree(b)
    PROVE  blocks[b].below \in Seq(Bids)
  BY DEF TypeOK, IsTree, Block

LEMMA ReadableData ==
    ASSUME TypeOK, NEW b \in Bids, blocks[b].kind = "data"
    PROVE  blocks[b].size \in Nat \ {0}
  BY DEF TypeOK, Block

LEMMA ReadableLeaves ==
    ASSUME TypeOK, NEW b \in Bids, blocks[b].kind = "slblock"
    PROVE  blocks[b].leaves \in Seq([node : Nids, data : Bids])
  BY DEF TypeOK, Block

(* The children a tree block puts on the stack. *)
LEMMA PendingProperties ==
    ASSUME NEW bids \in Seq(Bids), NEW depth \in Nat
    PROVE  /\ Pending(bids, depth) \in Seq(Pair)
           /\ Len(Pending(bids, depth)) = Len(bids)
           /\ \A i \in 1..Len(bids) : Pending(bids, depth)[i].bid = bids[i]
  <1>1. DOMAIN bids = 1..Len(bids) /\ Len(bids) \in Nat
    BY LenProperties
  <1>2. \A i \in 1..Len(bids) : bids[i] \in Bids
    BY ElementOfSeq
  <1>3. \A i \in 1..Len(bids) : [bid |-> bids[i], depth |-> depth] \in Pair
    BY <1>2 DEF Pair
  <1>4. Pending(bids, depth) \in [1..Len(bids) -> Pair]
    BY <1>1, <1>3 DEF Pending
  <1>5. Pending(bids, depth) \in Seq(Pair)
    BY <1>1, <1>4
  <1>. QED  BY <1>1, <1>4, <1>5 DEF Pending

(* entries.setdefault over a leaf block keeps a dictionary from the nodes  *)
(* to BIDs, and adds no node but those the block names.                    *)
LEMMA SetDefaultsType ==
    ASSUME NEW dict \in PartialDict, NEW leaves \in Seq([node : Nids, data : Bids])
    PROVE  SetDefaults(dict, leaves) \in PartialDict
  <1>1. PICK S \in SUBSET Nids : dict \in [S -> Bids]
    BY DEF PartialDict
  <1>2. DOMAIN leaves = 1..Len(leaves) /\ Len(leaves) \in Nat
    BY LenProperties
  <1>3. \A i \in 1..Len(leaves) : leaves[i] \in [node : Nids, data : Bids]
    BY ElementOfSeq
  <1> DEFINE T == S \cup {leaf.node : leaf \in ToSet(leaves)}
  <1>4. T \in SUBSET Nids
    BY <1>2, <1>3 DEF ToSet
  <1>5. ASSUME NEW n \in T, n \notin S
        PROVE  leaves[CHOOSE i \in DOMAIN leaves :
                       /\ leaves[i].node = n
                       /\ \A j \in 1..(i - 1) : leaves[j].node # n].data \in Bids
    <2> DEFINE named == {i \in 1..Len(leaves) : leaves[i].node = n}
    <2>1. named # {} /\ named \in SUBSET Nat
      BY <1>2, <1>5 DEF ToSet
    <2>2. PICK first \in named : \A j \in named : first <= j
      BY <2>1, LeastElement
    <2>3. \E i \in DOMAIN leaves : /\ leaves[i].node = n
                                   /\ \A j \in 1..(i - 1) : leaves[j].node # n
      BY <2>2, <1>2
    <2>. QED  BY <2>3, <1>2, <1>3
  <1>6. SetDefaults(dict, leaves) \in [T -> Bids]
    BY <1>1, <1>5 DEF SetDefaults
  <1>. QED  BY <1>4, <1>6 DEF PartialDict

-----------------------------------------------------------------------------
(* Every variable of the two walks keeps its type, whatever the file holds. *)
THEOREM TypeCorrect == Spec => []TypeOK
  <1>1. Init => TypeOK
    <2>1. <<>> \in Seq(Bids) /\ <<>> \in Seq(Pair)
      BY EmptySeq
    <2>2. <<>> \in [{} -> Bids]
      OBVIOUS
    <2>3. <<>> \in PartialDict
      BY <2>2 DEF PartialDict
    <2>. QED  BY <2>1, <2>3, CallsAssumption DEF Init, TypeOK, Pair
  <1>2. TypeOK /\ [Next]_vars => TypeOK'
    <2> SUFFICES ASSUME TypeOK, [Next]_vars PROVE TypeOK'
      OBVIOUS
    <2>1. ASSUME NEW class \in Refusals, Refuse(class) PROVE TypeOK'
      BY <2>1 DEF Refuse, TypeOK, walkvars
    <2>2. \A b \in Bids : ReadError(b) \in Refusals
      BY DEF ReadError, Refusals
    <2>3. "PstLimitError" \in Refusals
      BY DEF Refusals
    <2>4. stack # <<>> => /\ Next1 \in Pair /\ Tail(stack) \in Seq(Pair)
                          /\ Next1.bid \in Bids /\ Next1.depth \in Nat
      <3>1. stack \in Seq(Pair)
        BY DEF TypeOK, Pair
      <3>2. stack # <<>> => Next1 \in Pair /\ Tail(stack) \in Seq(Pair)
        BY <3>1, PopProperties DEF Next1
      <3>. QED  BY <3>2 DEF Pair
    <2>5. CASE RefuseRoot
      BY <2>1, <2>2, <2>3, <2>5 DEF RefuseRoot, TypeOK
    <2>6. CASE ReturnDataBlock
      <3>1. <<root>> \in Seq(Bids)
        BY DEF TypeOK
      <3>. QED  BY <2>6, <3>1 DEF ReturnDataBlock, TypeOK
    <2>7. CASE EnterDataTree
      <3>1. stack' \in Seq(Pair)
        BY <2>7, ReadableTree, PendingProperties DEF EnterDataTree, TypeOK
      <3>. QED  BY <2>7, <3>1 DEF EnterDataTree, TypeOK, Pair
    <2>8. CASE EnterSubnodeTree
      <3>1. <<root>> \in Seq(Bids)
        BY DEF TypeOK
      <3>2. stack' \in Seq(Pair)
        BY <2>8, <3>1, PendingProperties DEF EnterSubnodeTree
      <3>. QED  BY <2>8, <3>2 DEF EnterSubnodeTree, TypeOK, Pair
    <2>9. CASE RefuseBlock
      BY <2>1, <2>2, <2>3, <2>4, <2>9 DEF RefuseBlock
    <2>10. CASE ExpandTreeBlock
      <3>1. stack' \in Seq(Pair)
        <4>1. Pending(blocks[Next1.bid].below, Next1.depth + 1) \in Seq(Pair)
          BY <2>4, <2>10, ReadableTree, PendingProperties DEF ExpandTreeBlock
        <4>. QED  BY <2>4, <2>10, <4>1, ConcatProperties DEF ExpandTreeBlock
      <3>2. visited' \in SUBSET Bids
        BY <2>4, <2>10 DEF ExpandTreeBlock, Visit, TypeOK
      <3>. QED  BY <2>10, <3>1, <3>2 DEF ExpandTreeBlock, TypeOK, Pair
    <2>11. CASE AppendDataBlock
      <3>1. parts' \in Seq(Bids)
        BY <2>4, <2>11, AppendProperties DEF AppendDataBlock, TypeOK
      <3>2. visited' \in SUBSET Bids /\ stack' \in Seq(Pair)
        BY <2>4, <2>11 DEF AppendDataBlock, Visit, TypeOK
      <3>3. assembled' \in Nat
        BY <2>4, <2>11, ReadableData DEF AppendDataBlock, TypeOK
      <3>. QED  BY <2>11, <3>1, <3>2, <3>3 DEF AppendDataBlock, TypeOK, Pair
    <2>12. CASE CollectLeaves
      <3>1. blocks[Next1.bid].leaves \in Seq([node : Nids, data : Bids])
        BY <2>4, <2>12, ReadableLeaves DEF CollectLeaves
      <3>2. entries' \in PartialDict
        BY <2>12, <3>1, SetDefaultsType DEF CollectLeaves, TypeOK
      <3>3. visited' \in SUBSET Bids /\ stack' \in Seq(Pair)
        BY <2>4, <2>12 DEF CollectLeaves, Visit, TypeOK
      <3>4. count' \in Nat
        BY <2>12, <3>1, LenProperties DEF CollectLeaves, TypeOK
      <3>. QED  BY <2>12, <3>2, <3>3, <3>4 DEF CollectLeaves, TypeOK, Pair
    <2>13. CASE Return
      BY <2>13 DEF Return, TypeOK, walkvars
    <2>14. CASE UNCHANGED vars
      BY <2>14 DEF vars, walkvars, TypeOK
    <2>. QED  BY <2>5, <2>6, <2>7, <2>8, <2>9, <2>10, <2>11, <2>12, <2>13, <2>14 DEF Next
  <1>. QED  BY <1>1, <1>2, PTL DEF Spec

-----------------------------------------------------------------------------
(* The bounds on a walk's work, with what a call starts from. *)
WorkInv == /\ pc = "call" => /\ visited = {} /\ parts = <<>> /\ assembled = 0
                             /\ entries = <<>> /\ count = 0
           /\ WorkBounded

LEMMA VisitBounded ==
    ASSUME TypeOK, NEW b \in Bids, Cardinality(visited) <= MaxItems,
           ~GuardRefuses(b, Next1.depth), Visit(b)
    PROVE  Cardinality(visited') <= MaxItems
  <1>1. IsFiniteSet(visited)
    BY BidsAssumption, FS_Subset DEF TypeOK
  <1>2. Cardinality(visited) \in Nat /\ MaxItems \in Nat
    BY <1>1, FS_CardinalityType, LimitsAssumption
  <1>3. CASE Guarded(b)
    <2>1. b \notin visited /\ Cardinality(visited) < MaxItems
      BY <1>2, <1>3 DEF GuardRefuses, AddRefused
    <2>. QED  BY <1>1, <1>2, <1>3, <2>1, FS_AddElement DEF Visit
  <1>4. CASE ~Guarded(b)
    BY <1>4 DEF Visit
  <1>. QED  BY <1>3, <1>4

(* A leaf block adds to the dictionary at most as many nodes as it has     *)
(* entries.                                                                *)
LEMMA SetDefaultsBounded ==
    ASSUME NEW dict \in PartialDict, NEW leaves \in Seq([node : Nids, data : Bids]),
           IsFiniteSet(DOMAIN dict)
    PROVE  /\ IsFiniteSet(DOMAIN SetDefaults(dict, leaves))
           /\ Cardinality(DOMAIN SetDefaults(dict, leaves))
                 <= Cardinality(DOMAIN dict) + Len(leaves)
  <1> DEFINE new == {leaf.node : leaf \in ToSet(leaves)}
             name == [i \in 1..Len(leaves) |-> leaves[i].node]
  <1>1. DOMAIN leaves = 1..Len(leaves) /\ Len(leaves) \in Nat
    BY LenProperties
  <1>2. IsFiniteSet(1..Len(leaves)) /\ Cardinality(1..Len(leaves)) = Len(leaves)
    <2>1. Cardinality(1..Len(leaves)) = IF 1 > Len(leaves) THEN 0 ELSE Len(leaves) - 1 + 1
      BY <1>1, FS_Interval
    <2>2. IsFiniteSet(1..Len(leaves))
      BY <1>1, FS_Interval
    <2>. QED  BY <1>1, <2>1, <2>2
  <1>3. name \in Surjection(1..Len(leaves), new)
    BY <1>1 DEF Surjection, ToSet
  <1>4. IsFiniteSet(new) /\ Cardinality(new) <= Len(leaves)
    <2> HIDE DEF name, new
    <2>. QED  BY <1>2, <1>3, FS_Surjection
  <1>5. DOMAIN SetDefaults(dict, leaves) = DOMAIN dict \cup new
    BY DEF SetDefaults
  <1>6. /\ IsFiniteSet(DOMAIN dict \cup new)
        /\ Cardinality(DOMAIN dict \cup new)
              = Cardinality(DOMAIN dict) + Cardinality(new) - Cardinality(DOMAIN dict \cap new)
    <2> HIDE DEF new
    <2>. QED  BY <1>4, FS_Union
  <1>7. /\ Cardinality(DOMAIN dict) \in Nat /\ Cardinality(new) \in Nat
        /\ Cardinality(DOMAIN dict \cap new) \in Nat
    <2> HIDE DEF new
    <2>. QED  BY <1>4, FS_CardinalityType, FS_Intersection
  <1> HIDE DEF new
  <1>. QED  BY <1>1, <1>4, <1>5, <1>6, <1>7

(* The dictionary is finite because count bounds it at every step. *)
FiniteDict == IsFiniteSet(DOMAIN entries)

(* read_data_blocks and read_subnode_tree stay within their ceilings for   *)
(* every block layer and every Limits.                                     *)
THEOREM WorkIsBounded == Spec => []WorkBounded
  <1>1. Init => WorkInv /\ FiniteDict
    <2>1. IsFiniteSet(DOMAIN <<>>)
      BY FS_EmptySet
    <2>. QED  BY <2>1 DEF Init, WorkInv, WorkBounded, FiniteDict
  <1>2. TypeOK /\ WorkInv /\ FiniteDict /\ [Next]_vars => WorkInv' /\ FiniteDict'
    <2> SUFFICES ASSUME TypeOK, WorkInv, FiniteDict, [Next]_vars
                 PROVE  WorkInv' /\ FiniteDict'
      OBVIOUS
    <2> USE LimitsAssumption
    <2>1. stack # <<>> => Next1.bid \in Bids
      <3>1. stack # <<>> => Next1 \in [bid : Bids, depth : Nat]
        BY PopProperties DEF Next1, TypeOK
      <3>. QED  BY <3>1
    <2>2. Cardinality({}) = 0 /\ DOMAIN <<>> = {} /\ Len(<<>>) = 0
      BY FS_EmptySet
    <2>3. Len(parts) \in Nat
      BY LenProperties DEF TypeOK
    <2>13. pc = "call" => /\ Len(parts) = 0 /\ assembled = 0 /\ count = 0
                          /\ Cardinality(visited) = 0 /\ Cardinality(DOMAIN entries) = 0
      BY <2>2 DEF WorkInv
    <2>4. CASE RefuseRoot
      <3>1. UNCHANGED walkvars /\ pc = "call"
        BY <2>4 DEF RefuseRoot, Refuse
      <3>. QED  BY <2>4, <2>13, <3>1
                DEF RefuseRoot, Refuse, walkvars, WorkInv, WorkBounded, FiniteDict
    <2>11. CASE ReturnDataBlock
      BY <2>11 DEF ReturnDataBlock, WorkInv, WorkBounded, FiniteDict, IsTree
    <2>12. CASE EnterSubnodeTree
      BY <2>13, <2>12 DEF EnterSubnodeTree, WorkInv, WorkBounded, FiniteDict
    <2>5. CASE EnterDataTree
      <3>1. Cardinality({root}) = 1
        BY FS_Singleton
      <3>. QED  BY <2>2, <2>5, <3>1 DEF EnterDataTree, WorkInv, WorkBounded, FiniteDict
    <2>6. CASE RefuseBlock \/ Return
      BY <2>6 DEF RefuseBlock, Return, Refuse, walkvars, WorkInv, WorkBounded, FiniteDict,
                  IsTree
    <2>7. CASE ExpandTreeBlock
      <3>1. Cardinality(visited) <= MaxItems => Cardinality(visited') <= MaxItems
        BY <2>1, <2>7, VisitBounded DEF ExpandTreeBlock, Admitted
      <3>. QED  BY <2>7, <3>1 DEF ExpandTreeBlock, WorkInv, WorkBounded, FiniteDict, IsTree
    <2>8. CASE AppendDataBlock
      <3>1. Cardinality(visited) <= MaxItems => Cardinality(visited') <= MaxItems
        BY <2>1, <2>8, VisitBounded DEF AppendDataBlock, Admitted
      <3>2. Len(parts') = Len(parts) + 1
        BY <2>1, <2>8, AppendProperties DEF AppendDataBlock, TypeOK
      <3>3. /\ assembled' <= MaxAllocation
            /\ Len(parts) <= assembled => Len(parts') <= assembled'
        BY <2>1, <2>3, <2>8, <3>2, ReadableData
          , SMTT(30) DEF AppendDataBlock, Admitted, CeilingRefuses, Exceeds, TypeOK
      <3>. QED  BY <2>8, <3>1, <3>3
                DEF AppendDataBlock, WorkInv, WorkBounded, FiniteDict, IsTree
    <2>9. CASE CollectLeaves
      <3> DEFINE leaves == blocks[Next1.bid].leaves
      <3>1. Cardinality(visited) <= MaxItems => Cardinality(visited') <= MaxItems
        BY <2>1, <2>9, VisitBounded DEF CollectLeaves, Admitted
      <3>2. leaves \in Seq([node : Nids, data : Bids]) /\ Len(leaves) \in Nat
        BY <2>1, <2>9, ReadableLeaves, LenProperties DEF CollectLeaves
      <3>3. /\ IsFiniteSet(DOMAIN entries')
            /\ Cardinality(DOMAIN entries') <= Cardinality(DOMAIN entries) + Len(leaves)
        BY <2>9, <3>2, SetDefaultsBounded DEF CollectLeaves, TypeOK, FiniteDict
      <3>4. Cardinality(DOMAIN entries) \in Nat /\ Cardinality(DOMAIN entries') \in Nat
        BY <3>3, FS_CardinalityType DEF FiniteDict
      <3>5. count' = count + Len(leaves) /\ count' <= MaxItems
        BY <2>9, <3>2 DEF CollectLeaves, Admitted, CeilingRefuses, Exceeds, TypeOK
      <3>6. Cardinality(DOMAIN entries) <= count => Cardinality(DOMAIN entries') <= count'
        BY <3>2, <3>3, <3>4, <3>5 DEF TypeOK
      <3>. QED  BY <2>9, <3>1, <3>3, <3>5, <3>6
                DEF CollectLeaves, WorkInv, WorkBounded, FiniteDict, IsTree
    <2>10. CASE UNCHANGED vars
      BY <2>10 DEF vars, walkvars, WorkInv, WorkBounded, FiniteDict, IsTree
    <2>. QED  BY <2>4, <2>5, <2>6, <2>7, <2>8, <2>9, <2>10, <2>11, <2>12 DEF Next
  <1>3. WorkInv => WorkBounded
    BY DEF WorkInv
  <1>. QED  BY <1>1, <1>2, <1>3, TypeCorrect, PTL DEF Spec

-----------------------------------------------------------------------------
(* What a running walk keeps: every guarded block it has met or has still  *)
(* to meet is reachable, and every edge out of a visited block leads to a  *)
(* block that is visited or on the stack.                                  *)
OnStack == {x.bid : x \in ToSet(stack)}

FrontierInv ==
    /\ pc = "call" => visited = {} /\ stack = <<>>
    /\ pc = "walk" =>
         /\ visited \subseteq Walk!Reachable
         /\ Start \subseteq visited \cup OnStack
         /\ \A e \in Edges : e[1] \in visited => e[2] \in visited \cup OnStack
         /\ \A b \in OnStack : Guarded(b) => b \in Walk!Reachable

LEMMA StartReachable == ASSUME TypeOK PROVE Start \subseteq Walk!Reachable
  BY DEF Start, Walk!Reachable, Walk!Closed, TypeOK

LEMMA EdgeReachable ==
    ASSUME NEW e \in Edges, e[1] \in Walk!Reachable
    PROVE  e[2] \in Walk!Reachable
  BY DEF Walk!Reachable, Walk!Closed, Edges

LEMMA ClosedHoldsReachable ==
    ASSUME NEW S \in SUBSET Bids, Walk!Closed(S)
    PROVE  Walk!Reachable \subseteq S
  BY DEF Walk!Reachable

(* The bids on a stack, when its top is popped and children are pushed.    *)
LEMMA StackBids ==
    ASSUME TypeOK, stack # <<>>, NEW bids \in Seq(Bids), NEW depth \in Nat
    PROVE  LET rest == {x.bid : x \in ToSet(Tail(stack))} IN
           /\ OnStack = {Next1.bid} \cup rest
           /\ {x.bid : x \in ToSet(Pending(bids, depth) \o Tail(stack))} = ToSet(bids) \cup rest
  <1>1. stack \in Seq(Pair) /\ Tail(stack) \in Seq(Pair)
    <2>1. stack \in Seq(Pair)
      BY DEF TypeOK, Pair
    <2>. QED  BY <2>1, PopProperties
  <1>2. ToSet(stack) = {Next1} \cup ToSet(Tail(stack))
    BY <1>1, PopMembers DEF Next1
  <1>3. /\ Pending(bids, depth) \in Seq(Pair) /\ DOMAIN Pending(bids, depth) = DOMAIN bids
        /\ \A i \in DOMAIN bids : Pending(bids, depth)[i].bid = bids[i]
    BY PendingProperties, LenProperties
  <1>4. {x.bid : x \in ToSet(Pending(bids, depth))} = ToSet(bids)
    BY <1>3 DEF ToSet
  <1>5. ToSet(Pending(bids, depth) \o Tail(stack))
           = ToSet(Pending(bids, depth)) \cup ToSet(Tail(stack))
    BY <1>1, <1>3, PushMembers, ZenonT(60)
  <1>. QED  BY <1>2, <1>4, <1>5 DEF OnStack

(* The block walks implement Traversal: no guarded block is visited twice, *)
(* none that the tree does not reach, and a walk that returns has visited  *)
(* them all.                                                               *)
THEOREM WalkImplementsTraversal == Spec => ImplementsTraversal
  <1>1. Init => FrontierInv /\ Walk!Init
    BY CallsAssumption DEF Init, FrontierInv, Walk!Init, Start, Edges, Status
  <1>2. TypeOK /\ FrontierInv /\ [Next]_vars => FrontierInv' /\ [Walk!Next]_(Walk!vars)
    <2> SUFFICES ASSUME TypeOK, FrontierInv, [Next]_vars
                 PROVE  FrontierInv' /\ [Walk!Next]_(Walk!vars)
      OBVIOUS
    <2> DEFINE rest == {x.bid : x \in ToSet(Tail(stack))}
    <2>1. stack # <<>> => Next1.bid \in Bids /\ Next1.depth \in Nat
      <3>1. stack # <<>> => Next1 \in [bid : Bids, depth : Nat]
        BY PopProperties DEF Next1, TypeOK
      <3>. QED  BY <3>1
    <2>2. stack # <<>> => /\ OnStack = {Next1.bid} \cup rest
      <3>1. <<>> \in Seq(Bids)
        BY EmptySeq
      <3>. QED  BY <3>1, StackBids
    <2>3. ASSUME UNCHANGED <<blocks, op, root>>
          PROVE  UNCHANGED <<Start, Edges>> /\ Walk!Reachable' = Walk!Reachable
      <3>1. UNCHANGED <<Start, Edges>>
        BY <2>3 DEF Start, Edges, Guarded, Readable, Wanted, IsTree
      <3>. QED  BY <3>1 DEF Walk!Reachable, Walk!Closed
    <2>4. ASSUME NEW class, Refuse(class), pc \in {"call", "walk"}
          PROVE  FrontierInv' /\ Walk!Next
      BY <2>3, <2>4 DEF Refuse, walkvars, FrontierInv, Status, Walk!Next, Walk!Refuse,
                        Walk!ReadOnly
    <2>5. CASE RefuseRoot \/ RefuseBlock
      BY <2>4, <2>5 DEF RefuseRoot, RefuseBlock
    <2>6. CASE ReturnDataBlock
      <3>1. Start = {} /\ visited = {}
        BY <2>6 DEF ReturnDataBlock, Start, Guarded, Readable, Wanted, IsTree, FrontierInv
      <3>2. Walk!Closed({})
        BY <3>1 DEF Walk!Closed
      <3>3. visited = Walk!Reachable
        BY <3>1, <3>2, ClosedHoldsReachable
      <3>. QED  BY <2>3, <2>6, <3>3 DEF ReturnDataBlock, FrontierInv, Status, Walk!Next,
                                        Walk!Exhaust, Walk!ReadOnly
    <2>7. CASE EnterDataTree
      <3>1. Guarded(root) /\ Start = {root}
        BY <2>7 DEF EnterDataTree, Guarded, Readable, Wanted, IsTree, Start
      <3>2. root \in Walk!Reachable \ visited
        BY <2>7, <3>1, StartReachable DEF EnterDataTree, FrontierInv
      <3>3. OnStack' = ToSet(blocks[root].below)
        <4>1. blocks[root].below \in Seq(Bids)
          BY <2>7, ReadableTree DEF EnterDataTree, TypeOK
        <4>2. LET new == Pending(blocks[root].below, 2) IN
              /\ DOMAIN new = DOMAIN blocks[root].below
              /\ \A i \in DOMAIN new : new[i].bid = blocks[root].below[i]
          BY DEF Pending
        <4>. QED  BY <2>7, <4>2 DEF EnterDataTree, OnStack, ToSet
      <3>4. \A e \in Edges : e[1] = root => e[2] \in OnStack'
        BY <3>3 DEF Edges
      <3>5. \A b \in OnStack' : Guarded(b) => b \in Walk!Reachable
        <4>1. ASSUME NEW b \in OnStack', Guarded(b) PROVE <<root, b>> \in Edges
          <5>1. b \in Bids
            BY <2>7, <3>3, ReadableTree, ElementOfSeq, LenProperties
               DEF EnterDataTree, ToSet, TypeOK
          <5>. QED  BY <2>7, <3>3, <4>1, <5>1 DEF EnterDataTree, Edges, TypeOK
        <4>. QED  BY <3>2, <4>1, EdgeReachable
      <3>6. UNCHANGED <<blocks, op, root>> /\ visited' = {root} /\ pc' = "walk" /\ pc = "call"
        BY <2>7 DEF EnterDataTree
      <3>7. \A b : Guarded(b)' = Guarded(b)
        BY <3>6 DEF Guarded
      <3>8. FrontierInv'
        BY <2>3, <3>1, <3>2, <3>4, <3>5, <3>6, <3>7 DEF FrontierInv
      <3>. QED  BY <2>3, <3>2, <3>6, <3>8
                DEF FrontierInv, Status, Walk!Next, Walk!Visit, Walk!ReadOnly
    <2>8. CASE EnterSubnodeTree
      <3>1. OnStack' = {root} /\ Start = {root}
        <4>1. stack' = Pending(<<root>>, 1)
          BY <2>8 DEF EnterSubnodeTree
        <4>2. DOMAIN stack' = {1} /\ stack'[1].bid = root
          BY <4>1 DEF Pending
        <4>3. ToSet(stack') = {stack'[1]}
          BY <4>2 DEF ToSet
        <4>. QED  BY <2>8, <4>2, <4>3 DEF EnterSubnodeTree, OnStack, Start, Guarded
      <3>. QED  BY <2>3, <2>8, <3>1, StartReachable
                DEF EnterSubnodeTree, FrontierInv, Status, Walk!vars, Guarded
    <2>9. CASE ExpandTreeBlock
      <3> DEFINE b == Next1.bid
      <3>1. /\ b \in Bids /\ IsTree(b) /\ Readable(b) /\ pc = "walk" /\ stack # <<>>
            /\ UNCHANGED <<blocks, op, root, pc>>
            /\ stack' = Pending(blocks[b].below, Next1.depth + 1) \o Tail(stack)
            /\ ~GuardRefuses(b, Next1.depth) /\ Visit(b)
        BY <2>1, <2>9 DEF ExpandTreeBlock, Admitted
      <3>2. Guarded(b)
        BY <3>1 DEF Guarded, Readable, Wanted, IsTree
      <3>3. visited' = visited \cup {b} /\ b \notin visited
        BY <3>1, <3>2 DEF Visit, GuardRefuses, AddRefused
      <3>4. OnStack = {b} \cup rest /\ OnStack' = ToSet(blocks[b].below) \cup rest
        <4>1. blocks[b].below \in Seq(Bids) /\ Next1.depth + 1 \in Nat
          BY <2>1, <3>1, ReadableTree
        <4> DEFINE pushed == Pending(blocks[b].below, Next1.depth + 1) \o Tail(stack)
        <4>2. {x.bid : x \in ToSet(pushed)} = ToSet(blocks[b].below) \cup rest
          BY <3>1, <4>1, StackBids
        <4>. QED  BY <2>2, <3>1, <4>2 DEF OnStack
      <3>5. b \in Walk!Reachable
        BY <3>1, <3>2, <3>4 DEF FrontierInv
      <3>6. \A c \in ToSet(blocks[b].below) : Guarded(c) => c \in Walk!Reachable
        <4>1. ASSUME NEW c \in ToSet(blocks[b].below), Guarded(c) PROVE <<b, c>> \in Edges
          <5>1. c \in Bids
            BY <3>1, ReadableTree, ElementOfSeq, LenProperties DEF ToSet
          <5>. QED  BY <3>1, <4>1, <5>1 DEF Edges
        <4>. QED  BY <3>5, <4>1, EdgeReachable
      <3>7. \A e \in Edges : e[1] = b => e[2] \in ToSet(blocks[b].below)
        BY DEF Edges
      <3>8. \A c : Guarded(c)' = Guarded(c)
        BY <3>1 DEF Guarded
      <3> HIDE DEF b, rest
      <3>9. FrontierInv'
        BY <2>3, <3>1, <3>3, <3>4, <3>5, <3>6, <3>7, <3>8 DEF FrontierInv
      <3>. QED  BY <2>3, <3>1, <3>3, <3>5, <3>9
                DEF Status, Walk!Next, Walk!Visit, Walk!ReadOnly
    <2>10. CASE AppendDataBlock \/ CollectLeaves
      <3> DEFINE b == Next1.bid
      <3>1. /\ b \in Bids /\ ~IsTree(b) /\ pc = "walk" /\ stack # <<>>
            /\ UNCHANGED <<blocks, op, root, pc>> /\ stack' = Tail(stack)
            /\ ~GuardRefuses(b, Next1.depth) /\ Visit(b)
        BY <2>1, <2>10 DEF AppendDataBlock, CollectLeaves, Admitted, IsTree
      <3>2. OnStack = {b} \cup rest /\ OnStack' = rest
        BY <2>2, <3>1 DEF OnStack
      <3>3. \A e \in Edges : e[1] # b
        BY <3>1 DEF Edges
      <3>4. \A c : Guarded(c)' = Guarded(c)
        BY <3>1 DEF Guarded
      <3>5. CASE Guarded(b)
        <4>1. visited' = visited \cup {b} /\ b \notin visited
          BY <3>1, <3>5 DEF Visit, GuardRefuses, AddRefused
        <4>2. b \in Walk!Reachable
          BY <3>1, <3>2, <3>5 DEF FrontierInv
        <4> HIDE DEF b, rest
        <4>3. FrontierInv'
          BY <2>3, <3>1, <3>2, <3>3, <3>4, <4>1, <4>2 DEF FrontierInv
        <4>. QED  BY <2>3, <3>1, <4>1, <4>2, <4>3
                  DEF Status, Walk!Next, Walk!Visit, Walk!ReadOnly
      <3>6. CASE ~Guarded(b)
        <4>1. visited' = visited
          BY <3>1, <3>6 DEF Visit
        <4>2. b \notin Start /\ \A e \in Edges : e[2] # b
          BY <3>6 DEF Start, Edges
        <4> HIDE DEF b, rest
        <4>3. FrontierInv'
          BY <2>3, <3>1, <3>2, <3>4, <4>1, <4>2 DEF FrontierInv
        <4>. QED  BY <2>3, <3>1, <4>1, <4>3 DEF Status, Walk!vars
      <3>. QED  BY <3>5, <3>6
    <2>11. CASE Return
      <3>1. OnStack = {}
        BY <2>11 DEF Return, OnStack, ToSet
      <3>2. Walk!Closed(visited)
        BY <2>11, <3>1 DEF Return, FrontierInv, Walk!Closed
      <3>3. Walk!Reachable \subseteq visited
        BY <3>2, ClosedHoldsReachable DEF TypeOK
      <3>4. visited = Walk!Reachable
        BY <2>11, <3>3 DEF Return, FrontierInv
      <3>. QED  BY <2>3, <2>11, <3>4 DEF Return, walkvars, FrontierInv, Status, Walk!Next,
                                         Walk!Exhaust, Walk!ReadOnly
    <2>12. CASE UNCHANGED vars
      BY <2>3, <2>12 DEF vars, walkvars, FrontierInv, OnStack, Guarded, Status, Walk!vars
    <2>. QED  BY <2>5, <2>6, <2>7, <2>8, <2>9, <2>10, <2>11, <2>12 DEF Next
  <1>. QED  BY <1>1, <1>2, TypeCorrect, PTL DEF Spec, ImplementsTraversal, Walk!Spec

-----------------------------------------------------------------------------
(* The tree below the root, unfolded level by level.                       *)
Levels == MaxDepth + 1
Item == [bid : Bids, depth : Int]
Kids == [b \in Bids |-> Below(b)]
Here == [n \in Nat |-> [b \in Bids |-> [bid |-> b, depth |-> Levels - n]]]

DepthFor(o) == IF o = "subnode" THEN MaxSubnodeDepth ELSE MaxXBlockDepth
WantedFor(o, b) == IF o = "subnode" THEN {"siblock", "slblock"}
                   ELSE IF b \in InternalBids THEN {"xblock"} ELSE {"data"}
BelowIn(bs, o, b) ==
    IF bs[b].kind \in WantedFor(o, b) /\ bs[b].kind \in {"xblock", "siblock"}
    THEN bs[b].below ELSE <<>>
IsUnfoldedIn(bs, o, below) ==
    below = [n \in 0..DepthFor(o) |->
                [b \in Bids |->
                    <<[bid |-> b, depth |-> DepthFor(o) + 1 - n]>> \o
                    (IF n = 0 THEN <<>>
                     ELSE FlattenSeq([i \in DOMAIN BelowIn(bs, o, b) |->
                                        below[n - 1][BelowIn(bs, o, b)[i]]]))]]
UnfoldedIn(bs, o) == CHOOSE below : IsUnfoldedIn(bs, o, below)
Unfolded == UnfoldedIn(blocks, op)
Whole == Unfolded[MaxDepth][root]

LEMMA OccurrencesAre == Occurrences = Whole
  BY DEF Occurrences, Whole, Unfolded, UnfoldedIn, IsUnfoldedIn, BelowIn, WantedFor, DepthFor,
         Below, Readable, Wanted, IsTree, MaxDepth

LEMMA LevelsType ==
    /\ MaxDepth \in Nat /\ MaxDepth >= 1 /\ Levels \in Nat /\ Levels = MaxDepth + 1
    /\ MaxItems \in Nat /\ MaxItems >= 1 /\ MaxAllocation \in Nat
  BY LimitsAssumption DEF Levels, MaxDepth

LEMMA KidsType ==
    ASSUME blocks \in [Bids -> Block]
    PROVE  /\ Kids \in [Bids -> Seq(Bids)]
           /\ \A b \in Bids : /\ Kids[b] = Below(b) /\ Below(b) \in Seq(Bids)
                              /\ Readable(b) /\ IsTree(b) => Below(b) = blocks[b].below
                              /\ ~IsTree(b) => Below(b) = <<>>
  <1>1. ASSUME NEW b \in Bids PROVE Below(b) \in Seq(Bids)
    <2>1. CASE Readable(b) /\ IsTree(b)
      <3>1. blocks[b].below \in Seq(Bids)
        BY <2>1 DEF IsTree, Block
      <3>. QED  BY <2>1, <3>1 DEF Below
    <2>2. CASE ~(Readable(b) /\ IsTree(b))
      <3>1. Below(b) = <<>>
        BY <2>2 DEF Below
      <3>. QED  BY <3>1, EmptySeq
    <2>. QED  BY <2>1, <2>2
  <1>. QED  BY <1>1 DEF Kids, Below

LEMMA HereType == Here \in [Nat -> [Bids -> Item]]
  <1>1. \A n \in Nat, b \in Bids : [bid |-> b, depth |-> Levels - n] \in Item
    BY LevelsType DEF Item
  <1>. QED  BY <1>1 DEF Here

LEMMA Unfolds ==
    ASSUME blocks \in [Bids -> Block]
    PROVE  IsUnfolded(Unfolded, Bids, Kids, Here, MaxDepth)
  <1>1. \A n \in 0..MaxDepth : n \in Nat
    BY LevelsType
  <1>2. MaxDepth = DepthFor(op) /\ \A b \in Bids : Below(b) = BelowIn(blocks, op, b)
    BY DEF MaxDepth, DepthFor, Below, BelowIn, Readable, Wanted, WantedFor, IsTree
  <1>3. ASSUME NEW t PROVE IsUnfoldedIn(blocks, op, t) <=> IsUnfolded(t, Bids, Kids, Here, MaxDepth)
    <2>1. ASSUME NEW n \in 0..MaxDepth, NEW b \in Bids
          PROVE  <<[bid |-> b, depth |-> DepthFor(op) + 1 - n]>> \o
                    (IF n = 0 THEN <<>>
                     ELSE FlattenSeq([i \in DOMAIN BelowIn(blocks, op, b) |->
                                        t[n - 1][BelowIn(blocks, op, b)[i]]]))
                 = <<Here[n][b]>> \o (IF n = 0 THEN <<>> ELSE Spread(Kids[b], t[n - 1]))
      <3>1. Here[n][b] = [bid |-> b, depth |-> DepthFor(op) + 1 - n]
        <4>1. Here[n][b] = [bid |-> b, depth |-> Levels - n] /\ Levels = DepthFor(op) + 1
          BY <1>1, <1>2 DEF Here, Levels
        <4>2. PICK l \in Nat, m \in Nat : l = Levels /\ m = DepthFor(op) /\ l = m + 1
          BY <1>2, <4>1, LevelsType
        <4>. QED  BY <4>1, <4>2
      <3>2. Kids[b] = BelowIn(blocks, op, b)
        BY <1>2 DEF Kids
      <3>. QED  BY <3>1, <3>2 DEF Spread, Mapped
    <2>. QED  BY <1>2, <2>1, ZenonT(60) DEF IsUnfoldedIn, IsUnfolded
  <1>4. \E t : IsUnfolded(t, Bids, Kids, Here, MaxDepth)
    BY LevelsType, KidsType, HereType, UnfoldingExists
  <1>5. IsUnfoldedIn(blocks, op, Unfolded)
    BY <1>3, <1>4 DEF Unfolded, UnfoldedIn
  <1>. QED  BY <1>3, <1>5

LEMMA UnfoldedIs ==
    ASSUME blocks \in [Bids -> Block]
    PROVE  /\ Unfolded \in [0..MaxDepth -> [Bids -> Seq(Item)]]
           /\ \A b \in Bids : Unfolded[0][b] = <<Here[0][b]>>
           /\ \A n \in 1..MaxDepth, b \in Bids :
                 /\ n - 1 \in 0..MaxDepth /\ Unfolded[n - 1] \in [Bids -> Seq(Item)]
                 /\ Unfolded[n][b] = <<Here[n][b]>> \o Spread(Kids[b], Unfolded[n - 1])
                 /\ Spread(Kids[b], Unfolded[n - 1]) \in Seq(Item)
  BY Unfolds, LevelsType, KidsType, HereType, UnfoldingIs

(* What an entry of the stack stands for, and the entries its block pushes. *)
Pre == [p \in Pair |-> IF p.depth \in 1..Levels THEN Unfolded[Levels - p.depth][p.bid] ELSE <<>>]
PairKids(p) == Pending(Below(p.bid), p.depth + 1)

LEMMA PreType ==
    ASSUME blocks \in [Bids -> Block]
    PROVE  Pre \in [Pair -> Seq(Item)]
  <1>1. ASSUME NEW p \in Pair
        PROVE  (IF p.depth \in 1..Levels THEN Unfolded[Levels - p.depth][p.bid] ELSE <<>>) \in Seq(Item)
    <2>1. p.depth \in Nat /\ p.bid \in Bids
      BY DEF Pair
    <2>2. CASE p.depth \in 1..Levels
      <3>1. Levels - p.depth \in 0..MaxDepth
        BY <2>1, <2>2, LevelsType
      <3>2. Unfolded[Levels - p.depth] \in [Bids -> Seq(Item)]
        BY <3>1, UnfoldedIs
      <3>. QED  BY <2>1, <2>2, <3>2
    <2>. QED  BY <2>2, EmptySeq
  <1>. QED  BY <1>1 DEF Pre

LEMMA PairsAreItems == Pair \subseteq Item /\ \A s \in Seq(Pair) : s \in Seq(Item)
  <1>1. Pair \subseteq Item
    BY DEF Pair, Item
  <1>. QED  BY <1>1

LEMMA PairKidsType ==
    ASSUME blocks \in [Bids -> Block], NEW p \in Pair
    PROVE  /\ PairKids(p) \in Seq(Pair)
           /\ \A q \in ToSet(PairKids(p)) : q.depth = p.depth + 1
  <1>1. p.bid \in Bids /\ p.depth + 1 \in Nat
    BY DEF Pair
  <1>2. Below(p.bid) \in Seq(Bids)
    BY <1>1, KidsType
  <1>3. PairKids(p) \in Seq(Pair)
    BY <1>1, <1>2, PendingProperties DEF PairKids
  <1>4. \A q \in ToSet(PairKids(p)) : q.depth = p.depth + 1
    BY DEF PairKids, Pending, ToSet
  <1>. QED  BY <1>3, <1>4

(* A block, and then what is under it. *)
LEMMA PreStarts ==
    ASSUME blocks \in [Bids -> Block], NEW p \in Pair, p.depth \in 1..Levels
    PROVE  \E rest \in Seq(Item) : Pre[p] = <<p>> \o rest
  <1>1. p.bid \in Bids /\ p.depth \in Nat /\ p = [bid |-> p.bid, depth |-> p.depth]
    BY DEF Pair
  <1>2. PICK n \in 0..MaxDepth : n = Levels - p.depth
    BY <1>1, LevelsType
  <1>3. Pre[p] = Unfolded[n][p.bid] /\ Here[n][p.bid] = p
    <2>1. Levels - n = p.depth /\ n \in Nat
      BY <1>1, <1>2, LevelsType
    <2>. QED  BY <1>1, <1>2, <2>1 DEF Pre, Here
  <1>4. CASE n = 0
    <2>1. <<p>> \o <<>> = <<p>>
      <3>1. <<p>> \in Seq(Pair)
        OBVIOUS
      <3>. QED  BY <3>1, ConcatEmptySeq
    <2>. QED  BY <1>1, <1>3, <1>4, <2>1, UnfoldedIs, EmptySeq
  <1>5. CASE n # 0
    <2>1. n \in 1..MaxDepth
      BY <1>2, <1>5, LevelsType
    <2>. QED  BY <1>1, <1>3, <2>1, UnfoldedIs
  <1>. QED  BY <1>4, <1>5

LEMMA PreUnfolds ==
    ASSUME blocks \in [Bids -> Block], NEW p \in Pair, p.depth \in 1..Levels,
           p.depth <= MaxDepth \/ Below(p.bid) = <<>>
    PROVE  Pre[p] = <<p>> \o Spread(PairKids(p), Pre)
  <1>1. p.bid \in Bids /\ p.depth \in Nat /\ p = [bid |-> p.bid, depth |-> p.depth]
    BY DEF Pair
  <1>2. PICK n \in 0..MaxDepth : n = Levels - p.depth /\ Levels - n = p.depth /\ n \in Nat
    BY <1>1, LevelsType
  <1>3. Pre[p] = Unfolded[n][p.bid] /\ Here[n][p.bid] = p
    BY <1>1, <1>2 DEF Pre, Here
  <1>4. CASE n = 0
    <2>1. Below(p.bid) = <<>>
      BY <1>1, <1>2, <1>4, LevelsType
    <2>2. PairKids(p) = <<>>
      BY <2>1 DEF PairKids, Pending
    <2>3. <<p>> \o <<>> = <<p>>
      <3>1. <<p>> \in Seq(Pair)
        OBVIOUS
      <3>. QED  BY <3>1, ConcatEmptySeq
    <2>. QED  BY <1>1, <1>3, <1>4, <2>2, <2>3, UnfoldedIs, SpreadEmpty
  <1>5. CASE n # 0
    <2>1. n \in 1..MaxDepth /\ p.depth + 1 \in 1..Levels /\ n - 1 = Levels - (p.depth + 1)
          /\ p.depth + 1 \in Nat
      <3>1. PICK d \in Nat, m \in Nat, l \in Nat :
               d = p.depth /\ m = MaxDepth /\ l = Levels /\ l = m + 1
        BY <1>1, LevelsType
      <3>2. n \in 1..m /\ d + 1 \in 1..l /\ n - 1 = l - (d + 1)
        BY <1>2, <1>5, <3>1
      <3>. QED  BY <3>1, <3>2
    <2>2. Mapped(PairKids(p), Pre) = Mapped(Kids[p.bid], Unfolded[n - 1])
      <3>1. Kids[p.bid] = Below(p.bid)
        BY <1>1, KidsType
      <3>2. DOMAIN PairKids(p) = DOMAIN Kids[p.bid]
        BY <3>1 DEF PairKids, Pending
      <3>3. ASSUME NEW i \in DOMAIN PairKids(p)
            PROVE  Pre[PairKids(p)[i]] = Unfolded[n - 1][Kids[p.bid][i]]
        <4>1. PairKids(p)[i] \in Pair
          BY PairKidsType, LenProperties, ElementOfSeq
        <4>2. PairKids(p)[i].bid = Kids[p.bid][i] /\ PairKids(p)[i].depth = p.depth + 1
          BY <3>1, <3>2 DEF PairKids, Pending
        <4>. QED  BY <2>1, <4>1, <4>2 DEF Pre
      <3>. QED  BY <3>2, <3>3 DEF Mapped
    <2>. QED  BY <1>1, <1>3, <2>1, <2>2, UnfoldedIs DEF Spread
  <1>. QED  BY <1>4, <1>5

-----------------------------------------------------------------------------
(* A dictionary of leaf entries: for each node, the first that names it.   *)
LeafEntry == [node : Nids, data : Bids]

IsDict(dict, all) ==
    /\ DOMAIN dict = {leaf.node : leaf \in ToSet(all)}
    /\ \A i \in DOMAIN all :
          (\A j \in 1..(i - 1) : all[j].node # all[i].node) => dict[all[i].node] = all[i].data

LEMMA DictGrows ==
    ASSUME NEW dict, NEW all \in Seq(LeafEntry), NEW leaves \in Seq(LeafEntry), IsDict(dict, all)
    PROVE  IsDict(SetDefaults(dict, leaves), all \o leaves)
  <1> DEFINE both == all \o leaves
             new == SetDefaults(dict, leaves)
             First(i) == /\ leaves[i].node = leaves[i].node
                         /\ \A j \in 1..(i - 1) : leaves[j].node # leaves[i].node
  <1>1. PICK n \in Nat, m \in Nat : n = Len(all) /\ m = Len(leaves)
    BY LenProperties
  <1>2. DOMAIN all = 1..n /\ DOMAIN leaves = 1..m
    BY <1>1, LenProperties
  <1>3. /\ both \in Seq(LeafEntry) /\ Len(both) = n + m
        /\ \A i \in 1..n : both[i] = all[i]
        /\ \A i \in 1..m : both[n + i] = leaves[i]
    BY <1>1, ConcatProperties
  <1>4. DOMAIN both = 1..(n + m)
    BY <1>3, LenProperties
  <1>5. DOMAIN new = DOMAIN dict \cup {leaf.node : leaf \in ToSet(leaves)}
    BY DEF SetDefaults
  <1>6. DOMAIN new = {leaf.node : leaf \in ToSet(both)}
    <2>1. ToSet(both) = ToSet(all) \cup ToSet(leaves)
      BY PushMembers
    <2>. QED  BY <1>5, <2>1 DEF IsDict
  <1>7. ASSUME NEW i \in 1..(n + m), \A j \in 1..(i - 1) : both[j].node # both[i].node
        PROVE  new[both[i].node] = both[i].data
    <2>1. CASE i <= n
      <3>1. i \in 1..n /\ both[i] = all[i] /\ \A j \in 1..(i - 1) : j \in 1..n /\ both[j] = all[j]
        BY <1>3, <2>1, SMTT(30)
      <3>2. dict[all[i].node] = all[i].data
        BY <1>2, <1>7, <3>1 DEF IsDict
      <3>3. all[i].node \in DOMAIN dict
        BY <1>2, <3>1 DEF IsDict, ToSet
      <3>4. new[all[i].node] = dict[all[i].node]
        BY <3>3 DEF SetDefaults
      <3>. QED  BY <3>1, <3>2, <3>4
    <2>2. CASE i > n
      <3>1. PICK k \in 1..m : i = n + k
        <4>1. i - n \in 1..m /\ i = n + (i - n)
          BY <2>2
        <4>. QED  BY <4>1
      <3>2. both[i] = leaves[k]
        BY <1>3, <3>1
      <3>3. \A j \in 1..(k - 1) : leaves[j].node # leaves[k].node
        <4> SUFFICES ASSUME NEW j \in 1..(k - 1) PROVE leaves[j].node # leaves[k].node
          OBVIOUS
        <4>1. j \in 1..m /\ n + j \in 1..(i - 1)
          BY <3>1
        <4>. QED  BY <1>3, <1>7, <3>2, <4>1
      <3>4. leaves[k].node \notin DOMAIN dict
        <4>1. \A j \in 1..n : all[j].node # leaves[k].node
          <5>1. \A j \in 1..n : j \in 1..(i - 1)
            BY <2>2
          <5>. QED  BY <1>3, <1>7, <3>2, <5>1
        <4>. QED  BY <1>2, <4>1 DEF IsDict, ToSet
      <3>5. leaves[k].node \in DOMAIN new
        BY <1>2, <1>5 DEF ToSet
      <3> DEFINE Names(x) == /\ leaves[x].node = leaves[k].node
                             /\ \A j \in 1..(x - 1) : leaves[j].node # leaves[k].node
      <3>6. ASSUME NEW x \in 1..m, Names(x) PROVE x = k
        <4>1. ~(x < k)
          <5>1. x < k => x \in 1..(k - 1)
            OBVIOUS
          <5>. QED  BY <3>3, <3>6, <5>1
        <4>2. ~(k < x)
          <5>1. k < x => k \in 1..(x - 1)
            OBVIOUS
          <5>. QED  BY <3>6, <5>1
        <4>. QED  BY <4>1, <4>2
      <3>7. Names(k)
        BY <3>3
      <3> DEFINE chosen == CHOOSE x \in 1..m : Names(x)
      <3>8. chosen = k
        BY <3>6, <3>7
      <3>9. new[leaves[k].node] = leaves[chosen].data
        BY <1>2, <1>5, <3>4, <3>5 DEF SetDefaults
      <3>. QED  BY <3>2, <3>8, <3>9
    <2>3. i <= n \/ i > n
      OBVIOUS
    <2> HIDE DEF both, new
    <2>. QED  BY <2>1, <2>2, <2>3
  <1>. QED  BY <1>4, <1>6, <1>7 DEF IsDict

LEMMA DictSame ==
    ASSUME NEW dict \in PartialDict
    PROVE  SetDefaults(dict, <<>>) = dict
  <1>1. PICK S : dict \in [S -> Bids]
    BY DEF PartialDict
  <1>2. ToSet(<<>>) = {}
    BY DEF ToSet
  <1>3. SetDefaults(dict, <<>>) = [n \in S |-> dict[n]]
    BY <1>1, <1>2 DEF SetDefaults
  <1>. QED  BY <1>1, <1>3

-----------------------------------------------------------------------------
(* What each block of a part of the tree carries.                          *)
DataAt == [q \in Item |-> IF blocks[q.bid].kind = "data" THEN <<q.bid>> ELSE <<>>]
SizeAt == [q \in Item |-> IF blocks[q.bid].kind = "data" THEN blocks[q.bid].size ELSE 0]
LeavesAt == [q \in Item |-> IF blocks[q.bid].kind = "slblock" THEN blocks[q.bid].leaves ELSE <<>>]

BytesOf(s) == SumFunction(Mapped(s, SizeAt))
GuardedIn(s) == {i \in 1..Len(s) : Guarded(s[i].bid)}

LEMMA CarriedType ==
    ASSUME blocks \in [Bids -> Block]
    PROVE  /\ DataAt \in [Item -> Seq(Bids)] /\ SizeAt \in [Item -> Nat]
           /\ LeavesAt \in [Item -> Seq(LeafEntry)]
  <1>1. ASSUME NEW q \in Item
        PROVE  /\ (IF blocks[q.bid].kind = "data" THEN <<q.bid>> ELSE <<>>) \in Seq(Bids)
               /\ (IF blocks[q.bid].kind = "data" THEN blocks[q.bid].size ELSE 0) \in Nat
               /\ (IF blocks[q.bid].kind = "slblock" THEN blocks[q.bid].leaves ELSE <<>>)
                     \in Seq(LeafEntry)
    <2>1. q.bid \in Bids /\ blocks[q.bid] \in Block
      BY DEF Item
    <2>2. <<q.bid>> \in Seq(Bids) /\ <<>> \in Seq(Bids) /\ <<>> \in Seq(LeafEntry)
      BY <2>1, EmptySeq
    <2>3. blocks[q.bid].kind = "data" => blocks[q.bid].size \in Nat
      BY <2>1 DEF Block
    <2>4. blocks[q.bid].kind = "slblock" => blocks[q.bid].leaves \in Seq(LeafEntry)
      BY <2>1 DEF Block, LeafEntry
    <2>. QED  BY <2>2, <2>3, <2>4
  <1>. QED  BY <1>1 DEF DataAt, SizeAt, LeavesAt

LEMMA WholeIs ==
    ASSUME blocks \in [Bids -> Block], root \in Bids
    PROVE  /\ Whole \in Seq(Item) /\ Occurrences = Whole
           /\ DataBlocks = Spread(Whole, DataAt) /\ LeafEntries = Spread(Whole, LeavesAt)
           /\ Bytes = BytesOf(Whole)
  <1>1. MaxDepth \in 0..MaxDepth
    BY LevelsType
  <1>2. Whole \in Seq(Item)
    <2>1. Unfolded[MaxDepth] \in [Bids -> Seq(Item)]
      BY <1>1, UnfoldedIs
    <2>. QED  BY <2>1 DEF Whole
  <1>3. PICK occ \in Seq(Item) : occ = Whole /\ occ = Occurrences
    BY <1>2, OccurrencesAre
  <1>4. \A i \in DOMAIN occ : occ[i] \in Item
    BY LenProperties, ElementOfSeq
  <1>5. /\ Mapped(occ, DataAt) =
             [i \in DOMAIN occ |-> IF blocks[occ[i].bid].kind = "data" THEN <<occ[i].bid>> ELSE <<>>]
        /\ Mapped(occ, SizeAt) =
             [i \in DOMAIN occ |->
                IF blocks[occ[i].bid].kind = "data" THEN blocks[occ[i].bid].size ELSE 0]
        /\ Mapped(occ, LeavesAt) =
             [i \in DOMAIN occ |->
                IF blocks[occ[i].bid].kind = "slblock" THEN blocks[occ[i].bid].leaves ELSE <<>>]
    BY <1>4 DEF Mapped, DataAt, SizeAt, LeavesAt
  <1>6. /\ DataBlocks = Spread(occ, DataAt) /\ LeafEntries = Spread(occ, LeavesAt)
        /\ Bytes = BytesOf(occ)
    BY <1>3, <1>5 DEF DataBlocks, LeafEntries, Bytes, BytesOf, Spread
  <1>. QED  BY <1>2, <1>3, <1>6

(* What a walk accepts, on the unfolded tree.                              *)
Admits ==
    /\ \A i \in 1..Len(Whole) : /\ Readable(Whole[i].bid)
                                /\ Guarded(Whole[i].bid) => Whole[i].depth <= MaxDepth
    /\ \A i \in 1..Len(Whole), j \in 1..Len(Whole) :
          Guarded(Whole[i].bid) /\ Whole[i].bid = Whole[j].bid => i = j
    /\ Cardinality(GuardedIn(Whole)) <= MaxItems
    /\ IsTree(root) /\ op = "data" =>
          blocks[root].total <= MaxAllocation /\ BytesOf(Whole) <= MaxAllocation
    /\ op = "subnode" => Len(Spread(Whole, LeavesAt)) <= MaxItems

LEMMA AdmissibleIs ==
    ASSUME blocks \in [Bids -> Block], root \in Bids
    PROVE  Admissible <=> Admits
  <1>1. PICK occ \in Seq(Item) : occ = Whole /\ occ = Occurrences
    BY WholeIs
  <1>2. DOMAIN occ = 1..Len(occ)
    BY LenProperties
  <1>3. {i \in DOMAIN occ : Guarded(occ[i].bid)} = GuardedIn(occ)
    BY <1>2 DEF GuardedIn
  <1>4. LeafEntries = Spread(occ, LeavesAt) /\ Bytes = BytesOf(occ)
    BY <1>1, WholeIs
  <1>5. Admissible <=>
          /\ \A i \in 1..Len(occ) : Readable(occ[i].bid)
          /\ \A i \in GuardedIn(occ) : occ[i].depth <= MaxDepth
          /\ \A i, j \in GuardedIn(occ) : occ[i].bid = occ[j].bid => i = j
          /\ Cardinality(GuardedIn(occ)) <= MaxItems
          /\ IsTree(root) /\ op = "data" =>
                blocks[root].total <= MaxAllocation /\ BytesOf(occ) <= MaxAllocation
          /\ op = "subnode" => Len(Spread(occ, LeavesAt)) <= MaxItems
    BY <1>1, <1>2, <1>3, <1>4 DEF Admissible
  <1>6. /\ \A i \in GuardedIn(occ) : i \in 1..Len(occ) /\ Guarded(occ[i].bid)
        /\ \A i \in 1..Len(occ) : Guarded(occ[i].bid) => i \in GuardedIn(occ)
    BY DEF GuardedIn
  <1>. QED  BY <1>1, <1>5, <1>6 DEF Admits

LEMMA TreeUnchanged ==
    ASSUME UNCHANGED <<blocks, op, root>>
    PROVE  /\ Whole' = Whole /\ Pre' = Pre /\ Levels' = Levels /\ MaxDepth' = MaxDepth
           /\ DataAt' = DataAt /\ SizeAt' = SizeAt /\ LeavesAt' = LeavesAt
  <1>1. Unfolded' = Unfolded
    BY DEF Unfolded
  <1>2. MaxDepth' = MaxDepth /\ Levels' = Levels
    BY DEF MaxDepth, Levels
  <1>3. Whole' = Whole
    BY <1>1, <1>2 DEF Whole
  <1>4. Pre' = Pre
    BY <1>1, <1>2 DEF Pre, Pair
  <1>5. DataAt' = DataAt /\ SizeAt' = SizeAt /\ LeavesAt' = LeavesAt
    BY DEF DataAt, SizeAt, LeavesAt, Item
  <1>. QED  BY <1>2, <1>3, <1>4, <1>5

-----------------------------------------------------------------------------
(* A walk has read a first part of the unfolded tree, what its stack stands *)
(* for is the rest, and what it has collected is what that part carries.   *)
ReadWell(done) ==
    /\ \A i \in 1..Len(done) : /\ Readable(done[i].bid)
                               /\ Guarded(done[i].bid) => done[i].depth <= MaxDepth
    /\ \A i \in 1..Len(done), j \in 1..Len(done) :
          Guarded(done[i].bid) /\ done[i].bid = done[j].bid => i = j
    /\ visited = {done[i].bid : i \in GuardedIn(done)}
    /\ Cardinality(GuardedIn(done)) = Cardinality(visited)

Collected(done) ==
    /\ parts = Spread(done, DataAt)
    /\ assembled = BytesOf(done)
    /\ count = Len(Spread(done, LeavesAt))
    /\ IsDict(entries, Spread(done, LeavesAt))

Split(done) ==
    /\ Whole = done \o Spread(stack, Pre)
    /\ \A x \in ToSet(stack) : x.depth \in 1..Levels
    /\ ReadWell(done) /\ Collected(done)

Entered == op = "data" => /\ Readable(root) /\ IsTree(root)
                          /\ blocks[root].total <= MaxAllocation

Direct == op = "data" /\ Readable(root) /\ ~IsTree(root)

MatchInv ==
    /\ pc = "call" => /\ stack = <<>> /\ visited = {} /\ parts = <<>> /\ assembled = 0
                      /\ entries = <<>> /\ count = 0
    /\ pc = "walk" => Entered /\ \E done \in Seq(Pair) : Split(done)
    /\ pc = "done" => \/ Direct /\ parts = <<root>>
                      \/ Entered /\ stack = <<>> /\ \E done \in Seq(Pair) : Split(done)
    /\ pc = "refused" => ~Admits

LEMMA TreeIsGuarded ==
    ASSUME NEW b, Readable(b), IsTree(b)
    PROVE  Guarded(b)
  BY DEF Readable, IsTree, Wanted, Guarded

(* The block on top of the stack is the next one of the tree.              *)
LEMMA TopIsNext ==
    ASSUME TypeOK, stack # <<>>, NEW done \in Seq(Pair), Split(done)
    PROVE  /\ Next1 \in Pair /\ Next1.depth \in 1..Levels /\ Pre[Next1] \in Seq(Item)
           /\ Tail(stack) \in Seq(Pair) /\ Spread(Tail(stack), Pre) \in Seq(Item)
           /\ ToSet(Tail(stack)) \subseteq ToSet(stack)
           /\ Spread(stack, Pre) = Pre[Next1] \o Spread(Tail(stack), Pre)
           /\ \E rest \in Seq(Item) : Whole = Append(done, Next1) \o rest
  <1>1. /\ stack \in Seq(Pair) /\ Next1 \in Pair /\ Tail(stack) \in Seq(Pair)
        /\ Next1 \in ToSet(stack) /\ ToSet(Tail(stack)) \subseteq ToSet(stack)
    <2>1. stack \in Seq(Pair)
      BY DEF TypeOK, Pair
    <2>. QED  BY <2>1, PopProperties, PopMembers DEF Next1
  <1>2. Pre \in [Pair -> Seq(Item)] /\ blocks \in [Bids -> Block]
    BY PreType DEF TypeOK
  <1>3. Next1.depth \in 1..Levels
    BY <1>1 DEF Split
  <1>4. Spread(stack, Pre) = Pre[Next1] \o Spread(Tail(stack), Pre)
    BY <1>1, <1>2, SpreadHead DEF Next1
  <1>5. Spread(Tail(stack), Pre) \in Seq(Item) /\ Pre[Next1] \in Seq(Item)
    BY <1>1, <1>2, SpreadType
  <1>6. \E rest \in Seq(Item) : Whole = Append(done, Next1) \o rest
    <2>1. PICK t \in Pair : t = Next1
      BY <1>1
    <2>2. PICK below \in Seq(Item) : Pre[t] = <<t>> \o below
      BY <1>2, <1>3, <2>1, PreStarts
    <2>3. PICK after \in Seq(Item) : after = Spread(Tail(stack), Pre)
      BY <1>5
    <2>4. done \in Seq(Item) /\ t \in Item /\ below \o after \in Seq(Item)
      BY PairsAreItems, ConcatProperties
    <2>5. (<<t>> \o below) \o after = <<t>> \o (below \o after)
      <3>1. <<t>> \in Seq(Item)
        BY <2>4
      <3>. QED  BY <3>1, ConcatAssociative
    <2>6. done \o (<<t>> \o (below \o after)) = Append(done, t) \o (below \o after)
      BY <2>4, AppendThenRest
    <2>. QED  BY <1>4, <2>1, <2>2, <2>3, <2>4, <2>5, <2>6 DEF Split
  <1>. QED  BY <1>1, <1>3, <1>4, <1>5, <1>6

(* The part read and the next block, in the whole tree.                    *)
LEMMA PartOfWhole ==
    ASSUME NEW done \in Seq(Item), NEW t \in Item, NEW rest \in Seq(Item),
           Whole = Append(done, t) \o rest
    PROVE  /\ Len(done) \in Nat /\ Len(Whole) \in Nat /\ Len(done) + 1 \in 1..Len(Whole)
           /\ Whole[Len(done) + 1] = t
           /\ \A i \in 1..Len(done) : i \in 1..Len(Whole) /\ Whole[i] = done[i]
  <1>1. PICK n \in Nat : n = Len(done)
    BY LenProperties
  <1>2. PICK first \in Seq(Item) : first = Append(done, t)
    BY AppendProperties
  <1>3. Len(first) = n + 1 /\ first[n + 1] = t /\ \A i \in 1..n : first[i] = done[i]
    BY <1>1, <1>2, AppendProperties
  <1>4. Len(first \o rest) = Len(first) + Len(rest) /\ Len(rest) \in Nat
    BY ConcatProperties, LenProperties
  <1>5. \A i \in 1..(n + 1) : (first \o rest)[i] = first[i]
    BY <1>3, <1>4, ConcatProperties
  <1>6. PICK m \in Nat : m = Len(Whole) /\ n + 1 <= m
    BY <1>2, <1>3, <1>4
  <1>7. n + 1 \in 1..m /\ \A i \in 1..n : i \in 1..m /\ i \in 1..(n + 1)
    BY <1>6
  <1>. QED  BY <1>1, <1>2, <1>3, <1>5, <1>6, <1>7

(* What the whole tree carries is at least what a first part does.         *)
LEMMA CarriedGrows ==
    ASSUME blocks \in [Bids -> Block],
           NEW done \in Seq(Item), NEW t \in Item, NEW rest \in Seq(Item),
           Whole = Append(done, t) \o rest
    PROVE  /\ BytesOf(done) \in Nat /\ BytesOf(Whole) \in Nat /\ SizeAt[t] \in Nat
           /\ BytesOf(done) + SizeAt[t] <= BytesOf(Whole)
           /\ Len(Spread(done, LeavesAt)) \in Nat /\ Len(LeavesAt[t]) \in Nat
           /\ Len(Spread(Whole, LeavesAt)) \in Nat
           /\ Len(Spread(done, LeavesAt)) + Len(LeavesAt[t]) <= Len(Spread(Whole, LeavesAt))
  <1>1. PICK first \in Seq(Item) : first = Append(done, t)
    BY AppendProperties
  <1>2. PICK w \in [Item -> Nat], v \in [Item -> Seq(LeafEntry)] : w = SizeAt /\ v = LeavesAt
    BY CarriedType
  <1>3. /\ BytesOf(first) = BytesOf(done) + w[t] /\ BytesOf(done) \in Nat /\ w[t] \in Nat
        /\ BytesOf(first \o rest) = BytesOf(first) + BytesOf(rest) /\ BytesOf(rest) \in Nat
        /\ BytesOf(first) \in Nat
    <2>1. /\ SumFunction(Mapped(first, w)) = SumFunction(Mapped(done, w)) + w[t]
          /\ SumFunction(Mapped(done, w)) \in Nat
      <3>1. done \in Seq(Item) /\ t \in Item /\ w \in [Item -> Nat]
        OBVIOUS
      <3>. QED  BY <1>1, <3>1, MappedTotal
    <2>2. /\ SumFunction(Mapped(first \o rest, w))
               = SumFunction(Mapped(first, w)) + SumFunction(Mapped(rest, w))
          /\ SumFunction(Mapped(rest, w)) \in Nat /\ SumFunction(Mapped(first, w)) \in Nat
      <3>1. first \in Seq(Item) /\ rest \in Seq(Item) /\ w \in [Item -> Nat]
        OBVIOUS
      <3>. QED  BY <3>1, TotalConcat
    <2>. QED  BY <1>2, <2>1, <2>2 DEF BytesOf
  <1>4. PICK a \in Seq(LeafEntry), b \in Seq(LeafEntry), c \in Seq(LeafEntry) :
           a = Spread(done, v) /\ b = v[t] /\ c = Spread(rest, v)
    BY SpreadType
  <1>5. Spread(first \o rest, v) = (a \o b) \o c
    <2>1. Spread(first, v) = Spread(done, v) \o v[t]
      <3>1. done \in Seq(Item) /\ t \in Item /\ v \in [Item -> Seq(LeafEntry)]
        OBVIOUS
      <3>. QED  BY <1>1, <3>1, SpreadAppend
    <2>2. Spread(first \o rest, v) = Spread(first, v) \o Spread(rest, v)
      <3>1. first \in Seq(Item) /\ rest \in Seq(Item) /\ v \in [Item -> Seq(LeafEntry)]
        OBVIOUS
      <3>. QED  BY <3>1, SpreadConcat, ZenonT(60)
    <2>. QED  BY <1>4, <2>1, <2>2
  <1>6. /\ Len((a \o b) \o c) = (Len(a) + Len(b)) + Len(c)
        /\ Len(a) \in Nat /\ Len(b) \in Nat /\ Len(c) \in Nat
    BY ConcatProperties, LenProperties
  <1>. QED  BY <1>1, <1>2, <1>3, <1>4, <1>5, <1>6

(* Where a walk refuses the block it has to read next, the tree is one     *)
(* that no walk accepts.                                                   *)
LEMMA RefusalHasReason ==
    ASSUME TypeOK, stack # <<>>, Entered, NEW done \in Seq(Pair), Split(done),
           ~Admitted(Next1.bid, Next1.depth)
    PROVE  ~Admits
  <1>1. PICK t \in Pair, rest \in Seq(Item) : t = Next1 /\ Whole = Append(done, t) \o rest
    BY TopIsNext
  <1>2. /\ blocks \in [Bids -> Block] /\ t \in Item /\ done \in Seq(Item) /\ visited \in SUBSET Bids
        /\ t.bid \in Bids /\ t.depth \in Nat /\ op \in {"data", "subnode"}
    BY PairsAreItems DEF TypeOK, Pair
  <1>3. PICK n \in Nat, m \in Nat : n = Len(done) /\ m = Len(Whole)
    BY <1>1, <1>2, PartOfWhole
  <1>4. /\ n + 1 \in 1..m /\ Whole[n + 1] = t
        /\ \A i \in 1..n : i \in 1..m /\ Whole[i] = done[i]
    BY <1>1, <1>2, <1>3, PartOfWhole
  <1>5. CASE ~Readable(t.bid)
    BY <1>3, <1>4, <1>5 DEF Admits
  <1>6. CASE Guarded(t.bid) /\ Exceeds(t.depth, MaxDepth)
    BY <1>2, <1>3, <1>4, <1>6, LevelsType DEF Admits, Exceeds
  <1>7. CASE Guarded(t.bid) /\ t.bid \in visited
    <2>1. PICK i \in 1..n : done[i].bid = t.bid
      BY <1>3, <1>7 DEF Split, ReadWell, GuardedIn
    <2>2. i \in 1..m /\ Whole[i].bid = t.bid /\ i # n + 1
      BY <1>4, <2>1
    <2>. QED  BY <1>3, <1>4, <1>7, <2>2 DEF Admits
  <1>8. CASE Guarded(t.bid) /\ Cardinality(visited) >= MaxItems
    <2>1. GuardedIn(done) \cup {n + 1} \subseteq GuardedIn(Whole) /\ n + 1 \notin GuardedIn(done)
      BY <1>3, <1>4, <1>8 DEF GuardedIn
    <2>2. IsFiniteSet(GuardedIn(Whole)) /\ IsFiniteSet(GuardedIn(done))
      <3>1. IsFiniteSet(1..m) /\ IsFiniteSet(1..n)
        BY FS_Interval
      <3>2. GuardedIn(Whole) \subseteq 1..m /\ GuardedIn(done) \subseteq 1..n
        BY <1>3 DEF GuardedIn
      <3>. QED  BY <3>1, <3>2, FS_Subset
    <2>3. /\ Cardinality(GuardedIn(done) \cup {n + 1}) = Cardinality(GuardedIn(done)) + 1
          /\ Cardinality(GuardedIn(done) \cup {n + 1}) <= Cardinality(GuardedIn(Whole))
      BY <2>1, <2>2, FS_AddElement, FS_Subset
    <2>4. Cardinality(GuardedIn(done)) \in Nat /\ Cardinality(GuardedIn(Whole)) \in Nat
      BY <2>2, FS_CardinalityType
    <2>5. Cardinality(GuardedIn(done)) >= MaxItems
      BY <1>8 DEF Split, ReadWell
    <2>6. Cardinality(GuardedIn(Whole)) > MaxItems
      BY <2>3, <2>4, <2>5, LevelsType
    <2>. QED  BY <2>4, <2>6, LevelsType DEF Admits
  <1>9. CASE Readable(t.bid) /\ CeilingRefuses(t.bid)
    <2>1. CASE blocks[t.bid].kind = "data" /\ Exceeds(assembled + blocks[t.bid].size, MaxAllocation)
      <3>1. op = "data" /\ IsTree(root)
        BY <1>2, <1>9, <2>1 DEF Readable, Wanted, Entered
      <3>2. SizeAt[t] = blocks[t.bid].size /\ assembled = BytesOf(done)
        BY <1>2, <2>1 DEF SizeAt, Split, Collected
      <3>3. BytesOf(Whole) > MaxAllocation
        <4>1. PICK a \in Nat, b \in Nat, c \in Nat :
                 a = BytesOf(done) /\ b = SizeAt[t] /\ c = BytesOf(Whole) /\ a + b <= c
          BY <1>1, <1>2, CarriedGrows
        <4>2. a + b > MaxAllocation
          BY <2>1, <3>2, <4>1 DEF Exceeds
        <4>. QED  BY <4>1, <4>2, LevelsType
      <3>4. BytesOf(Whole) \in Nat
        BY <1>1, <1>2, CarriedGrows
      <3>. QED  BY <3>1, <3>3, <3>4, LevelsType DEF Admits
    <2>2. CASE blocks[t.bid].kind = "slblock" /\ Exceeds(count + Len(blocks[t.bid].leaves), MaxItems)
      <3>1. op = "subnode"
        BY <1>2, <1>9, <2>2 DEF Readable, Wanted
      <3>2. LeavesAt[t] = blocks[t.bid].leaves /\ count = Len(Spread(done, LeavesAt))
        BY <1>2, <2>2 DEF LeavesAt, Split, Collected
      <3>3. Len(Spread(Whole, LeavesAt)) > MaxItems
        <4>1. PICK a \in Nat, b \in Nat, c \in Nat :
                 /\ a = Len(Spread(done, LeavesAt)) /\ b = Len(LeavesAt[t])
                 /\ c = Len(Spread(Whole, LeavesAt)) /\ a + b <= c
          BY <1>1, <1>2, CarriedGrows
        <4>2. a + b > MaxItems
          BY <2>2, <3>2, <4>1 DEF Exceeds
        <4>. QED  BY <4>1, <4>2, LevelsType
      <3>4. Len(Spread(Whole, LeavesAt)) \in Nat
        BY <1>1, <1>2, CarriedGrows
      <3>. QED  BY <3>1, <3>3, <3>4, LevelsType DEF Admits
    <2>. QED  BY <1>9, <2>1, <2>2 DEF CeilingRefuses
  <1>. QED  BY <1>1, <1>5, <1>6, <1>7, <1>8, <1>9 DEF Admitted, GuardRefuses, AddRefused

-----------------------------------------------------------------------------
(* A block that is admitted moves from the stack to what is read.          *)
LEMMA SplitMoves ==
    ASSUME TypeOK, stack # <<>>, NEW done \in Seq(Pair), Split(done),
           Admitted(Next1.bid, Next1.depth), UNCHANGED <<blocks, op, root>>,
           Visit(Next1.bid), stack' = PairKids(Next1) \o Tail(stack),
           parts' = parts \o DataAt[Next1], assembled' = assembled + SizeAt[Next1],
           count' = count + Len(LeavesAt[Next1]),
           entries' = SetDefaults(entries, LeavesAt[Next1])
    PROVE  \E new \in Seq(Pair) : Split(new)'
  <1>1. PICK t \in Pair : t = Next1 /\ t.depth \in 1..Levels
    BY TopIsNext
  <1>2. /\ blocks \in [Bids -> Block] /\ t \in Item /\ done \in Seq(Item) /\ visited \in SUBSET Bids
        /\ t.bid \in Bids /\ t.depth \in Nat /\ t.depth + 1 \in Nat
    <2>1. blocks \in [Bids -> Block] /\ visited \in SUBSET Bids
      BY DEF TypeOK
    <2>2. t \in Item /\ done \in Seq(Item)
      BY PairsAreItems
    <2>3. t.bid \in Bids /\ t.depth \in Nat /\ t.depth + 1 \in Nat
      BY DEF Pair
    <2>. QED  BY <2>1, <2>2, <2>3
  <1>3. /\ Readable(t.bid)
        /\ Guarded(t.bid) => t.depth <= MaxDepth /\ t.bid \notin visited
    BY <1>1, <1>2, LevelsType DEF Admitted, GuardRefuses, Exceeds, AddRefused
  <1>4. t.depth <= MaxDepth \/ Below(t.bid) = <<>>
    BY <1>2, <1>3, KidsType, TreeIsGuarded
  <1>5. PICK new \in Seq(Pair) : new = Append(done, t)
    BY AppendProperties
  <1>6. PICK n \in Nat : n = Len(done)
    BY LenProperties
  <1>7. Len(new) = n + 1 /\ new[n + 1] = t /\ \A i \in 1..n : new[i] = done[i]
    BY <1>5, <1>6, AppendProperties
  <1>8. \A i \in 1..(n + 1) : i \in 1..n \/ i = n + 1
    OBVIOUS
  <1>9. PICK kids \in Seq(Pair), tail \in Seq(Pair) : kids = PairKids(t) /\ tail = Tail(stack)
    BY <1>1, <1>2, PairKidsType, TopIsNext
  <1>10. Pre \in [Pair -> Seq(Item)]
    BY <1>2, PreType
  <1>11. Whole = new \o Spread(stack', Pre)
    <2>1. Spread(stack', Pre) = Spread(kids, Pre) \o Spread(tail, Pre)
      BY <1>1, <1>9, <1>10, SpreadConcat
    <2>2. PICK a \in Seq(Item), b \in Seq(Item) : a = Spread(kids, Pre) /\ b = Spread(tail, Pre)
      BY <1>10, SpreadType
    <2>3. Pre[t] = <<t>> \o a
      BY <1>1, <1>2, <1>4, <1>9, <2>2, PreUnfolds
    <2>4. Spread(stack, Pre) = (<<t>> \o a) \o b
      BY <1>1, <1>9, <2>2, <2>3, TopIsNext
    <2>5. (<<t>> \o a) \o b = <<t>> \o (a \o b) /\ a \o b \in Seq(Item)
      <3>1. <<t>> \in Seq(Item)
        BY <1>2
      <3>. QED  BY <3>1, ConcatAssociative, ConcatProperties, SMTT(30)
    <2>6. done \o (<<t>> \o (a \o b)) = Append(done, t) \o (a \o b)
      <3>1. PICK ab \in Seq(Item) : ab = a \o b
        BY <2>5
      <3>2. done \in Seq(Item) /\ t \in Item
        BY <1>2
      <3>3. done \o (<<t>> \o ab) = Append(done, t) \o ab
        BY <3>2, AppendThenRest, SMTT(30)
      <3>. QED  BY <3>1, <3>3
    <2>. QED  BY <1>5, <2>1, <2>2, <2>4, <2>5, <2>6 DEF Split
  <1>12. ASSUME NEW x \in ToSet(stack') PROVE x.depth \in 1..Levels
    <2>1. x \in ToSet(kids) \/ x \in ToSet(tail)
      <3>1. ToSet(kids \o tail) = ToSet(kids) \cup ToSet(tail)
        BY PushMembers
      <3>. QED  BY <1>1, <1>9, <3>1
    <2>2. CASE x \in ToSet(kids)
      <3>1. t.depth <= MaxDepth
        <4>1. ASSUME Below(t.bid) = <<>> PROVE FALSE
          <5>1. kids = <<>>
            BY <1>9, <4>1 DEF PairKids, Pending
          <5>. QED  BY <2>2, <5>1 DEF ToSet
        <4>. QED  BY <1>4, <4>1
      <3>2. x.depth = t.depth + 1
        BY <1>2, <1>9, <2>2, PairKidsType
      <3>. QED  BY <1>2, <3>1, <3>2, LevelsType
    <2>3. CASE x \in ToSet(tail)
      BY <1>9, <2>3, TopIsNext DEF Split
    <2>. QED  BY <2>1, <2>2, <2>3
  <1>13. ASSUME NEW i \in 1..(n + 1)
         PROVE  /\ Readable(new[i].bid)
                /\ Guarded(new[i].bid) => new[i].depth <= MaxDepth
    <2>1. CASE i \in 1..n
      BY <1>6, <1>7, <2>1 DEF Split, ReadWell
    <2>2. CASE i = n + 1
      BY <1>3, <1>7, <2>2
    <2>. QED  BY <1>8, <2>1, <2>2
  <1>14. ASSUME NEW i \in 1..n, Guarded(done[i].bid) PROVE done[i].bid \in visited
    BY <1>6, <1>14 DEF Split, ReadWell, GuardedIn
  <1>15. ASSUME NEW i \in 1..(n + 1), NEW j \in 1..(n + 1),
                Guarded(new[i].bid), new[i].bid = new[j].bid
         PROVE  i = j
    <2>1. CASE i \in 1..n /\ j \in 1..n
      BY <1>6, <1>7, <1>15, <2>1 DEF Split, ReadWell
    <2>2. CASE i = n + 1 /\ j \in 1..n
      BY <1>3, <1>7, <1>14, <1>15, <2>2
    <2>3. CASE j = n + 1 /\ i \in 1..n
      BY <1>3, <1>7, <1>14, <1>15, <2>3
    <2>. QED  BY <1>8, <2>1, <2>2, <2>3
  <1>16. /\ visited' = {new[i].bid : i \in GuardedIn(new)}
         /\ Cardinality(GuardedIn(new)) = Cardinality(visited')
    <2>1. IsFiniteSet(visited) /\ IsFiniteSet(GuardedIn(done))
      <3>1. IsFiniteSet(1..n)
        <4>1. 1 \in Int /\ n \in Int
          OBVIOUS
        <4>. QED  BY <4>1, FS_Interval
      <3>2. GuardedIn(done) \subseteq 1..n
        BY <1>6 DEF GuardedIn
      <3>. QED  BY <1>2, <3>1, <3>2, BidsAssumption, FS_Subset
    <2>2. /\ visited = {done[i].bid : i \in GuardedIn(done)}
          /\ Cardinality(GuardedIn(done)) = Cardinality(visited)
          /\ \A i \in GuardedIn(done) : i \in 1..n /\ new[i] = done[i]
      BY <1>6, <1>7 DEF Split, ReadWell, GuardedIn
    <2>3. CASE Guarded(t.bid)
      <3>1. GuardedIn(new) = GuardedIn(done) \cup {n + 1} /\ n + 1 \notin GuardedIn(done)
        BY <1>6, <1>7, <1>8, <2>3 DEF GuardedIn
      <3>2. visited' = visited \cup {t.bid} /\ t.bid \notin visited
        BY <1>1, <1>3, <2>3 DEF Visit
      <3>3. visited' = {new[i].bid : i \in GuardedIn(new)}
        <4>1. {new[i].bid : i \in GuardedIn(done)} = visited
          BY <2>2
        <4>2. {new[i].bid : i \in GuardedIn(done) \cup {n + 1}}
                 = {new[i].bid : i \in GuardedIn(done)} \cup {t.bid}
          BY <1>7
        <4>. QED  BY <3>1, <3>2, <4>1, <4>2
      <3>4. /\ Cardinality(visited') = Cardinality(visited) + 1
            /\ Cardinality(GuardedIn(new)) = Cardinality(GuardedIn(done)) + 1
        BY <2>1, <3>1, <3>2, FS_AddElement
      <3>. QED  BY <2>2, <3>3, <3>4
    <2>4. CASE ~Guarded(t.bid)
      <3>1. GuardedIn(new) = GuardedIn(done)
        BY <1>6, <1>7, <1>8, <2>4 DEF GuardedIn
      <3>2. visited' = visited
        BY <1>1, <2>4 DEF Visit
      <3>. QED  BY <2>2, <3>1, <3>2
    <2>. QED  BY <2>3, <2>4
  <1>17. PICK v \in [Item -> Seq(Bids)], w \in [Item -> Nat], l \in [Item -> Seq(LeafEntry)] :
            v = DataAt /\ w = SizeAt /\ l = LeavesAt
    BY <1>2, CarriedType
  <1>18. /\ parts' = Spread(new, v) /\ assembled' = SumFunction(Mapped(new, w))
         /\ count' = Len(Spread(new, l)) /\ IsDict(entries', Spread(new, l))
    <2>0. done \in Seq(Item) /\ t \in Item
      BY <1>2
    <2>1. Spread(Append(done, t), v) = Spread(done, v) \o v[t]
      BY <2>0, SpreadAppend, ZenonT(60)
    <2>2. SumFunction(Mapped(new, w)) = SumFunction(Mapped(done, w)) + w[t]
      BY <1>5, <2>0, MappedTotal, ZenonT(60)
    <2>3. PICK a \in Seq(LeafEntry), b \in Seq(LeafEntry) : a = Spread(done, l) /\ b = l[t]
      BY <2>0, SpreadType
    <2>4. Spread(new, l) = a \o b
      <3>1. Spread(Append(done, t), l) = Spread(done, l) \o l[t]
        BY <2>0, SpreadAppend, ZenonT(60)
      <3>. QED  BY <1>5, <2>3, <3>1
    <2>5. Len(a \o b) = Len(a) + Len(b)
      BY ConcatProperties
    <2>6. IsDict(SetDefaults(entries, b), a \o b)
      BY <1>17, <2>3, DictGrows DEF Split, Collected
    <2>. QED  BY <1>1, <1>5, <1>17, <2>1, <2>2, <2>3, <2>4, <2>5, <2>6 DEF Split, Collected, BytesOf
  <1>19. /\ Whole' = Whole /\ Pre' = Pre /\ Levels' = Levels /\ MaxDepth' = MaxDepth
         /\ DataAt' = DataAt /\ SizeAt' = SizeAt /\ LeavesAt' = LeavesAt
    BY TreeUnchanged
  <1>20. /\ \A b : Readable(b)' <=> Readable(b)
         /\ \A b : Guarded(b)' <=> Guarded(b)
         /\ GuardedIn(new)' = GuardedIn(new)
    BY DEF Readable, Wanted, Guarded, GuardedIn
  <1>21. ReadWell(new)'
    BY <1>7, <1>13, <1>15, <1>16, <1>19, <1>20 DEF ReadWell
  <1>22. Collected(new)'
    BY <1>17, <1>18, <1>19 DEF Collected, BytesOf
  <1>. QED  BY <1>11, <1>12, <1>19, <1>21, <1>22 DEF Split

-----------------------------------------------------------------------------
(* What a walk that has read nothing has collected.                        *)
LEMMA NothingCollected ==
    ASSUME NEW v, NEW w, NEW l
    PROVE  /\ Spread(<<>>, v) = <<>> /\ SumFunction(Mapped(<<>>, w)) = 0
           /\ Len(<<>>) = 0 /\ IsDict(<<>>, <<>>) /\ Spread(<<>>, l) = <<>>
  <1>1. IsDict(<<>>, <<>>)
    BY DEF IsDict, ToSet
  <1>. QED  BY <1>1, SpreadEmpty, MappedEmpty, TotalEmpty, EmptySeq

(* Both walks enter their loop with the root still to read, or just read.  *)
LEMMA RootStands ==
    ASSUME blocks \in [Bids -> Block], root \in Bids
    PROVE  \E p \in Pair : /\ p = [bid |-> root, depth |-> 1] /\ p.depth \in 1..Levels
                           /\ p \in Item /\ p.bid = root /\ p.depth = 1 /\ Pre[p] = Whole
  <1> DEFINE p == [bid |-> root, depth |-> 1]
  <1>1. p \in Pair /\ p \in Item
    BY DEF Pair, Item
  <1>2. 1 \in 1..Levels /\ Levels - 1 = MaxDepth
    BY LevelsType
  <1>. QED  BY <1>1, <1>2 DEF Pre, Whole

LEMMA SubnodeEnters ==
    ASSUME TypeOK, MatchInv, EnterSubnodeTree
    PROVE  MatchInv'
  <1>1. /\ op = "subnode" /\ stack' = Pending(<<root>>, 1) /\ pc' = "walk"
        /\ UNCHANGED <<blocks, op, root, visited, parts, assembled, entries, count>>
        /\ visited = {} /\ parts = <<>> /\ assembled = 0 /\ entries = <<>> /\ count = 0
    BY DEF EnterSubnodeTree, MatchInv
  <1>2. blocks \in [Bids -> Block] /\ root \in Bids
    BY DEF TypeOK
  <1>3. PICK p \in Pair : p = [bid |-> root, depth |-> 1] /\ p.depth \in 1..Levels /\ Pre[p] = Whole
    BY <1>2, RootStands
  <1>4. stack' = <<p>>
    BY <1>1, <1>3 DEF Pending
  <1>5. Pre \in [Pair -> Seq(Item)] /\ Whole \in Seq(Item)
    BY <1>2, PreType, WholeIs
  <1>6. Whole = <<>> \o Spread(stack', Pre)
    BY <1>3, <1>4, <1>5, SpreadOne, ConcatEmptySeq
  <1>7. \A x \in ToSet(stack') : x.depth \in 1..Levels
    BY <1>3, <1>4 DEF ToSet
  <1>8. /\ Whole' = Whole /\ Pre' = Pre /\ Levels' = Levels /\ MaxDepth' = MaxDepth
        /\ DataAt' = DataAt /\ SizeAt' = SizeAt /\ LeavesAt' = LeavesAt
    BY <1>1, TreeUnchanged
  <1>9. ReadWell(<<>>)'
    <2>1. GuardedIn(<<>>)' = {} /\ Len(<<>>) = 0
      BY EmptySeq DEF GuardedIn
    <2>. QED  BY <1>1, <2>1 DEF ReadWell
  <1>10. Collected(<<>>)'
    BY <1>1, <1>8, NothingCollected DEF Collected, BytesOf
  <1>11. Split(<<>>)' /\ <<>> \in Seq(Pair)
    BY <1>6, <1>7, <1>8, <1>9, <1>10, EmptySeq DEF Split
  <1>12. Entered'
    BY <1>1 DEF Entered
  <1>. QED  BY <1>1, <1>11, <1>12 DEF MatchInv

LEMMA DataEnters ==
    ASSUME TypeOK, MatchInv, EnterDataTree
    PROVE  MatchInv'
  <1>1. /\ op = "data" /\ Readable(root) /\ IsTree(root)
        /\ ~Exceeds(blocks[root].total, MaxAllocation)
        /\ visited' = {root} /\ stack' = Pending(blocks[root].below, 2) /\ pc' = "walk"
        /\ UNCHANGED <<blocks, op, root, parts, assembled, entries, count>>
        /\ parts = <<>> /\ assembled = 0 /\ entries = <<>> /\ count = 0
    BY DEF EnterDataTree, MatchInv
  <1>2. blocks \in [Bids -> Block] /\ root \in Bids
    BY DEF TypeOK
  <1>3. PICK p \in Pair :
           /\ p = [bid |-> root, depth |-> 1] /\ p.depth \in 1..Levels /\ Pre[p] = Whole
           /\ p \in Item /\ p.bid = root /\ p.depth = 1
    BY <1>2, RootStands
  <1>4. stack' = PairKids(p)
    BY <1>1, <1>2, <1>3, KidsType DEF PairKids
  <1>5. Whole = <<p>> \o Spread(stack', Pre)
    BY <1>2, <1>3, <1>4, LevelsType, PreUnfolds
  <1>6. \A x \in ToSet(stack') : x.depth \in 1..Levels
    <2>1. \A x \in ToSet(stack') : x.depth = 2
      BY <1>1 DEF Pending, ToSet
    <2>. QED  BY <2>1, LevelsType
  <1>7. /\ Whole' = Whole /\ Pre' = Pre /\ Levels' = Levels /\ MaxDepth' = MaxDepth
        /\ DataAt' = DataAt /\ SizeAt' = SizeAt /\ LeavesAt' = LeavesAt
    BY <1>1, TreeUnchanged
  <1>8. blocks[root].kind = "xblock" /\ Guarded(root)
    BY <1>1, TreeIsGuarded DEF Readable, Wanted, IsTree
  <1>9. DataAt[p] = <<>> /\ SizeAt[p] = 0 /\ LeavesAt[p] = <<>>
    BY <1>3, <1>8 DEF DataAt, SizeAt, LeavesAt
  <1>10. PICK done \in Seq(Pair) : done = <<p>> /\ Len(done) = 1 /\ done[1] = p
    <2>1. <<p>> \in Seq(Pair) /\ Len(<<p>>) = 1 /\ <<p>>[1] = p
      OBVIOUS
    <2>. QED  BY <2>1
  <1>11. ReadWell(done)'
    <2>1. GuardedIn(done)' = {1}
      BY <1>1, <1>3, <1>8, <1>10 DEF GuardedIn, Guarded
    <2>2. Cardinality({1}) = 1 /\ Cardinality({root}) = 1
      BY FS_Singleton
    <2>3. visited' = {done[i].bid : i \in {1}}
      BY <1>1, <1>3, <1>10
    <2>4. Readable(root)' /\ 1 <= MaxDepth'
      BY <1>1, <1>7, LevelsType DEF Readable, Wanted
    <2>5. \A i \in 1..1 : i = 1
      OBVIOUS
    <2>. QED  BY <1>1, <1>3, <1>10, <2>1, <2>2, <2>3, <2>4, <2>5 DEF ReadWell
  <1>12. Collected(done)'
    <2>1. PICK v \in [Item -> Seq(Bids)], w \in [Item -> Nat], l \in [Item -> Seq(LeafEntry)] :
             v = DataAt /\ w = SizeAt /\ l = LeavesAt
      BY <1>2, CarriedType
    <2>2. Spread(<<p>>, v) = <<>> /\ Spread(<<p>>, l) = <<>>
      <3>1. p \in Item
        BY <1>3
      <3>2. Spread(<<p>>, v) = v[p] /\ Spread(<<p>>, l) = l[p]
        BY <3>1, SpreadOne
      <3>. QED  BY <1>9, <2>1, <3>2
    <2>3. SumFunction(Mapped(<<p>>, w)) = 0
      <3>1. PICK none \in Seq(Item) : none = <<>>
        BY EmptySeq
      <3>2. SumFunction(Mapped(Append(none, p), w)) = SumFunction(Mapped(none, w)) + w[p]
        BY <1>3, MappedTotal
      <3>3. Append(none, p) = <<p>>
        BY <3>1
      <3>4. SumFunction(Mapped(none, w)) = 0 /\ w[p] = 0
        BY <1>9, <2>1, <3>1, NothingCollected
      <3>. QED  BY <3>2, <3>3, <3>4
    <2>. QED  BY <1>1, <1>7, <1>10, <2>1, <2>2, <2>3, NothingCollected DEF Collected, BytesOf
  <1>13. Split(done)'
    BY <1>5, <1>6, <1>7, <1>10, <1>11, <1>12 DEF Split
  <1>14. Entered'
    <2>1. blocks[root].total \in Nat
      BY <1>2, <1>8 DEF Block
    <2>. QED  BY <1>1, <2>1, LevelsType DEF Entered, Readable, Wanted, IsTree, Exceeds
  <1>. QED  BY <1>1, <1>13, <1>14 DEF MatchInv

-----------------------------------------------------------------------------
LEMMA MatchStarts == ASSUME Init PROVE MatchInv
  BY DEF Init, MatchInv

(* A root that is not the block a data walk wants, or whose lcbTotal is    *)
(* above the ceiling, is the first occurrence of a tree no walk accepts.   *)
LEMMA RootRefusalHasReason ==
    ASSUME TypeOK, op = "data", ~Readable(root) \/ (IsTree(root) /\ blocks[root].total > MaxAllocation)
    PROVE  ~Admits
  <1>1. blocks \in [Bids -> Block] /\ root \in Bids
    BY DEF TypeOK
  <1>2. CASE ~Readable(root)
    <2>1. PICK p \in Pair : p \in Item /\ p.bid = root /\ p.depth \in 1..Levels /\ Pre[p] = Whole
      BY <1>1, RootStands
    <2>2. PICK rest \in Seq(Item) : Whole = <<p>> \o rest
      BY <1>1, <2>1, PreStarts
    <2>3. Whole \in Seq(Item) /\ Whole # <<>> /\ Head(Whole) = p
      BY <2>1, <2>2, ConsIs
    <2>4. Whole[1] = p /\ 1 \in 1..Len(Whole)
      BY <2>3, PopProperties
    <2>. QED  BY <1>2, <2>1, <2>4 DEF Admits
  <1>3. CASE Readable(root) /\ IsTree(root) /\ blocks[root].total > MaxAllocation
    <2>1. ASSUME Admits PROVE FALSE
      <3>1. blocks[root].total <= MaxAllocation
        BY <1>3, <2>1 DEF Admits
      <3>2. blocks[root].total \in Nat
        <4>1. blocks[root].kind = "xblock" \/ blocks[root].kind = "siblock"
          BY <1>3 DEF IsTree
        <4>2. CASE blocks[root].kind = "xblock"
          BY <1>1, <4>2 DEF Block
        <4>3. CASE blocks[root].kind # "xblock"
          BY <1>3, <4>1, <4>3 DEF Readable, Wanted
        <4>. QED  BY <4>2, <4>3
      <3>. QED  BY <1>3, <3>1, <3>2, LevelsType
    <2>. QED  BY <2>1
  <1>. QED  BY <1>2, <1>3

LEMMA AdmitsUnchanged ==
    ASSUME UNCHANGED <<blocks, op, root>>
    PROVE  Admits' <=> Admits
  <1>1. /\ Whole' = Whole /\ MaxDepth' = MaxDepth /\ SizeAt' = SizeAt /\ LeavesAt' = LeavesAt
    BY TreeUnchanged
  <1>2. /\ \A b : Readable(b)' <=> Readable(b)
        /\ \A b : Guarded(b)' <=> Guarded(b)
        /\ IsTree(root)' <=> IsTree(root)
    BY DEF Readable, Wanted, Guarded, IsTree
  <1>3. GuardedIn(Whole)' = GuardedIn(Whole)
    BY <1>1, <1>2 DEF GuardedIn
  <1>4. BytesOf(Whole)' = BytesOf(Whole)
    BY <1>1 DEF BytesOf
  <1>. QED  BY <1>1, <1>2, <1>3, <1>4 DEF Admits

LEMMA SplitUnchanged ==
    ASSUME NEW done, Split(done),
           UNCHANGED <<blocks, op, root, stack, visited, parts, assembled, entries, count>>
    PROVE  Split(done)'
  <1>1. /\ Whole' = Whole /\ Pre' = Pre /\ Levels' = Levels /\ MaxDepth' = MaxDepth
        /\ DataAt' = DataAt /\ SizeAt' = SizeAt /\ LeavesAt' = LeavesAt
    BY TreeUnchanged
  <1>2. /\ \A b : Readable(b)' <=> Readable(b)
        /\ \A b : Guarded(b)' <=> Guarded(b)
        /\ GuardedIn(done)' = GuardedIn(done)
    BY DEF Readable, Wanted, Guarded, GuardedIn
  <1>3. ReadWell(done)'
    BY <1>1, <1>2 DEF Split, ReadWell
  <1>4. Collected(done)'
    BY <1>1 DEF Split, Collected, BytesOf
  <1>. QED  BY <1>1, <1>3, <1>4 DEF Split

(* A turn of either loop that admits the next block.                       *)
LEMMA TurnPreserved ==
    ASSUME TypeOK, MatchInv, ExpandTreeBlock \/ AppendDataBlock \/ CollectLeaves
    PROVE  MatchInv'
  <1>1. /\ pc = "walk" /\ pc' = "walk" /\ stack # <<>> /\ UNCHANGED <<blocks, op, root>>
        /\ Admitted(Next1.bid, Next1.depth) /\ Visit(Next1.bid)
    BY DEF ExpandTreeBlock, AppendDataBlock, CollectLeaves
  <1>2. PICK done \in Seq(Pair) : Split(done) /\ Entered
    BY <1>1 DEF MatchInv
  <1>3. /\ blocks \in [Bids -> Block] /\ Next1 \in Pair /\ Next1 \in Item /\ Next1.bid \in Bids
        /\ Tail(stack) \in Seq(Pair) /\ parts \in Seq(Bids) /\ assembled \in Nat /\ count \in Nat
        /\ entries \in PartialDict
    <2>1. Next1 \in Pair /\ Tail(stack) \in Seq(Pair)
      BY <1>1, <1>2, TopIsNext
    <2>2. Next1 \in Item /\ Next1.bid \in Bids
      BY <2>1, PairsAreItems DEF Pair
    <2>. QED  BY <2>1, <2>2 DEF TypeOK
  <1>4. /\ blocks[Next1.bid].kind # "data" => DataAt[Next1] = <<>> /\ SizeAt[Next1] = 0
        /\ blocks[Next1.bid].kind # "slblock" => LeavesAt[Next1] = <<>>
    BY <1>3 DEF DataAt, SizeAt, LeavesAt
  <1>5. /\ parts \o <<>> = parts /\ assembled + 0 = assembled
        /\ count + Len(<<>>) = count /\ SetDefaults(entries, <<>>) = entries
    BY <1>3, ConcatEmptySeq, DictSame, EmptySeq
  <1>6. ~IsTree(Next1.bid) => PairKids(Next1) \o Tail(stack) = Tail(stack)
    <2>1. ASSUME ~IsTree(Next1.bid) PROVE PairKids(Next1) = <<>>
      BY <1>3, <2>1, KidsType DEF PairKids, Pending
    <2>. QED  BY <1>3, <2>1, ConcatEmptySeq
  <1>7. CASE ExpandTreeBlock
    <2>1. /\ IsTree(Next1.bid) /\ Readable(Next1.bid)
          /\ stack' = Pending(blocks[Next1.bid].below, Next1.depth + 1) \o Tail(stack)
          /\ UNCHANGED <<parts, assembled, entries, count>>
      BY <1>7 DEF ExpandTreeBlock, Admitted
    <2>2. PairKids(Next1) = Pending(blocks[Next1.bid].below, Next1.depth + 1)
      BY <1>3, <2>1, KidsType DEF PairKids
    <2>3. blocks[Next1.bid].kind # "data" /\ blocks[Next1.bid].kind # "slblock"
      BY <2>1 DEF IsTree
    <2>4. \E new \in Seq(Pair) : Split(new)'
      BY <1>1, <1>2, <1>4, <1>5, <2>1, <2>2, <2>3, SplitMoves
    <2>5. Entered'
      BY <1>1, <1>2 DEF Entered, Readable, Wanted, IsTree
    <2>. QED  BY <1>1, <2>4, <2>5 DEF MatchInv
  <1>8. CASE AppendDataBlock
    <2>1. /\ blocks[Next1.bid].kind = "data" /\ stack' = Tail(stack)
          /\ parts' = Append(parts, Next1.bid)
          /\ assembled' = assembled + blocks[Next1.bid].size
          /\ UNCHANGED <<entries, count>>
      BY <1>8 DEF AppendDataBlock
    <2>2. DataAt[Next1] = <<Next1.bid>> /\ SizeAt[Next1] = blocks[Next1.bid].size
      BY <1>3, <2>1 DEF DataAt, SizeAt
    <2>3. Append(parts, Next1.bid) = parts \o <<Next1.bid>>
      <3>1. parts \in Seq(Bids)
        BY DEF TypeOK
      <3>2. PICK b \in Bids : b = Next1.bid
        BY <1>3
      <3>3. Append(parts, b) = parts \o <<b>>
        BY <3>1
      <3>. QED  BY <3>2, <3>3
    <2>4. ~IsTree(Next1.bid) /\ blocks[Next1.bid].kind # "slblock"
      BY <2>1 DEF IsTree
    <2>5. \E new \in Seq(Pair) : Split(new)'
      BY <1>1, <1>2, <1>4, <1>5, <1>6, <2>1, <2>2, <2>3, <2>4, SplitMoves
    <2>6. Entered'
      BY <1>1, <1>2 DEF Entered, Readable, Wanted, IsTree
    <2>. QED  BY <1>1, <2>5, <2>6 DEF MatchInv
  <1>9. CASE CollectLeaves
    <2>1. /\ blocks[Next1.bid].kind = "slblock" /\ stack' = Tail(stack)
          /\ entries' = SetDefaults(entries, blocks[Next1.bid].leaves)
          /\ count' = count + Len(blocks[Next1.bid].leaves)
          /\ UNCHANGED <<parts, assembled>>
      BY <1>9 DEF CollectLeaves
    <2>2. LeavesAt[Next1] = blocks[Next1.bid].leaves
      BY <1>3, <2>1 DEF LeavesAt
    <2>3. ~IsTree(Next1.bid) /\ blocks[Next1.bid].kind # "data"
      BY <2>1 DEF IsTree
    <2>4. \E new \in Seq(Pair) : Split(new)'
      BY <1>1, <1>2, <1>4, <1>5, <1>6, <2>1, <2>2, <2>3, SplitMoves
    <2>5. Entered'
      BY <1>1, <1>2 DEF Entered, Readable, Wanted, IsTree
    <2>. QED  BY <1>1, <2>4, <2>5 DEF MatchInv
  <1>. QED  BY <1>7, <1>8, <1>9

LEMMA MatchPreserved ==
    ASSUME TypeOK, MatchInv, [Next]_vars
    PROVE  MatchInv'
  <1>1. UNCHANGED <<blocks, op, root>>
    BY DEF Next, RefuseRoot, ReturnDataBlock, EnterDataTree, EnterSubnodeTree, RefuseBlock,
           ExpandTreeBlock, AppendDataBlock, CollectLeaves, Return, Refuse, vars
  <1>2. /\ Admits' <=> Admits
        /\ \A b : Readable(b)' <=> Readable(b)
        /\ \A b : IsTree(b)' <=> IsTree(b)
    BY <1>1, AdmitsUnchanged DEF Readable, Wanted, IsTree
  <1>3. (Entered' <=> Entered) /\ (Direct' <=> Direct)
    BY <1>1, <1>2 DEF Entered, Direct
  <1>4. CASE RefuseRoot
    <2>1. pc' = "refused" /\ op = "data"
      BY <1>4 DEF RefuseRoot, Refuse
    <2>2. ~Readable(root) \/ (IsTree(root) /\ blocks[root].total > MaxAllocation)
      BY <1>4 DEF RefuseRoot, Exceeds
    <2>3. ~Admits
      BY <2>1, <2>2, RootRefusalHasReason
    <2>. QED  BY <1>2, <2>1, <2>3 DEF MatchInv
  <1>5. CASE ReturnDataBlock
    <2>1. pc' = "done" /\ Direct /\ parts' = <<root>> /\ root' = root
      BY <1>1, <1>5 DEF ReturnDataBlock, Direct
    <2>. QED  BY <1>3, <2>1 DEF MatchInv
  <1>6. CASE EnterDataTree
    BY <1>6, DataEnters
  <1>7. CASE EnterSubnodeTree
    BY <1>7, SubnodeEnters
  <1>8. CASE RefuseBlock
    <2>1. pc = "walk" /\ pc' = "refused" /\ stack # <<>> /\ ~Admitted(Next1.bid, Next1.depth)
      BY <1>8 DEF RefuseBlock, Refuse, Admitted
    <2>2. PICK done \in Seq(Pair) : Split(done) /\ Entered
      BY <2>1 DEF MatchInv
    <2>3. ~Admits
      BY <2>1, <2>2, RefusalHasReason
    <2>. QED  BY <1>2, <2>1, <2>3 DEF MatchInv
  <1>9. CASE ExpandTreeBlock \/ AppendDataBlock \/ CollectLeaves
    BY <1>9, TurnPreserved
  <1>10. CASE Return
    <2>1. pc = "walk" /\ pc' = "done" /\ stack = <<>> /\ stack' = <<>>
          /\ UNCHANGED <<visited, parts, assembled, entries, count, stack>>
      BY <1>10 DEF Return, walkvars
    <2>2. PICK done \in Seq(Pair) : Split(done) /\ Entered
      BY <2>1 DEF MatchInv
    <2>3. Split(done)'
      BY <1>1, <2>1, <2>2, SplitUnchanged
    <2>. QED  BY <1>3, <2>1, <2>2, <2>3 DEF MatchInv
  <1>11. CASE UNCHANGED vars
    <2>1. UNCHANGED <<pc, visited, parts, assembled, entries, count, stack>>
      BY <1>11 DEF vars, walkvars
    <2>2. \A done : Split(done) => Split(done)'
      BY <1>1, <2>1, SplitUnchanged
    <2>. QED  BY <1>1, <1>2, <1>3, <2>1, <2>2 DEF MatchInv
  <1>. QED  BY <1>4, <1>5, <1>6, <1>7, <1>8, <1>9, <1>10, <1>11 DEF Next

-----------------------------------------------------------------------------
(* A walk that has read the whole tree accepts it, and has its content.    *)
LEMMA WholeTreeMatches ==
    ASSUME TypeOK, WorkBounded, pc = "done", Entered, stack = <<>>,
           NEW done \in Seq(Pair), Split(done)
    PROVE  Admits /\ ResultMatchesTree
  <1>1. blocks \in [Bids -> Block] /\ root \in Bids /\ op \in {"data", "subnode"}
    BY DEF TypeOK
  <1>2. Whole = done
    <2>1. Spread(stack, Pre) = <<>>
      BY SpreadEmpty
    <2>. QED  BY <2>1, ConcatEmptySeq DEF Split
  <1>3. op = "subnode" \/ IsTree(root)
    BY <1>1 DEF Entered
  <1>4. assembled <= MaxAllocation /\ count <= MaxItems /\ Cardinality(visited) <= MaxItems
    BY <1>3 DEF WorkBounded
  <1>5. Admits
    BY <1>1, <1>2, <1>4 DEF Admits, Split, ReadWell, Collected, Entered
  <1>6. parts = DataBlocks /\ IsDict(entries, LeafEntries)
    BY <1>1, <1>2, WholeIs DEF Split, Collected
  <1>7. ResultMatchesTree
    BY <1>6 DEF ResultMatchesTree, IsDict
  <1>. QED  BY <1>5, <1>7

(* A root that is a data block is the whole tree.                          *)
LEMMA DirectMatches ==
    ASSUME TypeOK, pc = "done", Direct, parts = <<root>>
    PROVE  Admits /\ ResultMatchesTree
  <1>1. blocks \in [Bids -> Block] /\ root \in Bids /\ op = "data"
    BY DEF TypeOK, Direct
  <1>2. blocks[root].kind = "data" /\ ~Guarded(root)
    BY <1>1 DEF Direct, Readable, Wanted, IsTree, Guarded
  <1>3. PICK p \in Pair : p \in Item /\ p.bid = root /\ p.depth \in 1..Levels /\ Pre[p] = Whole
    BY <1>1, RootStands
  <1>4. Whole = <<p>>
    <2>1. Below(p.bid) = <<>>
      BY <1>1, <1>3, KidsType DEF Direct
    <2>2. Whole = <<p>> \o Spread(PairKids(p), Pre)
      BY <1>1, <1>3, <2>1, PreUnfolds
    <2>3. PairKids(p) = <<>>
      BY <2>1 DEF PairKids, Pending
    <2>4. <<p>> \in Seq(Item)
      BY <1>3
    <2>. QED  BY <2>2, <2>3, <2>4, SpreadEmpty, ConcatEmptySeq
  <1>5. Len(Whole) = 1 /\ Whole[1] = p /\ \A i \in 1..1 : i = 1
    BY <1>4
  <1>6. Cardinality(GuardedIn(Whole)) <= MaxItems
    <2>1. GuardedIn(Whole) = {}
      BY <1>2, <1>3, <1>5 DEF GuardedIn
    <2>. QED  BY <2>1, FS_EmptySet, LevelsType
  <1>7. Admits
    BY <1>1, <1>2, <1>3, <1>5, <1>6 DEF Admits, Direct
  <1>8. DataBlocks = <<root>>
    <2>1. PICK v \in [Item -> Seq(Bids)] : v = DataAt
      BY <1>1, CarriedType
    <2>2. Spread(<<p>>, v) = v[p]
      BY <1>3, SpreadOne
    <2>3. v[p] = <<root>>
      BY <1>2, <1>3, <2>1 DEF DataAt
    <2>. QED  BY <1>1, <1>4, <2>1, <2>2, <2>3, WholeIs
  <1>9. ResultMatchesTree
    BY <1>1, <1>8 DEF ResultMatchesTree
  <1>. QED  BY <1>7, <1>9

LEMMA WalkMatches ==
    ASSUME TypeOK, WorkBounded, MatchInv
    PROVE  MatchesTree
  <1>1. Admissible <=> Admits
    BY AdmissibleIs DEF TypeOK
  <1>2. ASSUME pc = "done" PROVE Admits /\ ResultMatchesTree
    <2>1. CASE Direct /\ parts = <<root>>
      BY <1>2, <2>1, DirectMatches
    <2>2. CASE Entered /\ stack = <<>> /\ \E done \in Seq(Pair) : Split(done)
      BY <1>2, <2>2, WholeTreeMatches
    <2>. QED  BY <1>2, <2>1, <2>2 DEF MatchInv
  <1>3. pc # "done" => ResultMatchesTree
    BY DEF ResultMatchesTree
  <1>. QED  BY <1>1, <1>2, <1>3 DEF MatchesTree, VerdictMatchesTree, MatchInv

(* For every block layer, call and limits: read_data_blocks and            *)
(* read_subnode_tree return exactly when the tree below the root is within *)
(* every limit, with all of its data blocks in tree order, or for each     *)
(* node the first leaf entry that names it.                                *)
THEOREM WalksMatchTrees == Spec => []MatchesTree
  <1>1. Init => MatchInv
    BY MatchStarts
  <1>2. TypeOK /\ MatchInv /\ [Next]_vars => MatchInv'
    BY MatchPreserved
  <1>3. TypeOK /\ WorkBounded /\ MatchInv => MatchesTree
    BY WalkMatches
  <1>. QED  BY <1>1, <1>2, <1>3, TypeCorrect, WorkIsBounded, PTL DEF Spec

-----------------------------------------------------------------------------
(* Encodings and layout. *)
(* Byte arithmetic wraps: what is added can be taken off again. *)
LEMMA PlusMinus ==
    ASSUME NEW a \in Byte, NEW b \in Byte
    PROVE  /\ Plus(a, b) \in Byte /\ Minus(a, b) \in Byte
           /\ Plus(Minus(a, b), b) = a /\ Minus(Plus(a, b), b) = a
  BY BytesAssumption DEF Plus, Minus, Byte

(* The cyclic transform of a byte, with the same two halves of a key, is   *)
(* undone by itself.                                                       *)
LEMMA CyclicByteTwice ==
    ASSUME NEW b \in Byte, NEW low \in Byte, NEW high \in Byte
    PROVE  /\ CyclicByte(b, low, high) \in Byte
           /\ CyclicByte(CyclicByte(b, low, high), low, high) = b
<1> DEFINE p == Permuted[Plus(b, low)]
           s == Swapped[Plus(p, high)]
           r == Restored[Minus(s, high)]
           c == Minus(r, low)
<1>1. p \in Byte /\ Plus(b, low) \in Byte
  BY PlusMinus, TablesAssumption
<1>2. s \in Byte /\ Plus(p, high) \in Byte
  BY <1>1, PlusMinus, TablesAssumption
<1>3. r \in Byte /\ Minus(s, high) \in Byte
  BY <1>2, PlusMinus, TablesAssumption
<1>4. c \in Byte /\ Plus(c, low) = r
  BY <1>3, PlusMinus
<1>5. Permuted[Plus(c, low)] = Minus(s, high)
  BY <1>3, <1>4, TablesAssumption
<1>6. Plus(Minus(s, high), high) = s /\ Swapped[s] = Plus(p, high)
  BY <1>2, PlusMinus, TablesAssumption
<1>7. Minus(Plus(p, high), high) = p /\ Restored[p] = Plus(b, low) /\ Minus(Plus(b, low), low) = b
  BY <1>1, PlusMinus, TablesAssumption
<1>8. CyclicByte(b, low, high) = c
  BY DEF CyclicByte
<1>9. CyclicByte(c, low, high) = b
  BY <1>5, <1>6, <1>7 DEF CyclicByte
<1> QED BY <1>4, <1>8, <1>9

(* The two halves of what a key becomes at a place are bytes. *)
LEMMA KeyHalves ==
    ASSUME NEW key \in 0..(KeyBase * KeyBase - 1), NEW i \in Nat \ {0}
    PROVE  KeyAt(key, i) % ByteBase \in Byte /\ KeyAt(key, i) \div ByteBase \in Byte
<1> DEFINE k == KeyAt(key, i)
<1>1. KeyBase \in Nat /\ KeyBase > 0 /\ KeyBase = ByteBase * ByteBase
  BY BytesAssumption DEF KeyBase
<1>2. k \in 0..(KeyBase - 1)
  <2>1. ExclusiveOr(key, key \div KeyBase) + i - 1 \in Nat
    BY KeysAssumption
  <2> QED BY <1>1, <2>1 DEF KeyAt
<1> HIDE DEF k
<1>3. k % ByteBase \in Byte
  BY <1>2, <1>1, BytesAssumption DEF Byte
<1>4. k \div ByteBase \in Byte
  <2> DEFINE q == k \div ByteBase
  <2>1. q \in Nat /\ q * ByteBase <= k
    BY <1>2, <1>1, BytesAssumption
  <2>2. q * ByteBase < ByteBase * ByteBase
    BY <2>1, <1>2, <1>1, BytesAssumption
  <2> HIDE DEF q
  <2>3. q < ByteBase
    <3>1. SUFFICES ASSUME q >= ByteBase PROVE FALSE
      BY <2>1, BytesAssumption
    <3>2. q * ByteBase >= ByteBase * ByteBase
      BY <3>1, <2>1, BytesAssumption
    <3> QED BY <3>2, <2>2, <2>1, BytesAssumption
  <2> QED BY <2>1, <2>3, BytesAssumption DEF q, Byte
<1> QED BY <1>3, <1>4 DEF k

(* encode_decode_cyclic: one function encodes and decodes, for every data  *)
(* and every key.                                                          *)
THEOREM CyclicUndoesItself ==
    \A data \in Seq(Byte), key \in 0..(KeyBase * KeyBase - 1) :
        encode_decode_cyclic(encode_decode_cyclic(data, key), key) = data
<1> SUFFICES ASSUME NEW data \in Seq(Byte), NEW key \in 0..(KeyBase * KeyBase - 1)
             PROVE  encode_decode_cyclic(encode_decode_cyclic(data, key), key) = data
  OBVIOUS
<1> DEFINE Low(i) == KeyAt(key, i) % ByteBase
           High(i) == KeyAt(key, i) \div ByteBase
           coded == [i \in DOMAIN data |-> CyclicByte(data[i], Low(i), High(i))]
<1>1. \A i \in DOMAIN data : data[i] \in Byte /\ i \in Nat \ {0}
  OBVIOUS
<1>2. \A i \in DOMAIN data : Low(i) \in Byte /\ High(i) \in Byte
  BY <1>1, KeyHalves
<1> HIDE DEF Low, High
<1>3. \A i \in DOMAIN data : CyclicByte(coded[i], Low(i), High(i)) = data[i]
  BY <1>1, <1>2, CyclicByteTwice
<1>4. [i \in DOMAIN coded |-> CyclicByte(coded[i], Low(i), High(i))] = data
  BY <1>3
<1> QED BY <1>4 DEF encode_decode_cyclic, Low, High

(* decode_permute undoes encode_permute, and encode_permute undoes it. *)
THEOREM PermuteIsUndone ==
    \A data \in Seq(Byte) : /\ decode_permute(encode_permute(data)) = data
                            /\ encode_permute(decode_permute(data)) = data
<1> SUFFICES ASSUME NEW data \in Seq(Byte)
             PROVE  /\ decode_permute(encode_permute(data)) = data
                    /\ encode_permute(decode_permute(data)) = data
  OBVIOUS
<1>1. \A i \in DOMAIN data : data[i] \in Byte
  OBVIOUS
<1> QED BY <1>1, TablesAssumption DEF decode_permute, encode_permute

-----------------------------------------------------------------------------
(* A product with a quotient stays below what was divided, and is more     *)
(* than it less one divisor.                                               *)
LEMMA Quotient ==
    ASSUME NEW x \in Nat, NEW a \in Nat \ {0}
    PROVE  x \div a \in Nat /\ (x \div a) * a <= x /\ x < (x \div a) * a + a
  OBVIOUS

LEMMA ProductGrows ==
    ASSUME NEW m \in Nat, NEW n \in Nat, NEW a \in Nat, m <= n
    PROVE  m * a <= n * a
  OBVIOUS

(* block_size: what is read for so much data holds it and the trailer, is  *)
(* less than one alignment more, and stays below the largest block.        *)
THEOREM BlockSizeHoldsBlock ==
    \A size \in Nat :
        /\ block_size(size) \in Nat /\ \E k \in Nat : block_size(size) = k * Alignment
        /\ size + BlockTrailerSize <= block_size(size)
        /\ block_size(size) < size + BlockTrailerSize + Alignment
        /\ size <= MaxBlockDataSize => block_size(size) <= MaxBlockSize
<1> SUFFICES ASSUME NEW size \in Nat
             PROVE  /\ block_size(size) \in Nat /\ \E k \in Nat : block_size(size) = k * Alignment
                    /\ size + BlockTrailerSize <= block_size(size)
                    /\ block_size(size) < size + BlockTrailerSize + Alignment
                    /\ size <= MaxBlockDataSize => block_size(size) <= MaxBlockSize
  OBVIOUS
<1> DEFINE x == size + BlockTrailerSize + Alignment - 1
           k == x \div Alignment
<1>1. x \in Nat /\ Alignment \in Nat \ {0} /\ BlockTrailerSize = 4
  BY SizesAssumption DEF BlockTrailerSize
<1>2. k \in Nat /\ k * Alignment <= x /\ x < k * Alignment + Alignment
  BY <1>1, Quotient
<1>3. block_size(size) = k * Alignment
  BY DEF block_size
<1> HIDE DEF k
<1>4. k * Alignment \in Nat
  BY <1>1, <1>2
<1>5. ASSUME size <= MaxBlockDataSize PROVE k * Alignment <= MaxBlockSize
  <2> DEFINE q == MaxBlockSize \div Alignment
  <2>1. q \in Nat /\ MaxBlockSize = q * Alignment
    BY SizesAssumption
  <2> HIDE DEF q
  <2>2. x <= q * Alignment + Alignment - 1
    BY <2>1, <1>5, <1>1 DEF MaxBlockDataSize
  <2>3. k <= q
    <3>1. SUFFICES ASSUME q + 1 <= k PROVE FALSE
      BY <2>1, <1>2
    <3>2. (q + 1) * Alignment <= k * Alignment
      BY <3>1, <2>1, <1>2, <1>1, ProductGrows
    <3>3. (q + 1) * Alignment = q * Alignment + Alignment /\ q * Alignment \in Nat
      BY <2>1, <1>1
    <3> QED BY <3>2, <3>3, <2>2, <1>1, <1>2, <1>4
  <2> QED BY <2>1, <2>3, <1>1, <1>2, ProductGrows
<1> QED BY <1>1, <1>2, <1>3, <1>4, <1>5

-----------------------------------------------------------------------------
(* An accepted page of a B-tree: its entries lie in its area, apart.       *)
LEMMA PageInside ==
    ASSUME NEW page, NEW kind \in {"BBT", "NBT"},
           {page.count, page.max_entries, page.entry_size} \subseteq Nat, Fits(page, kind)
    PROVE  EntriesInside(page, kind)
<1> DEFINE es == page.entry_size
           ef == EntryFields[EntryType(page, kind)]
           max == page.max_entries
<1>1. ef \in Nat /\ ef >= 3
  BY DEF EntryFields, EntryType
<1>2. page.count \in Nat /\ max \in Nat /\ es \in Nat /\ page.count <= max /\ es >= ef
  BY DEF Fits
<1>3. max <= AreaSize \div es
  BY DEF Fits
<1> HIDE DEF es, ef, max
<1>4. max * es <= AreaSize
  <2>1. AreaSize \div es \in Nat /\ (AreaSize \div es) * es <= AreaSize
    BY <1>1, <1>2, SizesAssumption, Quotient
  <2>2. max * es <= (AreaSize \div es) * es
    BY <2>1, <1>2, <1>3, ProductGrows
  <2> QED BY <2>1, <2>2, <1>2, SizesAssumption
<1> SUFFICES ASSUME NEW i \in 1..page.count
             PROVE  /\ (i - 1) * es + ef <= AreaSize
                    /\ i < page.count => (i - 1) * es + ef <= i * es
  BY <1>2 DEF EntriesInside, EntryAt, es, ef
<1>5. i \in Nat /\ i <= max
  BY <1>2
<1>6. i * es <= max * es
  BY <1>2, <1>5, ProductGrows
<1>7. (i - 1) * es + es = i * es
  BY <1>2, <1>5
<1> QED BY <1>1, <1>2, <1>4, <1>5, <1>6, <1>7, SizesAssumption

(* An accepted tree block: its entries, what its size says there is, and   *)
(* its trailer follow each other inside what was read.                     *)
LEMMA TreeBlockInside ==
    ASSUME NEW block, NEW size, NEW type \in {1, 2}, block.fields \in Seq(Nat),
           size \in Nat, SizeHolds(size), TreeBlockHolds(block, size, type)
    PROVE  TreeInside(block, size, type)
<1> DEFINE implied == Implied(block, type)
<1>1. implied \in Nat /\ implied >= 4
  <2>1. Fields(block, 3)[3] \in Nat
    BY DEF Fields
  <2>2. TreeEntrySize(type, Fields(block, 2)[2]) \in {1, 2, 3}
    BY DEF TreeEntrySize, BlockType
  <2> QED BY <2>1, <2>2 DEF Implied, TreeHeaderSize
<1>2. implied <= size
  BY DEF TreeBlockHolds
<1>3. TrailerOffset(block, size, type) + BlockTrailerSize <= block_size(size)
  BY DEF TreeBlockHolds
<1> HIDE DEF implied
<1>4. block_size(implied) \in Nat /\ implied + BlockTrailerSize <= block_size(implied)
  BY <1>1, BlockSizeHoldsBlock
<1>5. size <= TrailerOffset(block, size, type)
  BY <1>1, <1>4 DEF TrailerOffset, BlockTrailerSize, implied
<1>6. block_size(size) <= MaxBlockSize
  BY BlockSizeHoldsBlock DEF SizeHolds
<1> QED BY <1>1, <1>2, <1>3, <1>5, <1>6 DEF TreeInside, TreeHeaderSize, implied

-----------------------------------------------------------------------------
(* How a writer encodes data under the id of its block, and where it puts  *)
(* the trailer: at the end of the allocation.                              *)
Coded(data, method, bid) ==
    CASE method = CryptMethod.none -> data
      [] method = CryptMethod.permute -> encode_permute(data)
      [] method = CryptMethod.cyclic ->
            encode_decode_cyclic(data, SearchKey(bid) % (KeyBase * KeyBase))

IsWrittenAs(block, fields, bid) ==
    LET end == block_size(Len(fields)) - BlockTrailerSize
    IN /\ block.fields = fields /\ end \in DOMAIN block.trailers
       /\ block.trailers[end].size = Len(fields) /\ block.trailers[end].crc = Crc(fields)
       /\ block.trailers[end].block_id = bid

LEMMA AllFields ==
    ASSUME NEW block, NEW T, block.fields \in Seq(T)
    PROVE  Fields(block, Len(block.fields)) = block.fields
<1> DEFINE fields == block.fields
<1>1. Len(fields) \in Nat /\ DOMAIN fields = 1..Len(fields) /\ fields = [i \in 1..Len(fields) |-> fields[i]]
  OBVIOUS
<1>2. Fields(block, Len(fields)) = [i \in 1..Len(fields) |-> fields[i]]
  BY <1>1 DEF Fields
<1> QED BY <1>1, <1>2

LEMMA CodedIsUndone ==
    ASSUME NEW data \in Seq(Byte), NEW method \in {0, 1, 2}, NEW bid \in Nat
    PROVE  /\ Coded(data, method, bid) \in Seq(Byte)
           /\ Len(Coded(data, method, bid)) = Len(data)
           /\ decode_block(Coded(data, method, bid), method, SearchKey(bid) % (KeyBase * KeyBase)) = data
<1> DEFINE key == SearchKey(bid) % (KeyBase * KeyBase)
           n == Len(data)
<1>1. key \in 0..(KeyBase * KeyBase - 1)
  <2>1. SearchKey(bid) \in Nat
    BY DEF SearchKey
  <2>2. ByteBase * ByteBase \in Nat \ {0}
    BY BytesAssumption
  <2>3. KeyBase * KeyBase \in Nat \ {0}
    BY <2>2 DEF KeyBase
  <2>4. PICK k \in Nat \ {0} : k = KeyBase * KeyBase
    BY <2>3
  <2>5. SearchKey(bid) % k \in 0..(k - 1)
    BY <2>1, <2>4
  <2> QED BY <2>4, <2>5
<1>2. n \in Nat /\ DOMAIN data = 1..n /\ \A i \in 1..n : data[i] \in Byte
  OBVIOUS
<1>3. CASE method = 0
  BY <1>3 DEF Coded, decode_block, CryptMethod
<1>4. CASE method = 1
  <2>1. Coded(data, method, bid) = encode_permute(data)
    BY <1>4 DEF Coded, CryptMethod
  <2>2. encode_permute(data) = [i \in 1..n |-> Permuted[data[i]]]
    BY <1>2 DEF encode_permute
  <2>3. \A i \in 1..n : Permuted[data[i]] \in Byte
    BY <1>2, TablesAssumption
  <2>4. encode_permute(data) \in Seq(Byte) /\ Len(encode_permute(data)) = n
    <3> HIDE DEF n
    <3> QED BY <1>2, <2>2, <2>3
  <2>5. decode_block(encode_permute(data), 1, key) = decode_permute(encode_permute(data))
    BY DEF decode_block, CryptMethod
  <2> QED BY <1>4, <2>1, <2>4, <2>5, PermuteIsUndone
<1>5. CASE method = 2
  <2> DEFINE coded == encode_decode_cyclic(data, key)
             Of(i) == CyclicByte(data[i], KeyAt(key, i) % ByteBase, KeyAt(key, i) \div ByteBase)
  <2>1. Coded(data, method, bid) = coded
    BY <1>5 DEF Coded, CryptMethod
  <2>2. coded = [i \in 1..n |-> Of(i)]
    BY <1>2 DEF encode_decode_cyclic
  <2>3. ASSUME NEW i \in 1..n PROVE Of(i) \in Byte
    <3>1. i \in Nat \ {0} /\ data[i] \in Byte
      BY <1>2
    <3>2. KeyAt(key, i) % ByteBase \in Byte /\ KeyAt(key, i) \div ByteBase \in Byte
      BY <1>1, <3>1, KeyHalves
    <3> QED BY <3>1, <3>2, CyclicByteTwice
  <2>4. coded \in Seq(Byte) /\ Len(coded) = n
    <3> HIDE DEF n, Of, coded
    <3> QED BY <1>2, <2>2, <2>3
  <2>5. decode_block(coded, 2, key) = encode_decode_cyclic(coded, key)
    BY DEF decode_block, CryptMethod
  <2>6. encode_decode_cyclic(coded, key) = data
    BY <1>1, CyclicUndoesItself
  <2> HIDE DEF coded
  <2> QED BY <1>5, <2>1, <2>4, <2>5, <2>6
<1> QED BY <1>3, <1>4, <1>5

(* A block of data is read as what its writer encoded under its id, of     *)
(* which the reserved bit is no part, for every encoding and any size.     *)
THEOREM StoredDataIsRead ==
    ASSUME NEW data \in Seq(Byte), SizeHolds(Len(data)), NEW bid \in Nat, ~IsInternal(bid),
           header.crypt_method \in {0, 1, 2},
           NEW block, IsWrittenAs(block, Coded(data, header.crypt_method, bid), bid)
    PROVE  DataBlock(block, Len(data)) = [kind |-> "data", data |-> data]
<1> DEFINE method == header.crypt_method
           end == block_size(Len(data)) - BlockTrailerSize
           key == SearchKey(bid) % (KeyBase * KeyBase)
<1>1. PICK coded : coded = Coded(data, method, bid)
  OBVIOUS
<1>2. coded \in Seq(Byte) /\ Len(coded) = Len(data) /\ decode_block(coded, method, key) = data
  BY <1>1, CodedIsUndone
<1>3. block.fields = coded /\ Fields(block, Len(data)) = coded
  <2>1. block.fields = coded
    BY <1>1 DEF IsWrittenAs
  <2> QED BY <1>2, <2>1, AllFields
<1>4. PICK t : end \in DOMAIN block.trailers /\ t = block.trailers[end]
  BY <1>1, <1>2 DEF IsWrittenAs
<1>5. t.size = Len(data) /\ t.crc = Crc(coded) /\ t.block_id = bid
  BY <1>1, <1>2, <1>4 DEF IsWrittenAs
<1>6. TrailerAt(block, end, FALSE, Len(data)) = {t}
  <2>1. {end} \cap DOMAIN block.trailers = {end}
    BY <1>4
  <2>2. {block.trailers[o] : o \in {end}} = {t}
    BY <1>4
  <2>3. SizeHolds(t.size) /\ IsInternal(t.block_id) = FALSE /\ t.crc = Crc(Fields(block, Len(data)))
    BY <1>3, <1>5 DEF IsInternal
  <2> HIDE DEF end
  <2> QED BY <2>1, <2>2, <2>3 DEF TrailerAt
<1>7. {u \in TrailerAt(block, end, FALSE, Len(data)) : u.size = Len(data)} = {t}
  BY <1>5, <1>6
<1>8. (CHOOSE u \in {t} : TRUE) = t
  OBVIOUS
<1>9. CyclicKey(t) = key
  BY <1>5 DEF CyclicKey
<1> HIDE DEF end, key, method
<1>10. DataBlock(block, Len(data)) = [kind |-> "data", data |-> decode_block(coded, method, key)]
  BY <1>3, <1>7, <1>8, <1>9 DEF DataBlock, end, method
<1> QED BY <1>2, <1>10

(* A block of block ids is read as the ids its writer put in it.           *)
THEOREM StoredTreeIsRead ==
    ASSUME NEW bids \in Seq(Nat), NEW bid \in Nat, IsInternal(bid), NEW level \in Nat, NEW total \in Nat,
           NEW block, SizeHolds(TreeHeaderSize + Len(bids)),
           IsWrittenAs(block, <<BlockType.data_tree, level, Len(bids), total>> \o bids, bid)
    PROVE  XBlock(block, TreeHeaderSize + Len(bids)) =
               [kind |-> "xblock", level |-> level, total |-> total, below |-> bids]
<1>1. PICK n \in Nat : n = Len(bids)
  OBVIOUS
<1>2. PICK front \in Seq(Nat) : /\ front = <<BlockType.data_tree, level, Len(bids), total>>
                                /\ Len(front) = 4 /\ front[1] = 1 /\ front[2] = level
                                /\ front[3] = n /\ front[4] = total
  <2>1. PICK type \in Nat, c \in Nat : type = 1 /\ BlockType.data_tree = type /\ c = n /\ Len(bids) = c
    BY <1>1 DEF BlockType
  <2>2. PICK four : four = <<type, level, c, total>>
    OBVIOUS
  <2>3. /\ Len(four) = 4 /\ DOMAIN four = 1..4
        /\ four[1] = type /\ four[2] = level /\ four[3] = c /\ four[4] = total
    BY <2>2
  <2>4. four \in Seq(Nat)
    <3>1. four = [i \in 1..4 |-> four[i]] /\ \A i \in 1..4 : four[i] \in Nat
      BY <2>2, <2>3
    <3> QED BY <3>1
  <2> QED BY <2>1, <2>2, <2>3, <2>4
<1>3. PICK fields \in Seq(Nat) : /\ fields = front \o bids /\ Len(fields) = 4 + n
                                 /\ \A i \in 1..4 : fields[i] = front[i]
                                 /\ \A i \in 1..n : fields[4 + i] = bids[i]
  <2>1. /\ front \o bids \in Seq(Nat) /\ Len(front \o bids) = 4 + n
        /\ \A i \in 1..(4 + n) : (front \o bids)[i] = IF i <= 4 THEN front[i] ELSE bids[i - 4]
    BY <1>1, <1>2, ConcatProperties
  <2>2. \A i \in 1..4 : i \in 1..(4 + n) /\ i <= 4
    OBVIOUS
  <2>3. \A i \in 1..n : 4 + i \in 1..(4 + n) /\ ~(4 + i <= 4) /\ (4 + i) - 4 = i
    OBVIOUS
  <2>4. PICK f \in Seq(Nat) : f = front \o bids
    BY <2>1
  <2>5. \A i \in 1..4 : f[i] = front[i]
    BY <2>1, <2>2, <2>4
  <2>6. \A i \in 1..n : f[4 + i] = bids[i]
    BY <2>1, <2>3, <2>4
  <2> QED BY <2>1, <2>4, <2>5, <2>6
<1>4. block.fields = fields /\ Fields(block, 4 + n) = fields
  <2>1. block.fields = fields
    BY <1>2, <1>3 DEF IsWrittenAs
  <2> QED BY <1>3, <2>1, AllFields
<1>5. /\ fields[1] = 1 /\ fields[2] = level /\ fields[3] = n /\ fields[4] = total
  <2>1. 1 \in 1..4 /\ 2 \in 1..4 /\ 3 \in 1..4 /\ 4 \in 1..4
    OBVIOUS
  <2> QED BY <1>2, <1>3, <2>1
<1>6. /\ Fields(block, 1)[1] = 1 /\ Fields(block, 2)[2] = level /\ Fields(block, 3)[3] = n
  <2>1. 1 \in DOMAIN fields /\ 2 \in DOMAIN fields /\ 3 \in DOMAIN fields
    BY <1>3
  <2>2. ASSUME NEW m \in Nat, m \in 1..m, m \in DOMAIN fields PROVE Fields(block, m)[m] = fields[m]
    BY <1>4, <2>2 DEF Fields
  <2>3. 1 \in 1..1 /\ 2 \in 1..2 /\ 3 \in 1..3
    OBVIOUS
  <2>4. Fields(block, 1)[1] = fields[1] /\ Fields(block, 2)[2] = fields[2] /\ Fields(block, 3)[3] = fields[3]
    BY <2>1, <2>2, <2>3
  <2> QED BY <1>5, <2>4
<1>7. Implied(block, 1) = 4 + n
  <2>1. TreeEntrySize(1, level) = 1
    BY DEF TreeEntrySize, BlockType
  <2> QED BY <1>6, <2>1 DEF Implied, TreeHeaderSize
<1>8. PICK whole \in Nat : whole = block_size(4 + n) /\ 4 + n + BlockTrailerSize <= whole
  <2>1. 4 + n \in Nat
    OBVIOUS
  <2> QED BY <2>1, BlockSizeHoldsBlock
<1>9. TrailerOffset(block, 4 + n, 1) = whole - BlockTrailerSize
  BY <1>7, <1>8 DEF TrailerOffset, BlockTrailerSize
<1>10. TreeBlockHolds(block, 4 + n, 1)
  <2> DEFINE end == whole - BlockTrailerSize
  <2>1. PICK t : /\ end \in DOMAIN block.trailers /\ t = block.trailers[end]
                 /\ t.size = 4 + n /\ t.crc = Crc(fields) /\ t.block_id = bid
    BY <1>2, <1>3, <1>8 DEF IsWrittenAs
  <2>2. SizeHolds(t.size) /\ IsInternal(t.block_id) = TRUE /\ t.crc = Crc(Fields(block, 4 + n))
    BY <1>1, <1>4, <2>1 DEF IsInternal, TreeHeaderSize
  <2>3. t \in TrailerAt(block, end, TRUE, 4 + n)
    <3>1. end \in {end} \cap DOMAIN block.trailers
      BY <2>1
    <3>2. t \in {block.trailers[o] : o \in {end} \cap DOMAIN block.trailers}
      BY <2>1, <3>1
    <3> HIDE DEF end
    <3> QED BY <2>2, <3>2 DEF TrailerAt
  <2>4. end + BlockTrailerSize <= whole
    BY <1>8 DEF BlockTrailerSize
  <2> HIDE DEF end
  <2>5. TrailerAt(block, TrailerOffset(block, 4 + n, 1), TRUE, 4 + n) # {}
    BY <1>9, <2>3 DEF end
  <2>6. TrailerOffset(block, 4 + n, 1) + BlockTrailerSize <= block_size(4 + n)
    BY <1>8, <1>9, <2>4 DEF end
  <2>7. Fields(block, 1)[1] = 1 /\ Implied(block, 1) <= 4 + n
    BY <1>6, <1>7
  <2> QED BY <2>5, <2>6, <2>7 DEF TreeBlockHolds
<1>11. PICK below : /\ below = TreeEntries(block, 1) /\ DOMAIN below = 1..n
                      /\ \A i \in 1..n : below[i][1] = bids[i]
  <2>1. TreeEntrySize(1, fields[2]) = 1
    BY DEF TreeEntrySize, BlockType
  <2>2. TreeEntries(block, 1) =
            [i \in 1..n |-> SubSeq(fields, 4 + (i - 1) * 1 + 1, 4 + i * 1)]
    BY <1>4, <1>5, <1>7, <2>1 DEF TreeEntries, TreeHeaderSize
  <2>3. ASSUME NEW i \in 1..n PROVE SubSeq(fields, 4 + (i - 1) * 1 + 1, 4 + i * 1)[1] = bids[i]
    <3>1. 4 + (i - 1) * 1 + 1 = 4 + i /\ 4 + i * 1 = 4 + i /\ 4 + i \in 1..(4 + n)
      OBVIOUS
    <3>2. PICK at \in Nat : at = 4 + i
      OBVIOUS
    <3>3. SubSeq(fields, at, at)[1] = fields[at]
      BY <1>3, <3>1, <3>2
    <3> QED BY <1>3, <3>1, <3>2, <3>3
  <2> QED BY <2>2, <2>3
<1>12. [i \in DOMAIN below |-> below[i][1]] = bids
  <2>1. bids = [i \in 1..n |-> bids[i]]
    BY <1>1
  <2> QED BY <1>11, <2>1
<1>13. block.fields[2] = level /\ block.fields[4] = total
  BY <1>4, <1>5
<1>14. BlockType.data_tree = 1 /\ TreeHeaderSize + Len(bids) = 4 + n
  BY <1>1 DEF BlockType, TreeHeaderSize
<1>15. XBlock(block, 4 + n) =
           [kind |-> "xblock", level |-> block.fields[2], total |-> block.fields[4],
            below |-> [i \in DOMAIN below |-> below[i][1]]]
  BY <1>10, <1>11, <1>14 DEF XBlock
<1> QED BY <1>12, <1>13, <1>14, <1>15

-----------------------------------------------------------------------------
Interpreted == {"page", "data", "xblock", "slblock", "siblock"}

(* What is not interpreted lies wherever it likes. *)
LEMMA OthersLie ==
    ASSUME NEW call, NEW value, value.kind \notin Interpreted
    PROVE  LiesInside(call, value)
  BY DEF LiesInside, Interpreted

LEMMA RefusedIsNot ==
    /\ BadFormat.kind \notin Interpreted /\ NotYet.kind \notin Interpreted
    /\ Refused("PstNotFoundError").kind \notin Interpreted
  BY DEF BadFormat, Refused, NotYet, Interpreted

(* A header is a header, or a refusal. *)
LEMMA HeaderIsNot ==
    ASSUME NEW h
    PROVE  Header(h).kind \notin Interpreted
<1>1. HeaderRefusal(h) \in {NoError, "PstFormatError", "PstUnsupportedError"}
  BY DEF HeaderRefusal, VersionRefusal, CryptRefusal, NoError
<1> QED BY <1>1 DEF Header, Refused, Interpreted

LEMMA DensityListIsNot ==
    ASSUME NEW list
    PROVE  DensityListPage(list).kind \notin Interpreted
  BY RefusedIsNot DEF DensityListPage, Interpreted

(* What was read, if it was not refused, is one of the values, and lies in *)
(* the file and below the largest file.                                    *)
LEMMA ReadIsValue ==
    ASSUME NEW index, NEW size, NEW values, Read(index, size, values).kind \in Interpreted
    PROVE  /\ Read(index, size, values) \in values
           /\ Reaches(index, size) /\ Holds(index, size)
  BY RefusedIsNot DEF Read, Sought

-----------------------------------------------------------------------------
(* The file itself is one of the files, and never changes. *)
DiskInv == disk \in Disks /\ AcceptedLiesInside

LEMMA InitLies == DiskInit => DiskInv
  BY RefusedIsNot, OthersLie DEF DiskInit, DiskInv, AcceptedLiesInside

(* What an action says its answer is, it is. *)
LEMMA AnswerIs ==
    ASSUME NEW call, NEW value
    PROVE  /\ Unread(call, value) => answer'.call = call /\ answer'.value = value
           /\ \A index, size : Answer(call, value, index, size) =>
                  answer'.call = call /\ answer'.value = value
  BY DEF Unread, Answer

LEMMA PageLies ==
    ASSUME disk \in Disks, NEW kind \in {"BBT", "NBT"}, NEW index,
           NEW call, call = [op |-> "page", tree |-> kind, index |-> index],
           NEW value,
           value = Read(index, PageSize, {BTreePage(p, kind) : p \in Found(Sought(index), "page")})
    PROVE  LiesInside(call, value)
<1>1. CASE value.kind \notin Interpreted
  BY <1>1, OthersLie
<1>2. CASE value.kind \in Interpreted
  <2>1. /\ value \in {BTreePage(p, kind) : p \in Found(Sought(index), "page")}
        /\ Reaches(index, PageSize) /\ Holds(index, PageSize)
    BY <1>2, ReadIsValue
  <2>2. PICK p \in Found(Sought(index), "page") : value = BTreePage(p, kind)
    BY <2>1
  <2>3. index \in DOMAIN disk.at /\ p = disk.at[index] /\ p.kind = "page"
    BY <2>2 DEF Found, Sought
  <2>4. PageHolds(p, kind) /\ value.kind = "page"
    BY <1>2, <2>2, RefusedIsNot DEF BTreePage
  <2>5. {p.count, p.max_entries, p.entry_size} \subseteq Nat
    BY <2>3, DisksAssumption
  <2>6. EntriesInside(p, kind)
    BY <2>4, <2>5, PageInside DEF PageHolds
  <2> QED BY <2>1, <2>3, <2>4, <2>6 DEF LiesInside, Reaches, Holds
<1> QED BY <1>1, <1>2

(* A block is refused, or it is what it was parsed as and passed the       *)
(* checks of that shape.                                                   *)
LEMMA DataBlockKind ==
    ASSUME NEW block, NEW size
    PROVE  DataBlock(block, size) = BadFormat \/ DataBlock(block, size).kind = "data"
  BY DEF DataBlock

LEMMA XBlockKind ==
    ASSUME NEW block, NEW size
    PROVE  \/ XBlock(block, size) = BadFormat
           \/ /\ TreeBlockHolds(block, size, BlockType.data_tree)
              /\ XBlock(block, size).kind = "xblock"
  BY DEF XBlock

LEMMA SubnodeBlockKind ==
    ASSUME NEW block, NEW size
    PROVE  \/ SubnodeBlock(block, size) = BadFormat
           \/ /\ TreeBlockHolds(block, size, BlockType.subnode_tree)
              /\ SubnodeBlock(block, size).kind \in {"slblock", "siblock"}
  BY DEF SubnodeBlock

LEMMA BlockLies ==
    ASSUME disk \in Disks, NEW reader \in {"data tree", "subnode block"}, NEW bid,
           Indexed(bid), NEW entry, entry = BlockEntry(bid), SizeHolds(entry.size),
           NEW value,
           value = Read(entry.index, block_size(entry.size),
                        {ParsedBlock(reader, entry, b) : b \in Found(Sought(entry.index), "block")}),
           NEW call, call = [op |-> reader, block |-> bid]
    PROVE  LiesInside(call, value)
<1>1. CASE value.kind \notin Interpreted
  BY <1>1, OthersLie
<1>2. CASE value.kind \in Interpreted
  <2>1. /\ value \in {ParsedBlock(reader, entry, b) : b \in Found(Sought(entry.index), "block")}
        /\ Reaches(entry.index, block_size(entry.size))
    BY <1>2, ReadIsValue
  <2>2. PICK b \in Found(Sought(entry.index), "block") : value = ParsedBlock(reader, entry, b)
    BY <2>1
  <2>3. entry.index \in DOMAIN disk.at /\ b = disk.at[entry.index] /\ b.kind = "block"
    BY <2>2 DEF Found, Sought
  <2>4. b.fields \in Seq(Nat) /\ entry.size \in Nat
    BY <2>3, DisksAssumption DEF Indexed, BlockEntry
  <2>5. value # BadFormat
    BY <1>2, RefusedIsNot
  <2>6. CASE reader = "subnode block"
    <3>1. /\ TreeBlockHolds(b, entry.size, BlockType.subnode_tree)
          /\ value.kind \in {"slblock", "siblock"}
      BY <2>2, <2>5, <2>6, SubnodeBlockKind DEF ParsedBlock
    <3>2. TreeInside(b, entry.size, BlockType.subnode_tree)
      BY <2>4, <3>1, TreeBlockInside DEF BlockType
    <3> QED BY <2>3, <3>1, <3>2 DEF LiesInside
  <2>7. CASE reader = "data tree" /\ IsInternal(entry.block)
    <3>1. TreeBlockHolds(b, entry.size, BlockType.data_tree) /\ value.kind = "xblock"
      BY <2>2, <2>5, <2>7, XBlockKind DEF ParsedBlock
    <3>2. TreeInside(b, entry.size, BlockType.data_tree)
      BY <2>4, <3>1, TreeBlockInside DEF BlockType
    <3> QED BY <2>3, <3>1, <3>2 DEF LiesInside
  <2>8. CASE reader = "data tree" /\ ~IsInternal(entry.block)
    <3>1. value.kind = "data"
      BY <2>2, <2>5, <2>8, DataBlockKind DEF ParsedBlock
    <3>2. entry.size + BlockTrailerSize <= block_size(entry.size)
      BY <2>4, BlockSizeHoldsBlock
    <3> QED BY <2>1, <3>1, <3>2 DEF LiesInside, Reaches
  <2> QED BY <2>6, <2>7, <2>8
<1> QED BY <1>1, <1>2

LEMMA StepLies == DiskInv /\ [DiskNext]_diskvars => DiskInv'
<1> SUFFICES ASSUME DiskInv, [DiskNext]_diskvars PROVE DiskInv'
  OBVIOUS
<1> USE DEF DiskInv
<1>1. disk' = disk
  BY DEF DiskNext, ReadHeader, ReadPage, ReadDensityList, ReadBlock, MoveFile, diskvars
<1>2. \A call, value : LiesInside(call, value)' <=> LiesInside(call, value)
  BY <1>1 DEF LiesInside, BlockEntry
<1>3. SUFFICES LiesInside(answer'.call, answer'.value)
  BY <1>1 DEF AcceptedLiesInside, LiesInside, BlockEntry
<1>4. CASE ReadHeader
  <2>1. answer'.value.kind \notin Interpreted
    BY <1>4, HeaderIsNot, RefusedIsNot DEF ReadHeader
  <2> QED BY <2>1, OthersLie
<1>5. ASSUME NEW kind \in {"BBT", "NBT"}, NEW index \in disk.pages, ReadPage(kind, index)
      PROVE  LiesInside(answer'.call, answer'.value)
  BY <1>5, PageLies DEF ReadPage, Answer
<1>6. CASE ReadDensityList
  <2>1. answer'.value = Read(DensityListIndex, PageSize,
                             {DensityListPage(l) : l \in Found(Sought(DensityListIndex), "list")})
    BY <1>6 DEF ReadDensityList, Answer
  <2>2. answer'.value.kind \notin Interpreted
    BY <2>1, ReadIsValue, DensityListIsNot
  <2> QED BY <2>2, OthersLie
<1>7. ASSUME NEW reader \in {"data tree", "subnode block"}, NEW bid \in disk.bids, ReadBlock(reader, bid)
      PROVE  LiesInside(answer'.call, answer'.value)
  <2> DEFINE entry == BlockEntry(bid)
  <2>1. CASE ~Indexed(bid) \/ ~SizeHolds(entry.size)
    <3>0. \/ Unread([op |-> reader, block |-> bid], Refused("PstNotFoundError"))
          \/ Unread([op |-> reader, block |-> bid], BadFormat)
      BY <1>7, <2>1 DEF ReadBlock
    <3>1. answer'.value.kind \notin Interpreted
      BY <3>0, AnswerIs, RefusedIsNot
    <3> QED BY <3>1, OthersLie
  <2>2. CASE Indexed(bid) /\ SizeHolds(entry.size)
    <3>1. /\ answer'.call = [op |-> reader, block |-> bid]
          /\ answer'.value =
                Read(entry.index, block_size(entry.size),
                     {ParsedBlock(reader, entry, b) : b \in Found(Sought(entry.index), "block")})
      <4>1. Answer([op |-> reader, block |-> bid],
                   Read(entry.index, block_size(entry.size),
                        {ParsedBlock(reader, entry, b) : b \in Found(Sought(entry.index), "block")}),
                   entry.index, block_size(entry.size))
        BY <1>7, <2>2 DEF ReadBlock
      <4> QED BY <4>1, AnswerIs
    <3> QED BY <2>2, <3>1, BlockLies
  <2> QED BY <2>1, <2>2
<1>8. CASE MoveFile
  BY <1>8 DEF MoveFile, AcceptedLiesInside
<1>9. CASE UNCHANGED diskvars
  BY <1>9 DEF diskvars, AcceptedLiesInside
<1> QED BY <1>4, <1>5, <1>6, <1>7, <1>8, <1>9 DEF DiskNext

(* The property of the run: what a reader interprets lies inside what it   *)
(* took the checksum of, for any file, page, alphabet and alignment.       *)
THEOREM AcceptedLies == DiskSpec => []AcceptedLiesInside
<1>1. DiskInv => AcceptedLiesInside
  BY DEF DiskInv
<1> QED BY InitLies, StepLies, <1>1, PTL DEF DiskSpec

=============================================================================
