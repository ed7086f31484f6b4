----------------------------- MODULE BlockReader -----------------------------
(***************************************************************************)
(* ndb/block.py: the two walks of BlockReader over the block layer.        *)
(* read_data_blocks returns a node's data, one data block at a time, in    *)
(* the order of its XBLOCK or XXBLOCK tree; read_subnode_tree flattens a   *)
(* subnode B-tree into a dictionary.  Both follow block identifiers (BIDs) *)
(* the file chose, so a block may name itself, its parent, a block that is *)
(* missing, or one that does not parse as the walk needs it.               *)
(*                                                                         *)
(* A block is abstracted to what parsing it yields:                        *)
(*   data     a data block of `size' bytes,                                *)
(*   xblock   XBLOCK or XXBLOCK: lcbTotal and the BIDs below it,           *)
(*   siblock  SIBLOCK: the BIDs below it,                                  *)
(*   slblock  SLBLOCK: entries naming a sub-node and its data,             *)
(*   missing  not in the block B-tree,                                     *)
(*   corrupt  in the B-tree, but short, badly typed or with a bad CRC.     *)
(* BIDs stand for the B-tree's search keys (the reserved bit cleared), the *)
(* key of the lookup and of the cycle guard alike.                         *)
(***************************************************************************)
EXTENDS PstLimits, SequencesExt

CONSTANTS DataBids,        \* BIDs whose internal bit is clear
          InternalBids,    \* BIDs whose internal bit is set
          Nids,            \* node identifiers of sub-nodes
          Calls,           \* the block layers, the operations and their roots
          MaxXBlockDepth, MaxSubnodeDepth, MaxAllocation, MaxItems

Bids == DataBids \cup InternalBids

Block == [kind : {"data"}, size : Nat \ {0}]
    \cup [kind : {"xblock"}, total : Nat, below : Seq(Bids)]
    \cup [kind : {"siblock"}, below : Seq(Bids)]
    \cup [kind : {"slblock"}, leaves : Seq([node : Nids, data : Bids])]
    \cup [kind : {"missing", "corrupt"}]

ASSUME BidsAssumption == DataBids \cap InternalBids = {} /\ IsFiniteSet(Bids)
ASSUME CallsAssumption ==
    \A c \in Calls : /\ c.blocks \in [Bids -> Block]
                     /\ c.op \in {"data", "subnode"} /\ c.root \in Bids
ASSUME LimitsAssumption ==
    /\ MaxXBlockDepth \in Nat \ {0} /\ MaxSubnodeDepth \in Nat \ {0}
    /\ MaxAllocation \in Nat \ {0} /\ MaxItems \in Nat \ {0}

VARIABLES blocks,     \* the block layer of the file, never written
          op, root,   \* the call: "data" or "subnode", and its BID
          pc,         \* "call", "walk", "done" or "refused"
          stack,      \* BIDs still to visit with their depth, next one first
          visited,    \* the walk's VisitedSet
          parts,      \* data walk: the data blocks collected so far
          assembled,  \* data walk: their length in bytes
          entries,    \* subnode walk: the dictionary built so far
          count,      \* subnode walk: leaf entries met so far
          error       \* the class of the refusal

walkvars == <<stack, visited, parts, assembled, entries, count>>
vars == <<blocks, op, root, pc, walkvars, error>>

-----------------------------------------------------------------------------
(* Reading one block: read_data_tree expects a data block or an XBLOCK, as *)
(* the internal bit of the BID says; read_subnode_block a subnode block.   *)
Wanted(b) == IF op = "subnode" THEN {"siblock", "slblock"}
             ELSE IF b \in InternalBids THEN {"xblock"} ELSE {"data"}

Readable(b) == blocks[b].kind \in Wanted(b)

ReadError(b) == IF blocks[b].kind = "missing" THEN "PstNotFoundError"
                                              ELSE "PstFormatError"

IsTree(b) == blocks[b].kind \in {"xblock", "siblock"}

(* Depth and revisits are bounded for every block of a subnode walk, and   *)
(* for the internal blocks of a data walk: a data block may repeat.        *)
Guarded(b) == op = "subnode" \/ b \in InternalBids

MaxDepth == IF op = "subnode" THEN MaxSubnodeDepth ELSE MaxXBlockDepth

(* Mutant: extends the stack without reversing the entries. *)
PendingUnreversed(bids, depth) ==
    [i \in DOMAIN bids |-> [bid |-> Reverse(bids)[i], depth |-> depth]]

Pending(bids, depth) == [i \in DOMAIN bids |-> [bid |-> bids[i], depth |-> depth]]

-----------------------------------------------------------------------------
Init == /\ \E c \in Calls : blocks = c.blocks /\ op = c.op /\ root = c.root
        /\ pc = "call"
        /\ stack = <<>> /\ visited = {}
        /\ parts = <<>> /\ assembled = 0
        /\ entries = <<>> /\ count = 0
        /\ error = NoError

Refuse(class) == /\ pc' = "refused"
                 /\ error' = class
                 /\ UNCHANGED <<blocks, op, root, walkvars>>

(* read_data_blocks up to its loop.  A root that is a data block is the    *)
(* whole answer and no ceiling is consulted for it.                        *)
RefuseRoot ==
    /\ pc = "call" /\ op = "data"
    /\ \/ ~Readable(root) /\ Refuse(ReadError(root))
       \/ /\ Readable(root) /\ IsTree(root)
          /\ Exceeds(blocks[root].total, MaxAllocation)
          /\ Refuse("PstLimitError")

ReturnDataBlock ==
    /\ pc = "call" /\ op = "data"
    /\ Readable(root) /\ ~IsTree(root)
    /\ parts' = <<root>>
    /\ pc' = "done"
    /\ UNCHANGED <<blocks, op, root, stack, visited, assembled, entries, count, error>>

EnterDataTree ==
    /\ pc = "call" /\ op = "data"
    /\ Readable(root) /\ IsTree(root)
    /\ ~Exceeds(blocks[root].total, MaxAllocation)
    /\ visited' = {root}
    /\ stack' = Pending(blocks[root].below, 2)
    /\ pc' = "walk"
    /\ UNCHANGED <<blocks, op, root, parts, assembled, entries, count, error>>

(* read_subnode_tree up to its loop: nothing is read yet. *)
EnterSubnodeTree ==
    /\ pc = "call" /\ op = "subnode"
    /\ stack' = Pending(<<root>>, 1)
    /\ pc' = "walk"
    /\ UNCHANGED <<blocks, op, root, visited, parts, assembled, entries, count, error>>

-----------------------------------------------------------------------------
(* One turn of either loop pops the next block; these are its checks.      *)
Next1 == Head(stack)

GuardRefuses(b, depth) ==
    Guarded(b) /\ (Exceeds(depth, MaxDepth) \/ AddRefused(visited, b, MaxItems))

(* Mutant: trusts lcbTotal, and keeps no running total of a data tree. *)
CeilingTrustsTotal(b) ==
    blocks[b].kind = "slblock" /\ Exceeds(count + Len(blocks[b].leaves), MaxItems)

(* The ceiling checked once the block is read. *)
CeilingRefuses(b) ==
    \/ blocks[b].kind = "data" /\ Exceeds(assembled + blocks[b].size, MaxAllocation)
    \/ blocks[b].kind = "slblock" /\ Exceeds(count + Len(blocks[b].leaves), MaxItems)

Admitted(b, depth) == ~GuardRefuses(b, depth) /\ Readable(b) /\ ~CeilingRefuses(b)

RefuseBlock ==
    /\ pc = "walk" /\ stack # <<>>
    /\ LET b == Next1.bid IN
       \/ GuardRefuses(b, Next1.depth) /\ Refuse("PstLimitError")
       \/ ~GuardRefuses(b, Next1.depth) /\ ~Readable(b) /\ Refuse(ReadError(b))
       \/ /\ ~GuardRefuses(b, Next1.depth) /\ Readable(b) /\ CeilingRefuses(b)
          /\ Refuse("PstLimitError")

Visit(b) == visited' = IF Guarded(b) THEN visited \cup {b} ELSE visited

(* Mutant: neither remembers the block nor counts its level. *)
ExpandForgetful ==
    /\ pc = "walk" /\ stack # <<>>
    /\ Admitted(Next1.bid, Next1.depth) /\ IsTree(Next1.bid)
    /\ stack' = Pending(blocks[Next1.bid].below, Next1.depth) \o Tail(stack)
    /\ UNCHANGED <<blocks, op, root, pc, visited, parts, assembled, entries, count, error>>

(* Mutant: replaces the stack by the children, so the siblings are lost. *)
ExpandDropsSiblings ==
    /\ pc = "walk" /\ stack # <<>>
    /\ Admitted(Next1.bid, Next1.depth) /\ IsTree(Next1.bid)
    /\ Visit(Next1.bid)
    /\ stack' = Pending(blocks[Next1.bid].below, Next1.depth + 1)
    /\ UNCHANGED <<blocks, op, root, pc, parts, assembled, entries, count, error>>

(* An internal block: its children go on the stack, the first on top. *)
ExpandTreeBlock ==
    /\ pc = "walk" /\ stack # <<>>
    /\ LET b == Next1.bid IN
       /\ Admitted(b, Next1.depth) /\ IsTree(b)
       /\ Visit(b)
       /\ stack' = Pending(blocks[b].below, Next1.depth + 1) \o Tail(stack)
    /\ UNCHANGED <<blocks, op, root, pc, parts, assembled, entries, count, error>>

AppendDataBlock ==
    /\ pc = "walk" /\ stack # <<>>
    /\ LET b == Next1.bid IN
       /\ Admitted(b, Next1.depth) /\ blocks[b].kind = "data"
       /\ Visit(b)
       /\ parts' = Append(parts, b)
       /\ assembled' = assembled + blocks[b].size
    /\ stack' = Tail(stack)
    /\ UNCHANGED <<blocks, op, root, pc, entries, count, error>>

(* Mutant: keeps the leaf entry where the model keeps its data. *)
SetDefaultsEntry(dict, leaves) ==
    [n \in DOMAIN dict \cup {leaf.node : leaf \in ToSet(leaves)} |->
        IF n \in DOMAIN dict THEN dict[n]
        ELSE leaves[CHOOSE i \in DOMAIN leaves : leaves[i].node = n]]

(* entries.setdefault over the leaves of one SLBLOCK: the first one wins.  *)
SetDefaults(dict, leaves) ==
    [n \in DOMAIN dict \cup {leaf.node : leaf \in ToSet(leaves)} |->
        IF n \in DOMAIN dict THEN dict[n]
        ELSE leaves[CHOOSE i \in DOMAIN leaves :
                       /\ leaves[i].node = n
                       /\ \A j \in 1..(i - 1) : leaves[j].node # n].data]

CollectLeaves ==
    /\ pc = "walk" /\ stack # <<>>
    /\ LET b == Next1.bid IN
       /\ Admitted(b, Next1.depth) /\ blocks[b].kind = "slblock"
       /\ Visit(b)
       /\ entries' = SetDefaults(entries, blocks[b].leaves)
       /\ count' = count + Len(blocks[b].leaves)
    /\ stack' = Tail(stack)
    /\ UNCHANGED <<blocks, op, root, pc, parts, assembled, error>>

Return == /\ pc = "walk" /\ stack = <<>>
          /\ pc' = "done"
          /\ UNCHANGED <<blocks, op, root, walkvars, error>>

Next == \/ RefuseRoot \/ ReturnDataBlock \/ EnterDataTree \/ EnterSubnodeTree
        \/ RefuseBlock \/ ExpandTreeBlock \/ AppendDataBlock \/ CollectLeaves
        \/ Return

(* The walks are plain loops of one thread: they run until they return. *)
Spec == Init /\ [][Next]_vars /\ WF_vars(Next)

-----------------------------------------------------------------------------
PartialDict == UNION {[S -> Bids] : S \in SUBSET Nids}

(* The type of every variable of the two walks in read_data_blocks and     *)
(* read_subnode_tree.                                                      *)
TypeOK ==
    /\ blocks \in [Bids -> Block]
    /\ op \in {"data", "subnode"} /\ root \in Bids
    /\ pc \in {"call", "walk", "done", "refused"}
    /\ stack \in Seq([bid : Bids, depth : Nat])
    /\ visited \in SUBSET Bids
    /\ parts \in Seq(Bids) /\ assembled \in Nat
    /\ entries \in PartialDict /\ count \in Nat
    /\ error \in Refusals \cup {NoError}

(* However the tree of a data walk lies about lcbTotal and however often   *)
(* it repeats a data block, read_data_blocks never holds more bytes than   *)
(* max_allocation nor more parts than bytes, neither walk remembers more   *)
(* blocks than max_items, and a subnode dictionary is no larger than the   *)
(* entries counted, which max_items bounds.                                *)
WorkBounded ==
    (pc # "call" /\ (op = "subnode" \/ IsTree(root))) =>
        /\ Len(parts) <= assembled /\ assembled <= MaxAllocation
        /\ Cardinality(visited) <= MaxItems
        /\ Cardinality(DOMAIN entries) <= count /\ count <= MaxItems

-----------------------------------------------------------------------------
(* The reference: the occurrences of blocks in the tree below the root, in *)
(* pre-order, one level beyond the deepest the walk may accept;            *)
(* below[n][b] are those from `b' on with `n' levels left.                 *)
Below(b) == IF Readable(b) /\ IsTree(b) THEN blocks[b].below ELSE <<>>

Occurrences ==
    LET below[n \in 0..MaxDepth] ==
            [b \in Bids |->
                <<[bid |-> b, depth |-> MaxDepth + 1 - n]>> \o
                (IF n = 0 THEN <<>>
                 ELSE FlattenSeq([i \in DOMAIN Below(b) |-> below[n - 1][Below(b)[i]]]))]
    IN below[MaxDepth][root]

(* What they carry, in tree order: data blocks, their bytes, leaf entries. *)
DataBlocks ==
    LET occ == Occurrences
    IN FlattenSeq([i \in DOMAIN occ |->
                     IF blocks[occ[i].bid].kind = "data" THEN <<occ[i].bid>> ELSE <<>>])

Bytes ==
    LET occ == Occurrences
    IN SumFunction([i \in DOMAIN occ |->
                     IF blocks[occ[i].bid].kind = "data" THEN blocks[occ[i].bid].size ELSE 0])

LeafEntries ==
    LET occ == Occurrences
    IN FlattenSeq([i \in DOMAIN occ |->
                     IF blocks[occ[i].bid].kind = "slblock" THEN blocks[occ[i].bid].leaves
                                                            ELSE <<>>])

(* A tree a walk must accept, and no other: every block readable, no       *)
(* guarded block met twice or too deep, and every total within its limit.  *)
Admissible ==
    LET occ == Occurrences
        guarded == {i \in DOMAIN occ : Guarded(occ[i].bid)}
    IN /\ \A i \in DOMAIN occ : Readable(occ[i].bid)
       /\ \A i \in guarded : occ[i].depth <= MaxDepth
       /\ \A i, j \in guarded : occ[i].bid = occ[j].bid => i = j
       /\ Cardinality(guarded) <= MaxItems
       /\ IsTree(root) /\ op = "data" =>
            /\ blocks[root].total <= MaxAllocation
            /\ Bytes <= MaxAllocation
       /\ op = "subnode" => Len(LeafEntries) <= MaxItems

(* A walk that returns has read a tree within every limit, and one that    *)
(* refuses has a reason in the file: no order of the checks in the loops   *)
(* of read_data_blocks and read_subnode_tree accepts or refuses too much.  *)
VerdictMatchesTree == /\ pc = "done" => Admissible
                      /\ pc = "refused" => ~Admissible

(* What a walk returns: every data block of the tree in tree order (the    *)
(* order a heap's block index counts), or for each node the first leaf     *)
(* entry in tree order that names it.                                      *)
ResultMatchesTree ==
    pc = "done" =>
        IF op = "data"
        THEN parts = DataBlocks
        ELSE LET all == LeafEntries
             IN /\ DOMAIN entries = {leaf.node : leaf \in ToSet(all)}
                /\ \A i \in DOMAIN all :
                     (\A j \in 1..(i - 1) : all[j].node # all[i].node)
                        => entries[all[i].node] = all[i].data

(* A walk accepts exactly the trees within the limits, and gives back      *)
(* exactly their content.                                                  *)
MatchesTree == VerdictMatchesTree /\ ResultMatchesTree

(* Every walk ends, on a cyclic graph too. *)
Terminates == <>(pc \in {"done", "refused"})

-----------------------------------------------------------------------------
(* The guarded blocks of a walk are traversed as Traversal promises.       *)
Edges == {e \in Bids \X Bids :
            /\ Readable(e[1]) /\ IsTree(e[1]) /\ Guarded(e[2])
            /\ e[2] \in ToSet(blocks[e[1]].below)}

Start == IF Guarded(root) THEN {root} ELSE {}

Status == IF pc \in {"done", "refused"} THEN pc ELSE "running"

Walk == INSTANCE Traversal WITH Node <- Bids, start <- Start, edges <- Edges,
                                seen <- visited, status <- Status

(* Each guarded block is visited at most once, only if the tree reaches    *)
(* it, and a walk that returns has visited all of them.                    *)
ImplementsTraversal == Walk!Spec

=============================================================================
