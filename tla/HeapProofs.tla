------------------------------ MODULE HeapProofs ------------------------------
(***************************************************************************)
(* Proofs about the heap and the BTH in it, for every node, every limit    *)
(* and every interleaving of the iteration, find and get.                  *)
(***************************************************************************)
EXTENDS Heap, DataLemmas

Parsed == {b \in 0..(Len(blocks) - 1) : blocks[b + 1].kind = "map"}

(* Where the walks can be: neither before the BTH is open, the iteration   *)
(* among the index levels or past them all, find below a root only.        *)
HeapControl ==
    /\ tpc # "open" => ipc = "new" /\ fpc = "idle"
    /\ fpc = "idle" => flevel = 0
    /\ fpc = "descend" => root # NullHid
    /\ ipc = "new" => level = 0 /\ visited = {}
    /\ ipc = "index" => level < levels
    /\ ipc = "leaf" => level = levels

HeapInv == HeapTypeOK /\ HeapControl

-----------------------------------------------------------------------------
LEMMA BlockType ==
    ASSUME TypesOK, NEW h \in Hid, HasBlock(h)
    PROVE  /\ BlockOf(h) \in Block /\ h.block \in 0..(Len(blocks) - 1)
           /\ BlockOf(h).kind = "map" <=> h.block \in Parsed
           /\ BlockOf(h).kind = "map" => BlockOf(h).items \in Seq(Item)
  <1>1. blocks \in Seq(Block) /\ Len(blocks) \in Nat /\ h.block \in Nat /\ h.block < Len(blocks)
    BY LenProperties, HeapAssumption DEF TypesOK, Hid, HasBlock
  <1>2. h.block + 1 \in 1..Len(blocks)
    BY <1>1
  <1>3. BlockOf(h) \in Block
    BY <1>1, <1>2, ElementOfSeq DEF BlockOf
  <1>4. BlockOf(h).kind = "map" => BlockOf(h).items \in Seq(Item)
    BY <1>3 DEF Block
  <1>. QED  BY <1>1, <1>3, <1>4 DEF Parsed, BlockOf

(* What an item that get gives parses to. *)
LEMMA ItemProperties ==
    ASSUME TypesOK, NEW h \in Hid, GetRefusal(h) = NoError
    PROVE  /\ HasBlock(h) /\ ~Dangling(h) /\ h.block \in Parsed
           /\ ItemAt(h).header \in Header
           /\ ItemAt(h).index \in View(IndexRecord)
           /\ ItemAt(h).leaf \in View(LeafRecord)
  <1>1. HasBlock(h) /\ ~Dangling(h) /\ MapRefusal(h) = NoError
    BY DEF GetRefusal, NoError
  <1>2. BlockOf(h).kind = "map" /\ h.block \in Parsed
    <2>1. CASE h.block \in maps
      BY <1>1, <2>1, BlockType DEF TypesOK, Parsed
    <2>2. CASE h.block \notin maps
      <3>1. BlockOf(h).kind # "bad"
        BY <1>1, <2>2 DEF MapRefusal, NoError
      <3>. QED  BY <1>1, <3>1, BlockType DEF Block
    <2>. QED  BY <2>1, <2>2
  <1>3. BlockOf(h).items \in Seq(Item) /\ h.index \in DOMAIN BlockOf(h).items
    BY <1>1, <1>2, BlockType DEF Dangling
  <1>4. ItemAt(h) \in Item /\ ItemAt(h).kind # "freed"
    BY <1>1, <1>3, LenProperties, ElementOfSeq DEF ItemAt, Dangling
  <1>. QED  BY <1>1, <1>2, <1>4 DEF Item

(* The rows of a page that is read. *)
LEMMA PageRows ==
    ASSUME TypesOK, NEW h \in Hid, NEW l \in Nat, NEW seen,
           PageRefusal(h, l, seen) = NoError
    PROVE  /\ ~AddRefused(seen, h, MaxItems) /\ GetRefusal(h) = NoError
           /\ PageView(h, l).kind = "rows"
           /\ l = levels => ItemAt(h).leaf.rows \in Seq(LeafRecord)
           /\ l # levels => /\ ItemAt(h).index.rows \in Seq(IndexRecord)
                            /\ ChildrenOf(ItemAt(h).index.rows) \in Seq(Hid)
  <1>1. /\ ~AddRefused(seen, h, MaxItems) /\ GetRefusal(h) = NoError
        /\ PageView(h, l).kind # "refused"
    BY DEF PageRefusal, NoError
  <1>2. PageView(h, l) \in View(IndexRecord) \cup View(LeafRecord)
    BY <1>1, ItemProperties DEF PageView
  <1>3. PageView(h, l).kind = "rows"
    BY <1>1, <1>2 DEF View
  <1>4. l = levels => ItemAt(h).leaf.rows \in Seq(LeafRecord)
    BY <1>1, <1>3, ItemProperties DEF PageView, View
  <1>5. l # levels => ItemAt(h).index.rows \in Seq(IndexRecord)
    BY <1>1, <1>3, ItemProperties DEF PageView, View
  <1>6. ASSUME NEW rows \in Seq(IndexRecord) PROVE ChildrenOf(rows) \in Seq(Hid)
    <2>1. DOMAIN rows = 1..Len(rows) /\ Len(rows) \in Nat
      BY LenProperties
    <2>2. ASSUME NEW i \in 1..Len(rows) PROVE rows[i].child \in Hid
      <3>1. rows[i] \in IndexRecord
        BY ElementOfSeq
      <3>. QED  BY <3>1 DEF IndexRecord
    <2>3. ChildrenOf(rows) \in [1..Len(rows) -> Hid]
      BY <2>1, <2>2 DEF ChildrenOf
    <2>. QED  BY <2>1, <2>3
  <1>. QED  BY <1>1, <1>3, <1>4, <1>5, <1>6

LEMMA ChosenType ==
    ASSUME NEW rows \in Seq(IndexRecord), NEW k
    PROVE  Chosen(rows, k) \in 0..Len(rows)
  <1> DEFINE greater == {i \in DOMAIN rows : rows[i].key > k}
  <1>1. DOMAIN rows = 1..Len(rows) /\ Len(rows) \in Nat
    BY LenProperties
  <1>2. greater # {} => Min(greater) \in 1..Len(rows)
    <2>1. greater \in SUBSET (1..Len(rows)) /\ greater \in SUBSET Nat
      BY <1>1
    <2> HIDE DEF greater
    <2>2. greater # {} => Min(greater) \in greater
      BY <2>1, MinProperties
    <2>. QED  BY <2>1, <2>2
  <1> HIDE DEF greater
  <1>3. Chosen(rows, k) = IF greater = {} THEN Len(rows) ELSE Min(greater) - 1
    BY DEF Chosen, greater
  <1>. QED  BY <1>1, <1>2, <1>3

-----------------------------------------------------------------------------
(* What asking for an item does to the count and the page maps.            *)
LEMMA TouchKeeps ==
    ASSUME HeapTypeOK, NEW h \in Hid, Touch(h), UNCHANGED blocks
    PROVE  /\ maps' \in SUBSET Parsed /\ itemsSeen' \in Nat /\ MapsAccounted'
           /\ maps \subseteq maps'
           /\ GetRefusal(h) = NoError => h.block \in maps'
  <1> DEFINE held == [b \in maps |-> Len(blocks[b + 1].items)]
             n == Len(BlockOf(h).items)
  <1>1. maps \in SUBSET Parsed /\ itemsSeen \in Nat /\ MaxHeapItems \in Nat
    BY HeapLimitsAssumption DEF HeapTypeOK, TypesOK, Parsed
  <1>2. IsFiniteSet(Parsed)
    <2>1. IsFiniteSet(0..(Len(blocks) - 1))
      BY FS_Interval, LenProperties DEF HeapTypeOK, TypesOK
    <2>. QED  BY <2>1, FS_Subset DEF Parsed
  <1>3. ASSUME NEW b \in Parsed PROVE Len(blocks[b + 1].items) \in Nat
    <2>1. b \in 0..(Len(blocks) - 1) /\ blocks \in Seq(Block) /\ blocks[b + 1].kind = "map"
      BY DEF Parsed, HeapTypeOK, TypesOK
    <2>2. blocks[b + 1] \in Block
      <3>1. b + 1 \in 1..Len(blocks)
        BY <2>1, LenProperties
      <3>. QED  BY <2>1, <3>1, ElementOfSeq
    <2>3. blocks[b + 1].items \in Seq(Item)
      BY <2>1, <2>2 DEF Block
    <2>. QED  BY <2>3, LenProperties
  <1>4. held \in [maps -> Nat] /\ IsFiniteSet(maps)
    BY <1>1, <1>2, <1>3, FS_Subset
  <1>5. KeptItems \in Nat
    BY <1>4, SumType DEF KeptItems
  <1>6. CASE ~Parses(h)
    <2>1. UNCHANGED <<maps, itemsSeen>>
      BY <1>6 DEF Touch
    <2>2. MapsAccounted'
      BY <2>1 DEF HeapTypeOK, MapsAccounted, KeptItems
    <2>3. GetRefusal(h) = NoError => h.block \in maps
      <3>1. GetRefusal(h) = NoError => HasBlock(h) /\ BlockOf(h).kind = "map"
        BY ItemProperties, BlockType DEF HeapTypeOK
      <3>. QED  BY <1>6, <3>1 DEF Parses
    <2>. QED  BY <1>1, <2>1, <2>2, <2>3
  <1>7. CASE Parses(h)
    <2>1. /\ HasBlock(h) /\ h.block \notin maps /\ BlockOf(h).kind = "map"
          /\ h.block \in Parsed
      BY <1>7, BlockType DEF Parses, HeapTypeOK
    <2>2. n \in Nat /\ itemsSeen' = itemsSeen + n
      BY <1>3, <1>7, <2>1 DEF Touch, BlockOf
    <2>3. MapRefusal(h) = IF itemsSeen + n > MaxHeapItems THEN "PstLimitError" ELSE NoError
      BY <2>1 DEF MapRefusal, Exceeds
    <2>4. CASE itemsSeen + n > MaxHeapItems
      <3>1. maps' = maps
        BY <2>3, <2>4 DEF Touch, NoError
      <3>2. KeptItems' = KeptItems
        BY <3>1 DEF KeptItems
      <3> HIDE DEF n
      <3>3. MapsAccounted'
        BY <1>1, <1>5, <2>2, <2>4, <3>2 DEF HeapTypeOK, MapsAccounted, Exceeds
      <3>4. GetRefusal(h) # NoError
        BY <2>1, <2>3, <2>4 DEF GetRefusal, NoError
      <3>. QED  BY <1>1, <2>2, <3>1, <3>3, <3>4
    <2>5. CASE ~(itemsSeen + n > MaxHeapItems)
      <3> DEFINE now == [b \in maps \cup {h.block} |-> Len(blocks[b + 1].items)]
      <3>1. maps' = maps \cup {h.block}
        BY <1>7, <2>3, <2>5 DEF Touch
      <3>2. now \in [maps \cup {h.block} -> Nat] /\ now[h.block] = n
            /\ \A b \in maps : now[b] = held[b]
        BY <1>1, <1>3, <2>1 DEF BlockOf
      <3>3. KeptItems' = SumFunctionOnSet(now, maps \cup {h.block})
        BY <3>1 DEF KeptItems
      <3>4. KeptItems = SumFunctionOnSet(held, maps)
        BY DEF KeptItems
      <3> HIDE DEF now, held, n
      <3>5. KeptItems' = KeptItems + n
        BY <1>4, <2>1, <3>2, <3>3, <3>4, SumAdds
      <3>6. MapsAccounted'
        BY <1>1, <1>5, <2>2, <2>5, <3>5 DEF HeapTypeOK, MapsAccounted, Exceeds
      <3>. QED  BY <1>1, <2>1, <2>2, <3>1, <3>6
    <2>. QED  BY <2>4, <2>5
  <1>. QED  BY <1>6, <1>7

(* What the heap keeps of any step, whatever is asked of it. *)
HeapKeeps ==
    /\ maps' \in SUBSET Parsed /\ itemsSeen' \in Nat /\ MapsAccounted'
    /\ maps \subseteq maps'

LEMMA StaysKeeps ==
    ASSUME HeapTypeOK, UNCHANGED <<blocks, heap>>
    PROVE  HeapKeeps
  BY DEF HeapTypeOK, TypesOK, MapsAccounted, KeptItems, HeapKeeps, Parsed, heap

LEMMA EndOfRow ==
    ASSUME HeapTypeOK, row # <<>>
    PROVE  Head(row) \in Hid /\ Tail(row) \in Seq(Hid)
  BY PopProperties DEF HeapTypeOK, TypesOK

(* Every step of every user: the node stays as it is, and what the heap    *)
(* keeps stays accounted for.                                              *)
LEMMA EveryStepKeeps ==
    ASSUME HeapTypeOK, [Next]_heapvars
    PROVE  HeapKeeps /\ UNCHANGED <<blocks, top>>
  <1>1. UNCHANGED <<blocks, top>>
    BY DEF Next, heapvars, ReadOnly, Open, Get, StartIteration, ReadIndexPage, NextLevel,
           ReadLeafPage, RefuseIteration, Exhaust, Find, FindRefuses, Descend, SearchLeaf
  <1> SUFFICES HeapKeeps
    BY <1>1
  <1>2. ASSUME NEW h \in Hid, Touch(h) PROVE HeapKeeps
    BY <1>1, <1>2, TouchKeeps DEF HeapKeeps
  <1>3. ASSUME UNCHANGED heap PROVE HeapKeeps
    BY <1>1, <1>3, StaysKeeps
  <1>4. top \in Hid /\ hid \in Hid
    BY DEF HeapTypeOK, TypesOK
  <1>5. CASE Open
    BY <1>2, <1>4, <1>5 DEF Open
  <1>6. CASE \E h \in Hid : Get(h)
    BY <1>2, <1>6 DEF Get
  <1>7. CASE StartIteration \/ NextLevel \/ Exhaust \/ \E k \in Keys : Find(k)
    BY <1>3, <1>7 DEF StartIteration, NextLevel, Exhaust, Find
  <1>8. CASE ReadIndexPage \/ ReadLeafPage
    <2>1. row # <<>> /\ Touch(Head(row))
      BY <1>8 DEF ReadIndexPage, ReadLeafPage
    <2>. QED  BY <1>2, <2>1, EndOfRow
  <1>9. CASE RefuseIteration
    <2>1. UNCHANGED heap \/ (row # <<>> /\ Touch(Head(row)))
      BY <1>9 DEF RefuseIteration, TouchPage
    <2>. QED  BY <1>2, <1>3, <2>1, EndOfRow
  <1>10. CASE FindRefuses
    <2>1. UNCHANGED heap \/ Touch(hid)
      BY <1>10 DEF FindRefuses, TouchPage
    <2>. QED  BY <1>2, <1>3, <1>4, <2>1
  <1>11. CASE Descend \/ SearchLeaf
    BY <1>2, <1>4, <1>11 DEF Descend, SearchLeaf
  <1>12. CASE UNCHANGED heapvars
    BY <1>3, <1>12 DEF heapvars
  <1>. QED  BY <1>1, <1>5, <1>6, <1>7, <1>8, <1>9, <1>10, <1>11, <1>12 DEF Next

(* The types of the state, and that the page maps kept are accounted for,  *)
(* for every node and every order of reads.                                *)
THEOREM HeapInvariant == Spec => []HeapInv
  <1>1. Init => HeapInv
    <2> SUFFICES ASSUME Init PROVE HeapInv
      OBVIOUS
    <2>1. PICK s \in Stores : blocks = s.blocks /\ top = s.top
      BY DEF Init
    <2>2. blocks \in Seq(Block) /\ top \in Hid /\ NullHid \in Hid
      BY <2>1, HeapStoresAssumption, HeapAssumption DEF Hid, NullHid
    <2>3. (CHOOSE k \in Keys : TRUE) \in Keys
      BY HeapAssumption
    <2>4. TypesOK
      BY <2>2, <2>3, EmptySeq, HeapLimitsAssumption DEF Init, TypesOK
    <2>5. KeptItems = 0
      BY EmptySum DEF Init, KeptItems
    <2>6. MapsAccounted
      BY <2>5, HeapLimitsAssumption DEF Init, MapsAccounted
    <2>7. HeapControl
      BY DEF Init, HeapControl
    <2>. QED  BY <2>4, <2>6, <2>7 DEF HeapInv, HeapTypeOK
  <1>2. HeapInv /\ [Next]_heapvars => HeapInv'
    <2> SUFFICES ASSUME HeapInv, [Next]_heapvars PROVE HeapInv'
      OBVIOUS
    <2>0. TypesOK /\ HeapTypeOK /\ MapsAccounted /\ HeapControl
      BY DEF HeapInv, HeapTypeOK
    <2>k. HeapKeeps
      BY <2>0, EveryStepKeeps
    <2>a. ASSUME ReadOnly, UNCHANGED <<tree, iteration>>, key' \in Keys,
                 fpc' \in {"idle", "descend"}, hid' \in Hid, flevel' \in 0..levels,
                 path' \in SUBSET Hid,
                 fpc' = "idle" => flevel' = 0,
                 fpc' = "descend" => tpc = "open" /\ root # NullHid
          PROVE  HeapInv'
      BY <2>0, <2>k, <2>a DEF HeapInv, HeapTypeOK, TypesOK, HeapControl, HeapKeeps, Parsed, ReadOnly,
                        tree, iteration
    <2>1. CASE Open
      <3>1. CASE tpc' = "refused" /\ UNCHANGED <<levels, root>>
        BY <2>0, <2>1, <2>k, <3>1 DEF Open, ReadOnly, iteration, lookup, HeapInv, HeapTypeOK,
           TypesOK, HeapControl, HeapKeeps, Parsed
      <3>2. CASE ~(tpc' = "refused" /\ UNCHANGED <<levels, root>>)
        <4>1. /\ GetRefusal(top) = NoError /\ ItemAt(top).header.kind # "refused"
              /\ tpc' = "open" /\ levels' = ItemAt(top).header.levels
              /\ root' = ItemAt(top).header.root
              /\ ~Exceeds(ItemAt(top).header.levels, MaxHeapTreeDepth)
                 \/ ItemAt(top).header.kind # "header"
          BY <2>1, <3>2 DEF Open
        <4>2. ItemAt(top).header \in Header
          BY <2>0, <4>1, ItemProperties DEF TypesOK
        <4>3. levels' \in 0..MaxHeapTreeDepth /\ root' \in Hid
          BY <4>1, <4>2, HeapLimitsAssumption DEF Header, Exceeds
        <4>4. ipc = "new" /\ fpc = "idle" /\ level = 0 /\ flevel = 0
          BY <2>0, <2>1 DEF Open, HeapControl
        <4>. QED  BY <2>0, <2>1, <2>k, <4>1, <4>3, <4>4
                  DEF Open, ReadOnly, iteration, lookup, HeapInv, HeapTypeOK, TypesOK, HeapControl,
                      HeapKeeps, Parsed
      <3>. QED  BY <3>1, <3>2
    <2>2. ASSUME NEW h \in Hid, Get(h) PROVE HeapInv'
      BY <2>0, <2>2, <2>a DEF Get, lookup, TypesOK, HeapControl
    <2>3. CASE StartIteration
      <3>1. row' \in Seq(Hid)
        <4>1. root \in Hid /\ row \in Seq(Hid)
          BY <2>0 DEF TypesOK
        <4>2. <<root>> \in Seq(Hid)
          BY <4>1
        <4>. QED  BY <2>3, <4>1, <4>2 DEF StartIteration
      <3>. QED  BY <2>0, <2>3, <2>k, <3>1
                DEF StartIteration, ReadOnly, tree, lookup, HeapInv, HeapTypeOK, TypesOK, HeapControl,
                    HeapKeeps, Parsed
    <2>4. CASE ReadIndexPage
      <3>1. Head(row) \in Hid /\ Tail(row) \in Seq(Hid)
        BY <2>0, <2>4, EndOfRow DEF ReadIndexPage
      <3>2. level \in Nat /\ level # levels /\ PageRefusal(Head(row), level, visited) = NoError
        BY <2>0, <2>4 DEF ReadIndexPage, TypesOK, HeapControl
      <3>3. ChildrenOf(ItemAt(Head(row)).index.rows) \in Seq(Hid)
        BY <2>0, <3>1, <3>2, PageRows
      <3>4. below' \in Seq(Hid)
        BY <2>0, <2>4, <3>3, ConcatProperties DEF ReadIndexPage, TypesOK
      <3>. QED  BY <2>0, <2>k, <2>4, <3>1, <3>4
                DEF ReadIndexPage, ReadOnly, tree, lookup, HeapInv, HeapTypeOK, TypesOK, HeapControl,
                    HeapKeeps, Parsed
    <2>5. CASE NextLevel
      <3>1. level' \in 0..levels /\ (ipc' = "index" => level' < levels)
            /\ (ipc' = "leaf" => level' = levels) /\ ipc' \in {"index", "leaf"}
        BY <2>0, <2>5 DEF NextLevel, TypesOK, HeapControl
      <3>2. row' \in Seq(Hid) /\ below' \in Seq(Hid)
        BY <2>0, <2>5 DEF NextLevel, TypesOK
      <3>. QED  BY <2>0, <2>5, <2>k, <3>1, <3>2
                DEF NextLevel, ReadOnly, tree, lookup, HeapInv, HeapTypeOK, TypesOK, HeapControl,
                    HeapKeeps, Parsed
    <2>6. CASE ReadLeafPage
      <3>1. Head(row) \in Hid /\ Tail(row) \in Seq(Hid)
        BY <2>0, <2>6, EndOfRow DEF ReadLeafPage
      <3>2. level \in Nat /\ level = levels /\ PageRefusal(Head(row), level, visited) = NoError
        BY <2>0, <2>6 DEF ReadLeafPage, TypesOK, HeapControl
      <3>3. ItemAt(Head(row)).leaf.rows \in Seq(LeafRecord)
        BY <2>0, <3>1, <3>2, PageRows
      <3>4. out' \in Seq(LeafRecord)
        BY <2>0, <2>6, <3>3, ConcatProperties DEF ReadLeafPage, TypesOK
      <3>. QED  BY <2>0, <2>k, <2>6, <3>1, <3>4
                DEF ReadLeafPage, ReadOnly, tree, lookup, HeapInv, HeapTypeOK, TypesOK, HeapControl,
                    HeapKeeps, Parsed
    <2>7. CASE RefuseIteration
      BY <2>0, <2>7, <2>k
                DEF RefuseIteration, ReadOnly, tree, lookup, HeapInv, HeapTypeOK, TypesOK,
                    HeapControl, HeapKeeps, Parsed
    <2>8. CASE Exhaust
      BY <2>0, <2>8, <2>k
                DEF Exhaust, ReadOnly, tree, lookup, HeapInv, HeapTypeOK, TypesOK, HeapControl,
                    HeapKeeps, Parsed
    <2>9. ASSUME NEW k \in Keys, Find(k) PROVE HeapInv'
      <3>1. CASE root = NullHid
        BY <2>0, <2>9, <2>a, <3>1 DEF Find, lookup, TypesOK, HeapControl
      <3>2. CASE root # NullHid
        BY <2>0, <2>9, <2>a, <3>2 DEF Find, Idle, ReadOnly, TypesOK
      <3>. QED  BY <3>1, <3>2
    <2>b. ASSUME NEW a, Answer(a), ReadOnly, UNCHANGED <<tree, iteration>>
          PROVE  HeapInv'
      <3>1. NullHid \in Hid /\ 0 \in 0..levels
        BY <2>0, HeapAssumption DEF Hid, NullHid, TypesOK
      <3>. QED  BY <2>0, <2>b, <2>a, <3>1 DEF Answer, TypesOK
    <2>10. CASE FindRefuses
      BY <2>10, <2>b DEF FindRefuses
    <2>11. CASE Descend
      <3> DEFINE rows == ItemAt(hid).index.rows
                 at == Chosen(rows, key)
      <3>1. hid \in Hid /\ flevel \in Nat /\ flevel # levels /\ tpc = "open"
            /\ root # NullHid
        BY <2>0, <2>11 DEF Descend, TypesOK, HeapControl
      <3>2. rows \in Seq(IndexRecord) /\ at \in 0..Len(rows)
        BY <2>0, <2>11, <3>1, PageRows, ChosenType DEF Descend, FindRefusal
      <3>3. CASE at = 0
        BY <2>11, <2>b, <3>1, <3>3 DEF Descend
      <3>4. CASE at # 0
        <4>1. at \in 1..Len(rows) /\ Len(rows) \in Nat
          BY <3>2, <3>4, LenProperties
        <4>2. rows[at] \in IndexRecord
          BY <3>2, <4>1, ElementOfSeq
        <4>3. /\ hid' = rows[at].child /\ flevel' = flevel + 1 /\ path' = path \cup {hid}
              /\ UNCHANGED <<fpc, key>> /\ fpc = "descend" /\ flevel < levels
              /\ ReadOnly /\ UNCHANGED <<tree, iteration>>
          BY <2>11, <3>4 DEF Descend
        <4> HIDE DEF rows, at
        <4>4. hid' \in Hid /\ flevel' \in 0..levels /\ path' \in SUBSET Hid
          BY <2>0, <3>1, <4>2, <4>3 DEF TypesOK, IndexRecord
        <4>. QED  BY <2>0, <2>a, <3>1, <4>3, <4>4 DEF TypesOK
      <3>. QED  BY <3>3, <3>4
    <2>12. CASE SearchLeaf
      BY <2>12, <2>b DEF SearchLeaf
    <2>13. CASE UNCHANGED heapvars
      BY <2>0, <2>13, <2>a DEF heapvars, lookup, ReadOnly, TypesOK, HeapControl
    <2>. QED  BY <2>1, <2>2, <2>3, <2>4, <2>5, <2>6, <2>7, <2>8, <2>9, <2>10, <2>11, <2>12, <2>13
              DEF Next
  <1>. QED  BY <1>1, <1>2, PTL DEF Spec

(* The types of the state and the account of the page maps, for every node.*)
THEOREM HeapTypeCorrect == Spec => []HeapTypeOK
  <1>1. HeapInv => HeapTypeOK
    BY DEF HeapInv
  <1>. QED  BY <1>1, HeapInvariant, PTL

-----------------------------------------------------------------------------
(* Where a page named at some level is: read on that level, or still to be *)
(* read on it.                                                             *)
Placed(L, h, d) ==
    \/ h \in visited /\ L[h] = d
    \/ ipc \in {"index", "leaf"} /\ d = level /\ h \in ToSet(row)
    \/ ipc = "index" /\ d = level + 1 /\ h \in ToSet(below)

(* The page parses as what its level makes it. *)
Readable(h, d) == HasBlock(h) /\ ~Dangling(h) /\ PageView(h, d).kind = "rows"

Children(h) == ToSet(ChildrenOf(IndexRows(h)))

(* What the iteration has seen, with the level it met each page on.        *)
Settled(L) ==
    /\ IsFiniteSet(visited) /\ Cardinality(visited) <= MaxItems
    /\ root # NullHid => Placed(L, root, 0)
    /\ \A p \in visited :
          /\ p.block \in maps /\ Readable(p, L[p])
          /\ L[p] = levels => ToSet(ItemAt(p).leaf.rows) \subseteq ToSet(out)
          /\ L[p] # levels => \A c \in Children(p) : Placed(L, c, L[p] + 1)

(* Once it has ended, find is among the pages it read. *)
OnLevel(L) ==
    (ipc = "done" /\ fpc = "descend") =>
        /\ hid \in visited /\ L[hid] = flevel
        /\ path \subseteq visited /\ \A p \in path : L[p] < flevel

VouchInv ==
    ipc \in {"index", "leaf", "done"} =>
        \E L \in [visited -> 0..levels] : Settled(L) /\ OnLevel(L)

(* The iteration reads the first page of the row. *)
LEMMA SettledRead ==
    ASSUME HeapInv, HeapKeeps, row # <<>>, ipc \in {"index", "leaf"},
           NEW L \in [visited -> 0..levels], Settled(L),
           PageRefusal(Head(row), level, visited) = NoError,
           UNCHANGED <<blocks, tree, ipc, level>>,
           visited' = visited \cup {Head(row)}, row' = Tail(row),
           Head(row).block \in maps',
           ToSet(below) \subseteq ToSet(below'), ToSet(out) \subseteq ToSet(out'),
           level = levels => ToSet(ItemAt(Head(row)).leaf.rows) \subseteq ToSet(out'),
           level # levels => ipc = "index" /\ Children(Head(row)) \subseteq ToSet(below')
    PROVE  \E M \in [visited' -> 0..levels] : Settled(M)'
  <1>a. PICK p : p = Head(row)
    OBVIOUS
  <1>b. PICK M : M = [q \in visited \cup {p} |-> IF q = p THEN level ELSE L[q]]
    OBVIOUS
  <1>1. /\ HeapTypeOK /\ TypesOK /\ p \in Hid /\ row \in Seq(Hid) /\ level \in 0..levels
        /\ MaxItems \in Nat
    BY <1>a, EndOfRow, HeapLimitsAssumption DEF HeapInv, HeapTypeOK, TypesOK
  <1>2. /\ ~AddRefused(visited, p, MaxItems) /\ GetRefusal(p) = NoError
        /\ PageView(p, level).kind = "rows"
    BY <1>1, <1>a, PageRows
  <1>3. HasBlock(p) /\ ~Dangling(p)
    BY <1>1, <1>2, ItemProperties
  <1>4. p \notin visited /\ IsFiniteSet(visited) /\ ~(Cardinality(visited) >= MaxItems)
    BY <1>2 DEF AddRefused, Settled
  <1>5. IsFiniteSet(visited') /\ Cardinality(visited') <= MaxItems
    <2>1. /\ IsFiniteSet(visited \cup {p}) /\ Cardinality(visited \cup {p}) = Cardinality(visited) + 1
          /\ Cardinality(visited) \in Nat
      BY <1>4, FS_AddElement, FS_CardinalityType
    <2>. QED  BY <1>1, <1>4, <1>a, <2>1
  <1>6. M \in [visited' -> 0..levels] /\ M[p] = level /\ \A q \in visited : M[q] = L[q]
    BY <1>1, <1>4, <1>a, <1>b
  <1>7. ToSet(row) = {p} \cup ToSet(row')
    BY <1>1, <1>a, PopMembers
  <1>8. ASSUME NEW h, NEW d, Placed(L, h, d) PROVE Placed(M, h, d)'
    BY <1>6, <1>7, <1>8, <1>a DEF Placed
  <1>9. root # NullHid => Placed(M, root, 0)'
    BY <1>8 DEF Settled, tree
  <1>10. ASSUME NEW q \in visited
         PROVE  /\ q.block \in maps' /\ Readable(q, M[q])'
                /\ M[q] = levels => ToSet(ItemAt(q).leaf.rows)' \subseteq ToSet(out')
                /\ M[q] # levels => \A c \in Children(q)' : Placed(M, c, M[q] + 1)'
    <2>1. /\ q.block \in maps /\ Readable(q, L[q]) /\ M[q] = L[q]
          /\ L[q] = levels => ToSet(ItemAt(q).leaf.rows) \subseteq ToSet(out)
          /\ L[q] # levels => \A c \in Children(q) : Placed(L, c, L[q] + 1)
      BY <1>6 DEF Settled
    <2>2. q.block \in maps' /\ Readable(q, M[q])'
      BY <2>1 DEF HeapKeeps, Readable, HasBlock, Dangling, ItemAt, BlockOf, PageView, tree
    <2>3. Children(q)' = Children(q) /\ ItemAt(q)' = ItemAt(q)
      BY DEF Children, IndexRows, ItemAt, BlockOf
    <2>. QED  BY <1>8, <2>1, <2>2, <2>3
  <1>11. /\ p.block \in maps' /\ Readable(p, M[p])'
         /\ M[p] = levels => ToSet(ItemAt(p).leaf.rows)' \subseteq ToSet(out')
         /\ M[p] # levels => \A c \in Children(p)' : Placed(M, c, M[p] + 1)'
    <2>1. Readable(p, M[p])'
      BY <1>2, <1>3, <1>6 DEF Readable, HasBlock, Dangling, ItemAt, BlockOf, PageView, tree
    <2>2. Children(p)' = Children(p) /\ ItemAt(p)' = ItemAt(p)
      BY DEF Children, IndexRows, ItemAt, BlockOf
    <2>3. ASSUME level # levels, NEW c \in Children(p) PROVE Placed(M, c, level + 1)'
      BY <1>a, <2>3 DEF Placed
    <2>. QED  BY <1>6, <1>a, <2>1, <2>2, <2>3
  <1>12. Settled(M)'
    <2>1. visited' = visited \cup {p} /\ levels' = levels
      BY <1>a DEF tree
    <2>3. ASSUME NEW q \in visited'
          PROVE  /\ q.block \in maps' /\ Readable(q, M[q])'
                 /\ M[q] = levels' => ToSet(ItemAt(q).leaf.rows)' \subseteq ToSet(out')
                 /\ M[q] # levels' => \A c \in Children(q)' : Placed(M, c, M[q] + 1)'
      <3>1. CASE q = p
        BY <1>11, <2>1, <3>1
      <3>2. CASE q \in visited
        BY <1>10, <2>1, <3>2
      <3>. QED  BY <2>1, <3>1, <3>2
    <2>4. (root # NullHid)' => Placed(M, root, 0)'
      BY <1>9 DEF tree, NullHid
    <2>. QED  BY <1>5, <2>3, <2>4 DEF Settled
  <1>. QED  BY <1>6, <1>12

(* Nothing the iteration knows is lost while others use the heap. *)
LEMMA SettledStays ==
    ASSUME HeapKeeps, NEW L, Settled(L), UNCHANGED <<blocks, tree, iteration>>
    PROVE  Settled(L)' /\ visited' = visited /\ levels' = levels
  <1>1. \A h, d : Placed(L, h, d)' <=> Placed(L, h, d)
    BY DEF Placed, iteration
  <1>2. \A h : ItemAt(h)' = ItemAt(h) /\ Children(h)' = Children(h)
    BY DEF Children, IndexRows, ItemAt, BlockOf
  <1>3. \A h, d : Readable(h, d)' <=> Readable(h, d)
    BY DEF Readable, HasBlock, Dangling, ItemAt, BlockOf, PageView, tree
  <1>. QED  BY <1>1, <1>2, <1>3 DEF Settled, HeapKeeps, tree, iteration

(* A page that a finished iteration read is not refused to find.           *)
LEMMA FindAdmitted ==
    ASSUME HeapInv, ipc = "done", fpc = "descend",
           NEW L \in [visited -> 0..levels], Settled(L), OnLevel(L)
    PROVE  FindRefusal = NoError /\ hid \in visited /\ L[hid] = flevel
  <1>1. /\ hid \in visited /\ L[hid] = flevel /\ path \subseteq visited
        /\ \A p \in path : L[p] < flevel
    BY DEF OnLevel
  <1>2. flevel \in Nat /\ hid \notin path /\ MaxItems \in Nat
    <2>1. flevel \in 0..levels
      BY DEF HeapInv, HeapTypeOK, TypesOK
    <2>. QED  BY <1>1, <2>1, HeapLimitsAssumption
  <1>3. ~AddRefused(path, hid, MaxItems)
    <2>1. IsFiniteSet(visited) /\ Cardinality(visited) <= MaxItems
      BY DEF Settled
    <2>2. path \cup {hid} \subseteq visited /\ IsFiniteSet(path)
      BY <1>1, <2>1, FS_Subset
    <2>3. Cardinality(path \cup {hid}) = Cardinality(path) + 1
      BY <1>2, <2>2, FS_AddElement
    <2>4. Cardinality(path \cup {hid}) <= Cardinality(visited)
      BY <2>1, <2>2, FS_Subset
    <2>5. Cardinality(path) \in Nat /\ Cardinality(visited) \in Nat
      BY <2>1, <2>2, FS_CardinalityType
    <2>. QED  BY <1>2, <2>1, <2>3, <2>4, <2>5 DEF AddRefused
  <1>4. hid.block \in maps /\ Readable(hid, flevel)
    BY <1>1 DEF Settled
  <1>5. GetRefusal(hid) = NoError
    BY <1>4 DEF GetRefusal, MapRefusal, Readable
  <1>. QED  BY <1>1, <1>3, <1>4, <1>5 DEF FindRefusal, PageRefusal, Readable

(* The page find goes down to is named by the page it has read.            *)
LEMMA DescendsToChild ==
    ASSUME HeapInv, Descend, fpc' = "descend"
    PROVE  /\ hid' \in Children(hid) /\ flevel' = flevel + 1 /\ path' = path \cup {hid}
           /\ flevel \in Nat /\ flevel < levels
  <1> DEFINE rows == ItemAt(hid).index.rows
             at == Chosen(rows, key)
  <1>1. hid \in Hid /\ flevel \in Nat /\ flevel < levels /\ flevel # levels
    BY DEF Descend, HeapInv, HeapTypeOK, TypesOK
  <1>2. rows \in Seq(IndexRecord) /\ at \in 0..Len(rows)
    BY <1>1, PageRows, ChosenType DEF Descend, FindRefusal, HeapInv, HeapTypeOK
  <1>3. /\ at # 0 /\ hid' = rows[at].child /\ flevel' = flevel + 1 /\ path' = path \cup {hid}
    BY DEF Descend, Answer
  <1>4. at \in DOMAIN rows
    <2> HIDE DEF rows, at
    <2>. QED  BY <1>2, <1>3, LenProperties
  <1>5. Children(hid) = ToSet(ChildrenOf(rows))
    BY DEF Children, IndexRows
  <1> HIDE DEF rows, at
  <1>6. hid' \in ToSet(ChildrenOf(rows))
    BY <1>3, <1>4 DEF ToSet, ChildrenOf
  <1>. QED  BY <1>1, <1>3, <1>5, <1>6

LEMMA VouchPreserved ==
    ASSUME HeapInv, VouchInv, [Next]_heapvars
    PROVE  VouchInv'
  <1>0. HeapKeeps /\ UNCHANGED <<blocks, top>> /\ HeapTypeOK /\ TypesOK /\ HeapControl
    BY EveryStepKeeps DEF HeapInv, HeapTypeOK
  <1>1. CASE Open
    BY <1>0, <1>1 DEF Open, HeapControl, VouchInv, iteration
  <1>2. ASSUME UNCHANGED <<tree, iteration>>,
               \A L \in [visited -> 0..levels] : Settled(L) /\ OnLevel(L) => OnLevel(L)'
        PROVE  VouchInv'
    <2> SUFFICES ASSUME ipc' \in {"index", "leaf", "done"}
                 PROVE  \E L \in [visited' -> 0..levels'] : Settled(L)' /\ OnLevel(L)'
      BY DEF VouchInv
    <2>1. ipc' = ipc
      BY <1>2 DEF iteration
    <2>2. PICK L \in [visited -> 0..levels] : Settled(L) /\ OnLevel(L)
      BY <2>1 DEF VouchInv
    <2>3. Settled(L)' /\ visited' = visited /\ levels' = levels
      BY <1>0, <1>2, <2>2, SettledStays
    <2>. QED  BY <1>2, <2>2, <2>3
  <1>3. CASE (\E h \in Hid : Get(h)) \/ UNCHANGED heapvars
    <2>1. UNCHANGED <<tree, iteration, lookup>>
      BY <1>3 DEF Get, heapvars
    <2>. QED  BY <1>2, <2>1 DEF OnLevel, iteration, lookup
  <1>4. CASE StartIteration
    <2>1. /\ ipc = "new" /\ level = 0 /\ visited = {} /\ UNCHANGED <<tree, level, visited>>
          /\ fpc' = "idle" /\ MaxItems \in Nat
          /\ IF root = NullHid THEN ipc' = "done"
             ELSE ipc' \in {"index", "leaf"} /\ row' = <<root>>
      BY <1>0, <1>4, HeapLimitsAssumption DEF StartIteration, HeapControl, lookup
    <2>2. PICK L : L = [q \in visited |-> 0]
      OBVIOUS
    <2>3. L \in [visited' -> 0..levels'] /\ IsFiniteSet(visited') /\ Cardinality(visited') <= MaxItems
      BY <2>1, <2>2, FS_EmptySet
    <2>4. root # NullHid => root \in ToSet(row')
      BY <2>1 DEF ToSet
    <2>5. (root # NullHid)' => Placed(L, root, 0)'
      BY <2>1, <2>4 DEF Placed, tree, NullHid
    <2>6. Settled(L)' /\ OnLevel(L)'
      BY <2>1, <2>3, <2>5 DEF Settled, OnLevel
    <2>. QED  BY <2>3, <2>6 DEF VouchInv
  <1>5. CASE ReadIndexPage
    <2> DEFINE new == ChildrenOf(ItemAt(Head(row)).index.rows)
    <2>1. /\ fpc' = "idle" /\ ipc' = ipc /\ ipc = "index" /\ row # <<>>
          /\ PageRefusal(Head(row), level, visited) = NoError /\ Touch(Head(row))
          /\ visited' = visited \cup {Head(row)} /\ below' = below \o new
          /\ row' = Tail(row) /\ UNCHANGED <<tree, level, out>>
          /\ level \in Nat /\ level # levels
      BY <1>0, <1>5 DEF ReadIndexPage, lookup, HeapControl, TypesOK
    <2>2. PICK L \in [visited -> 0..levels] : Settled(L)
      BY <2>1 DEF VouchInv
    <2>3. Head(row) \in Hid /\ new \in Seq(Hid) /\ GetRefusal(Head(row)) = NoError
      BY <1>0, <2>1, EndOfRow, PageRows
    <2>4. Head(row).block \in maps'
      BY <1>0, <2>1, <2>3, TouchKeeps
    <2>5. Children(Head(row)) = ToSet(new)
      BY DEF Children, IndexRows
    <2> HIDE DEF new
    <2>6. ToSet(below') = ToSet(below) \cup ToSet(new)
      BY <1>0, <2>1, <2>3, PushMembers DEF TypesOK
    <2>7. \E M \in [visited' -> 0..levels] : Settled(M)'
      BY <1>0, <2>1, <2>2, <2>4, <2>5, <2>6, SettledRead
    <2>. QED  BY <2>1, <2>7 DEF VouchInv, OnLevel, tree
  <1>6. CASE NextLevel
    <2>1. /\ ipc = "index" /\ fpc = "idle" /\ fpc' = "idle" /\ row = <<>>
          /\ level' = level + 1 /\ row' = below /\ below' = <<>>
          /\ ipc' \in {"leaf", "index"} /\ UNCHANGED <<tree, heap, visited, out>>
      BY <1>6 DEF NextLevel, lookup
    <2>2. PICK L \in [visited -> 0..levels] : Settled(L)
      BY <2>1 DEF VouchInv
    <2>3. ToSet(row) = {}
      BY <2>1 DEF ToSet
    <2>4. ASSUME NEW h, NEW d, Placed(L, h, d) PROVE Placed(L, h, d)'
      BY <2>1, <2>3, <2>4 DEF Placed
    <2>5. \A h : ItemAt(h)' = ItemAt(h) /\ Children(h)' = Children(h)
      BY <1>0 DEF Children, IndexRows, ItemAt, BlockOf
    <2>6. \A h, d : Readable(h, d) => Readable(h, d)'
      BY <1>0, <2>1 DEF Readable, HasBlock, Dangling, ItemAt, BlockOf, PageView, tree
    <2>7. Settled(L)'
      BY <2>1, <2>2, <2>4, <2>5, <2>6 DEF Settled, tree, heap, NullHid
    <2>. QED  BY <2>1, <2>2, <2>7 DEF VouchInv, OnLevel, tree
  <1>7. CASE ReadLeafPage
    <2> DEFINE new == ItemAt(Head(row)).leaf.rows
    <2>1. /\ fpc' = "idle" /\ ipc' = ipc /\ ipc = "leaf" /\ row # <<>>
          /\ PageRefusal(Head(row), level, visited) = NoError /\ Touch(Head(row))
          /\ visited' = visited \cup {Head(row)} /\ out' = out \o new
          /\ row' = Tail(row) /\ UNCHANGED <<tree, level, below>>
          /\ level \in Nat /\ level = levels
      BY <1>0, <1>7 DEF ReadLeafPage, lookup, HeapControl, TypesOK
    <2>2. PICK L \in [visited -> 0..levels] : Settled(L)
      BY <2>1 DEF VouchInv
    <2>3. Head(row) \in Hid /\ new \in Seq(LeafRecord) /\ GetRefusal(Head(row)) = NoError
      BY <1>0, <2>1, EndOfRow, PageRows
    <2>4. Head(row).block \in maps'
      BY <1>0, <2>1, <2>3, TouchKeeps
    <2> HIDE DEF new
    <2>6. ToSet(out') = ToSet(out) \cup ToSet(new)
      BY <1>0, <2>1, <2>3, PushMembers DEF TypesOK
    <2>7. \E M \in [visited' -> 0..levels] : Settled(M)'
      BY <1>0, <2>1, <2>2, <2>4, <2>6, SettledRead DEF new
    <2>. QED  BY <2>1, <2>7 DEF VouchInv, OnLevel, tree
  <1>8. CASE RefuseIteration
    BY <1>8 DEF RefuseIteration, VouchInv
  <1>9. CASE Exhaust
    <2>1. /\ ipc = "leaf" /\ ipc' = "done" /\ fpc' = "idle" /\ row = <<>>
          /\ UNCHANGED <<tree, heap, level, row, below, visited, out>>
      BY <1>9 DEF Exhaust, lookup
    <2>2. PICK L \in [visited -> 0..levels] : Settled(L)
      BY <2>1 DEF VouchInv
    <2>3. ToSet(row) = {}
      BY <2>1 DEF ToSet
    <2>4. ASSUME NEW h, NEW d, Placed(L, h, d) PROVE Placed(L, h, d)'
      BY <2>1, <2>3, <2>4 DEF Placed
    <2>5. \A h : ItemAt(h)' = ItemAt(h) /\ Children(h)' = Children(h)
      BY <1>0 DEF Children, IndexRows, ItemAt, BlockOf
    <2>6. \A h, d : Readable(h, d) => Readable(h, d)'
      BY <1>0, <2>1 DEF Readable, HasBlock, Dangling, ItemAt, BlockOf, PageView, tree
    <2>7. Settled(L)'
      BY <2>1, <2>2, <2>4, <2>5, <2>6 DEF Settled, tree, heap, NullHid
    <2>. QED  BY <2>1, <2>2, <2>7 DEF VouchInv, OnLevel, tree
  <1>10. ASSUME NEW k \in Keys, Find(k) PROVE VouchInv'
    <2>1. /\ UNCHANGED <<tree, iteration>>
          /\ \/ fpc' = "idle"
             \/ root # NullHid /\ hid' = root /\ flevel' = 0 /\ path' = {}
      BY <1>10 DEF Find, Idle, lookup
    <2>2. ASSUME NEW L \in [visited -> 0..levels], Settled(L), OnLevel(L) PROVE OnLevel(L)'
      <3>1. ipc = "done" /\ root # NullHid => root \in visited /\ L[root] = 0
        BY <2>2 DEF Settled, Placed
      <3>. QED  BY <2>1, <3>1 DEF OnLevel, iteration
    <2>. QED  BY <1>2, <2>1, <2>2
  <1>11. CASE FindRefuses \/ SearchLeaf \/ (Descend /\ fpc' # "descend")
    <2>1. UNCHANGED <<tree, iteration>> /\ fpc' # "descend"
      BY <1>11 DEF FindRefuses, SearchLeaf, Descend, Answer
    <2>. QED  BY <1>2, <2>1 DEF OnLevel
  <1>12. CASE Descend /\ fpc' = "descend"
    <2>1. UNCHANGED <<tree, iteration>> /\ fpc = "descend"
      BY <1>12 DEF Descend
    <2>2. /\ hid' \in Children(hid) /\ flevel' = flevel + 1 /\ path' = path \cup {hid}
          /\ flevel \in Nat /\ flevel < levels
      BY <1>12, DescendsToChild
    <2>3. ASSUME NEW L \in [visited -> 0..levels], Settled(L), OnLevel(L), ipc = "done"
          PROVE  /\ hid' \in visited /\ L[hid'] = flevel + 1
                 /\ \A p \in path \cup {hid} : p \in visited /\ L[p] < flevel + 1
      <3>1. /\ hid \in visited /\ L[hid] = flevel
            /\ \A p \in path : p \in visited /\ L[p] < flevel
        BY <2>1, <2>3 DEF OnLevel
      <3>2. L[hid] # levels /\ levels \in Nat
        BY <1>0, <2>2, <3>1 DEF TypesOK
      <3>3. Placed(L, hid', flevel + 1)
        BY <2>2, <2>3, <3>1, <3>2 DEF Settled
      <3>4. hid' \in visited /\ L[hid'] = flevel + 1
        BY <2>3, <3>3 DEF Placed
      <3>5. \A p \in path : L[p] \in Nat
        BY <3>1, <3>2
      <3>. QED  BY <2>2, <3>1, <3>4, <3>5
    <2>4. ASSUME NEW L \in [visited -> 0..levels], Settled(L), OnLevel(L) PROVE OnLevel(L)'
      <3>1. CASE ipc = "done"
        <4>1. /\ hid' \in visited /\ L[hid'] = flevel + 1
              /\ \A p \in path \cup {hid} : p \in visited /\ L[p] < flevel + 1
          BY <2>3, <2>4, <3>1
        <4>2. visited' = visited
          BY <2>1 DEF iteration
        <4>. QED  BY <2>2, <4>1, <4>2 DEF OnLevel
      <3>. QED  BY <2>1, <3>1 DEF OnLevel, iteration
    <2>. QED  BY <1>2, <2>1, <2>4
  <1>. QED  BY <1>1, <1>3, <1>4, <1>5, <1>6, <1>7, <1>8, <1>9, <1>10, <1>11, <1>12 DEF Next

(* A value find gives is one of the page it read. *)
LEMMA FirstRecordFound ==
    ASSUME NEW rows \in Seq(LeafRecord), NEW k
    PROVE  \/ FirstRecord(rows, k) = Absent
           \/ /\ FirstRecord(rows, k).kind = "value"
              /\ [key |-> k, value |-> FirstRecord(rows, k).value] \in ToSet(rows)
  <1> DEFINE same == {i \in DOMAIN rows : rows[i].key = k}
  <1>1. DOMAIN rows = 1..Len(rows) /\ Len(rows) \in Nat
    BY LenProperties
  <1>2. CASE same = {}
    BY <1>2 DEF FirstRecord
  <1>3. CASE same # {}
    <2>1. same \in SUBSET Nat
      BY <1>1
    <2>2. Min(same) \in same
      <3> HIDE DEF same
      <3>. QED  BY <1>3, <2>1, MinProperties
    <2>3. Min(same) \in 1..Len(rows) /\ rows[Min(same)].key = k
      BY <1>1, <2>2
    <2>4. FirstRecord(rows, k) = [kind |-> "value", value |-> rows[Min(same)].value]
      BY <1>3 DEF FirstRecord
    <2> HIDE DEF same
    <2>5. rows[Min(same)] \in LeafRecord
      BY <2>3, ElementOfSeq
    <2>6. rows[Min(same)] = [key |-> k, value |-> rows[Min(same)].value]
      BY <2>3, <2>5 DEF LeafRecord
    <2>7. rows[Min(same)] \in ToSet(rows)
      BY <1>1, <2>3 DEF ToSet
    <2>. QED  BY <2>4, <2>6, <2>7
  <1>. QED  BY <1>2, <1>3

(* Once an iteration has ended, find is never refused again, whatever      *)
(* other users make the heap count, and a value it gives was handed out:   *)
(* for every node, every limit and every interleaving.                     *)
THEOREM FinishedIterationVouches == Spec => IterationVouches
  <1>1. Init => VouchInv
    BY DEF Init, VouchInv
  <1>2. ASSUME HeapInv, VouchInv, [Next]_heapvars
        PROVE  [(ipc = "done" /\ fpc = "descend" /\ fpc' = "idle") =>
                  \/ answer' = Absent
                  \/ /\ answer'.kind = "value"
                     /\ Contains(out, [key |-> key, value |-> answer'.value])]_heapvars
    <2> SUFFICES ASSUME ipc = "done", fpc = "descend", fpc' = "idle"
                 PROVE  \/ answer' = Absent
                        \/ /\ answer'.kind = "value"
                           /\ Contains(out, [key |-> key, value |-> answer'.value])
      OBVIOUS
    <2>1. PICK L \in [visited -> 0..levels] : Settled(L) /\ OnLevel(L)
      BY <1>2 DEF VouchInv
    <2>2. FindRefusal = NoError /\ hid \in visited /\ L[hid] = flevel
      BY <1>2, <2>1, FindAdmitted
    <2>3. Descend \/ SearchLeaf
      <3>1. ~FindRefuses
        BY <2>2 DEF FindRefuses
      <3>2. tpc = "open"
        BY <1>2 DEF HeapInv, HeapControl
      <3>3. ~Open /\ (~\E h \in Hid : Get(h)) /\ ~StartIteration /\ ~ReadIndexPage /\ ~NextLevel
            /\ ~ReadLeafPage /\ ~RefuseIteration /\ ~Exhaust /\ ~\E k \in Keys : Find(k)
        BY <3>2 DEF Open, Get, Idle, StartIteration, ReadIndexPage, NextLevel, ReadLeafPage,
                    RefuseIteration, Exhaust, Find
      <3>4. ~UNCHANGED heapvars
        BY DEF heapvars, lookup
      <3>. QED  BY <1>2, <3>1, <3>3, <3>4 DEF Next
    <2>4. CASE Descend
      BY <2>4 DEF Descend, Answer
    <2>5. CASE SearchLeaf
      <3> DEFINE rows == ItemAt(hid).leaf.rows
      <3>1. /\ hid \in Hid /\ flevel \in Nat /\ flevel = levels /\ out \in Seq(LeafRecord)
            /\ HeapTypeOK /\ TypesOK /\ answer' = FirstRecord(rows, key)
        BY <1>2, <2>5 DEF SearchLeaf, Answer, HeapInv, HeapTypeOK, TypesOK
      <3>2. rows \in Seq(LeafRecord)
        BY <2>2, <3>1, PageRows DEF FindRefusal
      <3>3. ToSet(rows) \subseteq ToSet(out)
        BY <2>1, <2>2, <3>1 DEF Settled
      <3> HIDE DEF rows
      <3>4. \/ answer' = Absent
            \/ answer'.kind = "value" /\ [key |-> key, value |-> answer'.value] \in ToSet(out)
        BY <3>1, <3>2, <3>3, FirstRecordFound
      <3>5. \A x \in ToSet(out) : Contains(out, x)
        BY <3>1, LenProperties DEF ToSet, Contains
      <3>. QED  BY <3>4, <3>5
    <2>. QED  BY <2>3, <2>4, <2>5
  <1>. QED  BY <1>1, <1>2, VouchPreserved, HeapInvariant, PTL DEF Spec, IterationVouches

-----------------------------------------------------------------------------
(* Where a lookup goes down to from the last page of a path.               *)
Moved(p, l, k) ==
    IF Len(p) < l \/ ~PageOnDisk(Last(p), l - 1) \/ Chosen(IndexRows(Last(p)), k) = 0 THEN p
    ELSE Append(p, IndexRows(Last(p))[Chosen(IndexRows(Last(p)), k)].child)

IsDown(f, k) == f = [l \in 0..levels |-> IF l = 0 THEN <<root>> ELSE Moved(f[l - 1], l, k)]

TroubleAt(p, i) ==
    IF i > MaxItems \/ \E j \in 1..(i - 1) : p[j] = p[i] THEN "PstLimitError"
    ELSE IF ~PageOnDisk(p[i], i - 1) THEN "PstFormatError" ELSE NoError
Troubled(p) == {i \in DOMAIN p : TroubleAt(p, i) # NoError}

LEMMA DescentIs ==
    ASSUME NEW k
    PROVE  LET p == DescentPath(k)
           IN  Descent(k) = IF root = NullHid THEN Absent
                            ELSE IF Troubled(p) # {} THEN Refused(TroubleAt(p, Min(Troubled(p))))
                            ELSE IF Len(p) <= levels THEN Absent
                            ELSE FirstRecord(ItemAt(Last(p)).leaf.rows, k)
  BY DEF Descent, Troubled, TroubleAt

(* What a page on disk holds at its level. *)
LEMMA OnDiskRows ==
    ASSUME TypesOK, NEW h \in Hid, NEW l, PageOnDisk(h, l)
    PROVE  /\ l # levels => /\ IndexRows(h) \in Seq(IndexRecord)
                            /\ \A k : Chosen(IndexRows(h), k) \in 0..Len(IndexRows(h))
                            /\ \A i \in 1..Len(IndexRows(h)) : IndexRows(h)[i].child \in Hid
           /\ l = levels => ItemAt(h).leaf.rows \in Seq(LeafRecord)
  <1>1. HasBlock(h) /\ BlockOf(h).kind = "map" /\ ~Dangling(h) /\ PageView(h, l).kind = "rows"
    BY DEF PageOnDisk, ItemOnDisk
  <1>2. BlockOf(h).items \in Seq(Item) /\ h.index \in DOMAIN BlockOf(h).items
    BY <1>1, BlockType DEF Dangling
  <1>3. ItemAt(h) \in Item /\ ItemAt(h).kind # "freed"
    BY <1>1, <1>2, LenProperties, ElementOfSeq DEF ItemAt, Dangling
  <1>4. ItemAt(h).index \in View(IndexRecord) /\ ItemAt(h).leaf \in View(LeafRecord)
    BY <1>3 DEF Item
  <1>5. l = levels => ItemAt(h).leaf.rows \in Seq(LeafRecord)
    BY <1>1, <1>4 DEF PageView, View
  <1>6. ASSUME l # levels
        PROVE  /\ IndexRows(h) \in Seq(IndexRecord)
               /\ \A k : Chosen(IndexRows(h), k) \in 0..Len(IndexRows(h))
               /\ \A i \in 1..Len(IndexRows(h)) : IndexRows(h)[i].child \in Hid
    <2>1. IndexRows(h) \in Seq(IndexRecord)
      BY <1>1, <1>4, <1>6 DEF PageView, View, IndexRows
    <2>2. PICK rows \in Seq(IndexRecord) : rows = IndexRows(h)
      BY <2>1
    <2>3. ASSUME NEW i \in 1..Len(rows) PROVE rows[i].child \in Hid
      <3>1. rows[i] \in IndexRecord
        BY ElementOfSeq
      <3>. QED  BY <3>1 DEF IndexRecord
    <2>. QED  BY <2>2, <2>3, ChosenType
  <1>. QED  BY <1>5, <1>6

LEMMA PathExists ==
    ASSUME TypesOK, NEW k
    PROVE  \E f : IsDown(f, k) /\ DescentPath(k) = f[levels]
  <1> DEFINE F == CHOOSE f : IsDown(f, k)
             To(l, p) == IF l \in 1..levels /\ p # <<>> THEN Moved(p, l, k) ELSE p
  <1>1. levels \in Nat /\ root \in Hid /\ <<root>> \in Seq(Hid)
    <2>1. levels \in Nat /\ root \in Hid
      BY HeapLimitsAssumption DEF TypesOK
    <2>. QED  BY <2>1
  <1>2. ASSUME NEW l \in Nat, NEW p \in Seq(Hid) PROVE To(l, p) \in Seq(Hid)
    <2>1. CASE ~(l \in 1..levels /\ p # <<>>) \/ Moved(p, l, k) = p
      BY <2>1
    <2>2. CASE l \in 1..levels /\ p # <<>> /\ Moved(p, l, k) # p
      <3>1. PICK h \in Hid : h = Last(p)
        <4>1. Len(p) \in 1..Len(p)
          BY <2>2, LenProperties, EmptySeq
        <4>. QED  BY <4>1, ElementOfSeq DEF Last
      <3>2. /\ PageOnDisk(h, l - 1) /\ Chosen(IndexRows(h), k) # 0
            /\ Moved(p, l, k) = Append(p, IndexRows(h)[Chosen(IndexRows(h), k)].child)
        BY <2>2, <3>1 DEF Moved
      <3>3. l - 1 # levels
        BY <1>1, <2>2
      <3>4. PICK c \in Nat, n \in Nat : c = Chosen(IndexRows(h), k) /\ n = Len(IndexRows(h)) /\ c <= n
        BY <3>2, <3>3, OnDiskRows, LenProperties
      <3>5. c \in 1..n
        BY <3>2, <3>4
      <3>6. IndexRows(h)[c].child \in Hid
        BY <3>2, <3>3, <3>4, <3>5, OnDiskRows
      <3>. QED  BY <2>2, <3>2, <3>4, <3>6, AppendProperties
    <2>. QED  BY <2>1, <2>2
  <1> HIDE DEF To
  <1>3. PICK step \in [Nat -> [Seq(Hid) -> Seq(Hid)]] :
           step = [l \in Nat |-> [p \in Seq(Hid) |-> To(l, p)]]
    BY <1>2
  <1>4. PICK f \in [0..levels -> Seq(Hid)] : IsRecursion(f, <<root>>, step, levels)
    BY <1>1, RecursionExists
  <1>5. \A l \in 0..levels : f[l] = IF l = 0 THEN <<root>> ELSE step[l][f[l - 1]]
    BY <1>4 DEF IsRecursion
  <1>6. \A l \in 0..levels : f[l] # <<>> /\ (l # 0 => f[l] = Moved(f[l - 1], l, k))
    <2> DEFINE Good == {l \in Nat : l <= levels =>
                          f[l] # <<>> /\ (l # 0 => f[l] = Moved(f[l - 1], l, k))}
    <2>1. 0 \in Good
      <3>1. f[0] = <<root>>
        <4>1. 0 \in 0..levels
          BY <1>1
        <4>. QED  BY <1>5, <4>1
      <3>2. <<root>> # <<>>
        <4>1. PICK e \in Seq(Hid) : e = <<>>
          BY EmptySeq
        <4>. QED  BY <1>1, <4>1, ConsIs, ConcatEmptySeq
      <3>. QED  BY <3>1, <3>2
    <2>2. ASSUME NEW l \in Nat, l \in Good PROVE l + 1 \in Good
      <3> SUFFICES ASSUME l + 1 <= levels
                   PROVE f[l + 1] # <<>> /\ f[l + 1] = Moved(f[l], l + 1, k)
        OBVIOUS
      <3>1. /\ l + 1 \in 0..levels /\ l + 1 # 0 /\ (l + 1) - 1 = l /\ l \in 0..levels
            /\ l + 1 \in 1..levels /\ l + 1 \in Nat
        BY <1>1
      <3>2. f[l] \in Seq(Hid) /\ f[l] # <<>>
        BY <1>1, <2>2, <3>1
      <3>3. f[l + 1] = To(l + 1, f[l])
        <4>1. f[l + 1] = step[l + 1][f[l]]
          BY <1>5, <3>1
        <4>. QED  BY <1>3, <3>1, <3>2, <4>1
      <3>4. f[l + 1] = Moved(f[l], l + 1, k)
        BY <3>1, <3>2, <3>3 DEF To
      <3>5. Moved(f[l], l + 1, k) # <<>>
        <4>1. PICK p \in Seq(Hid) : p = f[l] /\ p # <<>>
          BY <3>2
        <4>2. CASE Moved(p, l + 1, k) = p
          BY <4>1, <4>2
        <4>3. CASE Moved(p, l + 1, k) # p
          <5>1. PICK x : Moved(p, l + 1, k) = Append(p, x)
            BY <4>3 DEF Moved
          <5>2. Append(p, x) \in Seq(Hid)
            BY <3>1, <3>3, <3>4, <4>1, <5>1
          <5>. QED  BY <4>1, <5>1
        <4>. QED  BY <4>1, <4>2, <4>3
      <3>. QED  BY <3>4, <3>5
    <2> HIDE DEF Good
    <2>3. \A l \in Nat : l \in Good
      BY <2>1, <2>2, NatInduct
    <2>. QED  BY <1>1, <2>3 DEF Good
  <1>7. IsDown(f, k)
    <2>1. f = [l \in 0..levels |-> f[l]]
      OBVIOUS
    <2>2. \A l \in 0..levels : f[l] = IF l = 0 THEN <<root>> ELSE Moved(f[l - 1], l, k)
      BY <1>5, <1>6
    <2>. QED  BY <2>1, <2>2 DEF IsDown
  <1>8. IsDown(F, k)
    BY <1>7
  <1>9. DescentPath(k) = F[levels]
    BY DEF DescentPath, IsDown, Moved
  <1>. QED  BY <1>8, <1>9

-----------------------------------------------------------------------------
(* The pages a lookup of `k' has come to, each read but the last one.      *)
Leads(d, k) ==
    /\ Len(d) \in 1..(levels + 1) /\ d[1] = root
    /\ \A i \in 1..(Len(d) - 1) :
          /\ PageOnDisk(d[i], i - 1) /\ Chosen(IndexRows(d[i]), k) # 0 /\ i <= MaxItems
          /\ d[i + 1] = IndexRows(d[i])[Chosen(IndexRows(d[i]), k)].child
    /\ \A i, j \in 1..(Len(d) - 1) : d[i] = d[j] => i = j

(* Why its last page is not read, or where the lookup ends there.          *)
Barred(d) == Len(d) > MaxItems \/ \E j \in 1..(Len(d) - 1) : d[j] = d[Len(d)]
Unread(d) == ~PageOnDisk(d[Len(d)], Len(d) - 1)
Astray(d, k) == Len(d) <= levels /\ Chosen(IndexRows(d[Len(d)]), k) = 0

Ends(d, k, a) ==
    \/ Barred(d) /\ a = Refused("PstLimitError")
    \/ ~Barred(d) /\ Unread(d) /\ a = Refused("PstFormatError")
    \/ ~Barred(d) /\ ~Unread(d) /\ Astray(d, k) /\ a = Absent
    \/ /\ ~Barred(d) /\ ~Unread(d) /\ Len(d) = levels + 1
       /\ a = FirstRecord(ItemAt(d[Len(d)]).leaf.rows, k)

Agrees(p, d, n) == Len(p) >= n /\ \A i \in 1..n : p[i] = d[i]

LEMMA PathAgrees ==
    ASSUME TypesOK, NEW k, NEW d \in Seq(Hid), Leads(d, k)
    PROVE  /\ DescentPath(k) \in Seq(Hid) /\ Agrees(DescentPath(k), d, Len(d))
           /\ Len(d) = levels + 1 \/ Unread(d) \/ Astray(d, k) => Len(DescentPath(k)) = Len(d)
  <1>1. PICK f : IsDown(f, k) /\ DescentPath(k) = f[levels]
    BY PathExists
  <1>2. PICK n \in Nat, m \in Nat : n = Len(d) /\ m = levels /\ 1 <= n /\ n <= m + 1
    <2>1. levels \in Nat
      BY HeapLimitsAssumption DEF TypesOK
    <2>. QED  BY <2>1 DEF Leads
  <1> DEFINE stuck == n = m + 1 \/ Unread(d) \/ Astray(d, k)
             Good == {l \in Nat : l <= m =>
                        /\ f[l] \in Seq(Hid) /\ Len(f[l]) <= l + 1
                        /\ l < n => Len(f[l]) = l + 1 /\ Agrees(f[l], d, l + 1)
                        /\ l >= n => Agrees(f[l], d, n) /\ (stuck => Len(f[l]) = n)}
  <1>3. \A l \in 0..m : f[l] = IF l = 0 THEN <<root>> ELSE Moved(f[l - 1], l, k)
    BY <1>1, <1>2 DEF IsDown
  <1>4. 0 \in Good
    <2>1. f[0] = <<root>>
      <3>1. 0 \in 0..m
        BY <1>2
      <3>. QED  BY <1>3, <3>1
    <2>2. root \in Hid /\ <<root>> \in Seq(Hid) /\ Len(<<root>>) = 1 /\ <<root>>[1] = root
      <3>1. root \in Hid
        BY DEF TypesOK
      <3>. QED  BY <3>1
    <2>3. Agrees(<<root>>, d, 1)
      BY <1>2, <2>2 DEF Agrees, Leads
    <2>4. PICK e \in Seq(Hid) : e = <<root>> /\ e = f[0] /\ Len(e) = 1 /\ Agrees(e, d, 1)
      BY <2>1, <2>2, <2>3
    <2>5. 0 + 1 = 1 /\ 1 <= 1 /\ (0 < n <=> n >= 1) /\ ~(0 >= n)
      BY <1>2
    <2>. QED  BY <1>2, <2>4, <2>5
  <1>5. ASSUME NEW l \in Nat, l \in Good PROVE l + 1 \in Good
    <2> SUFFICES ASSUME l + 1 <= m
                 PROVE  /\ f[l + 1] \in Seq(Hid) /\ Len(f[l + 1]) <= l + 2
                        /\ l + 1 < n => Len(f[l + 1]) = l + 2 /\ Agrees(f[l + 1], d, l + 2)
                        /\ l + 1 >= n => Agrees(f[l + 1], d, n) /\ (stuck => Len(f[l + 1]) = n)
      OBVIOUS
    <2>1. f[l + 1] = Moved(f[l], l + 1, k)
      <3>1. l + 1 \in 0..m /\ l + 1 # 0 /\ (l + 1) - 1 = l
        BY <1>2
      <3>. QED  BY <1>3, <3>1
    <2>2. PICK p \in Seq(Hid), q \in Nat :
             p = f[l] /\ q = Len(p) /\ q <= l + 1
             /\ (l < n => q = l + 1 /\ Agrees(p, d, l + 1))
             /\ (l >= n => Agrees(p, d, n) /\ (stuck => q = n))
      BY <1>2, <1>5, LenProperties
    <2>3. PICK g : g = f[l + 1] /\ g = Moved(p, l + 1, k)
      BY <2>1, <2>2
    <2>4. g = p \/ \E x \in Hid : g = Append(p, x) /\ q = l + 1
      <3> SUFFICES ASSUME g # p PROVE \E x \in Hid : g = Append(p, x) /\ q = l + 1
        OBVIOUS
      <3>1. /\ ~(Len(p) < l + 1) /\ PageOnDisk(Last(p), l) /\ Chosen(IndexRows(Last(p)), k) # 0
            /\ g = Append(p, IndexRows(Last(p))[Chosen(IndexRows(Last(p)), k)].child)
        BY <2>3 DEF Moved
      <3>2. q = l + 1
        BY <2>2, <3>1
      <3>3. PICK h \in Hid : h = Last(p)
        <4>1. Len(p) \in 1..Len(p)
          BY <2>2, <3>2
        <4>. QED  BY <4>1, ElementOfSeq DEF Last
      <3>4. l # levels
        BY <1>2
      <3>5. PICK c \in Nat, z \in Nat : c = Chosen(IndexRows(h), k) /\ z = Len(IndexRows(h)) /\ c <= z
        BY <3>1, <3>3, <3>4, OnDiskRows, LenProperties
      <3>6. c \in 1..z
        BY <3>1, <3>3, <3>5
      <3>7. IndexRows(h)[c].child \in Hid
        BY <3>1, <3>3, <3>4, <3>5, <3>6, OnDiskRows
      <3>. QED  BY <3>1, <3>2, <3>3, <3>5, <3>7
    <2>5. ASSUME NEW x \in Hid, g = Append(p, x)
          PROVE  g \in Seq(Hid) /\ Len(g) = q + 1 /\ g[q + 1] = x /\ \A i \in 1..q : g[i] = p[i]
      BY <2>2, <2>5, AppendProperties
    <2>6. g \in Seq(Hid) /\ Len(g) <= l + 2
      <3>1. CASE g = p
        BY <2>2, <3>1
      <3>2. CASE g # p
        BY <2>2, <2>4, <2>5, <3>2
      <3>. QED  BY <3>1, <3>2
    <2>7. ASSUME l + 1 < n PROVE Len(g) = l + 2 /\ Agrees(g, d, l + 2)
      <3>1. l + 1 \in 1..(n - 1) /\ l < n /\ (l + 1) - 1 = l /\ (l + 1) + 1 = l + 2
        BY <1>2, <2>7
      <3>2. q = l + 1 /\ \A i \in 1..(l + 1) : p[i] = d[i]
        BY <2>2, <3>1 DEF Agrees
      <3>3. Last(p) = d[l + 1]
        <4>1. l + 1 \in 1..(l + 1)
          OBVIOUS
        <4>. QED  BY <2>2, <3>2, <4>1 DEF Last
      <3>4. /\ PageOnDisk(d[l + 1], l) /\ Chosen(IndexRows(d[l + 1]), k) # 0
            /\ d[l + 2] = IndexRows(d[l + 1])[Chosen(IndexRows(d[l + 1]), k)].child
        BY <1>2, <3>1 DEF Leads
      <3>5. g = Append(p, d[l + 2])
        BY <2>2, <2>3, <3>2, <3>3, <3>4 DEF Moved
      <3>6. d[l + 2] \in Hid
        <4>1. l + 2 \in 1..Len(d)
          BY <1>2, <3>1
        <4>. QED  BY <4>1, ElementOfSeq
      <3>7. Len(g) = l + 2 /\ g[l + 2] = d[l + 2] /\ \A i \in 1..(l + 1) : g[i] = d[i]
        BY <2>5, <3>2, <3>5, <3>6
      <3>. QED  BY <3>7 DEF Agrees
    <2>8. ASSUME l + 1 >= n PROVE Agrees(g, d, n) /\ (stuck => Len(g) = n)
      <3>1. Agrees(p, d, n) /\ q >= n
        <4>1. CASE l >= n
          BY <2>2, <4>1 DEF Agrees
        <4>2. CASE ~(l >= n)
          <5>1. n = l + 1 /\ l < n
            BY <1>2, <2>8, <4>2
          <5>. QED  BY <2>2, <5>1 DEF Agrees
        <4>. QED  BY <4>1, <4>2
      <3>2. Agrees(g, d, n)
        <4>1. CASE g = p
          BY <3>1, <4>1
        <4>2. CASE g # p
          <5>1. PICK x \in Hid : g = Append(p, x)
            BY <2>4, <4>2
          <5>2. Len(g) = q + 1 /\ \A i \in 1..q : g[i] = p[i]
            BY <2>5, <5>1
          <5>3. \A i \in 1..n : p[i] = d[i]
            BY <3>1 DEF Agrees
          <5>. QED  BY <1>2, <2>2, <3>1, <5>2, <5>3 DEF Agrees
        <4>. QED  BY <4>1, <4>2
      <3>3. ASSUME stuck PROVE Len(g) = n
        <4>1. CASE l >= n
          <5>1. q = n
            BY <2>2, <3>3, <4>1
          <5>2. g = p
            <6>1. q < l + 1
              BY <1>2, <4>1, <5>1
            <6>. QED  BY <2>2, <2>3, <6>1 DEF Moved
          <5>. QED  BY <2>2, <5>1, <5>2
        <4>2. CASE ~(l >= n)
          <5>1. n = l + 1 /\ l < n /\ n <= m /\ n # m + 1
            BY <1>2, <2>8, <4>2
          <5>2. q = l + 1
            BY <2>2, <5>1
          <5>3. Last(p) = d[n]
            <6>1. n \in 1..n /\ \A i \in 1..n : p[i] = d[i]
              BY <1>2, <3>1 DEF Agrees
            <6>. QED  BY <2>2, <5>1, <5>2, <6>1 DEF Last
          <5>4. ~PageOnDisk(d[n], l) \/ Chosen(IndexRows(d[n]), k) = 0
            <6>1. n - 1 = l
              BY <5>1
            <6>. QED  BY <1>2, <3>3, <5>1, <6>1 DEF Unread, Astray
          <5>5. g = p
            BY <2>3, <5>3, <5>4 DEF Moved
          <5>. QED  BY <2>2, <5>1, <5>2, <5>5
        <4>. QED  BY <4>1, <4>2
      <3>. QED  BY <3>2, <3>3
    <2>. QED  BY <2>3, <2>6, <2>7, <2>8
  <1> HIDE DEF Good, stuck
  <1>6. \A l \in Nat : l \in Good
    BY <1>4, <1>5, NatInduct
  <1>7. m \in Nat /\ m <= m
    BY <1>2
  <1>8. /\ f[m] \in Seq(Hid) /\ Len(f[m]) <= m + 1
        /\ m < n => Len(f[m]) = m + 1 /\ Agrees(f[m], d, m + 1)
        /\ m >= n => Agrees(f[m], d, n) /\ (stuck => Len(f[m]) = n)
    BY <1>6, <1>7 DEF Good
  <1>9. m < n => n = m + 1
    BY <1>2
  <1>. QED  BY <1>1, <1>2, <1>8, <1>9 DEF stuck

(* A lookup's path and its end are what the reference says.                *)
LEMMA DescentFollows ==
    ASSUME TypesOK, root # NullHid, NEW k, NEW d \in Seq(Hid), Leads(d, k), NEW a, Ends(d, k, a)
    PROVE  a = Descent(k)
  <1>1. PICK p \in Seq(Hid), n \in Nat, q \in Nat, m \in Nat :
           /\ p = DescentPath(k) /\ n = Len(d) /\ q = Len(p) /\ q >= n /\ n >= 1 /\ m = levels
           /\ n <= m + 1 /\ \A i \in 1..n : p[i] = d[i]
    <2>1. /\ DescentPath(k) \in Seq(Hid) /\ Len(DescentPath(k)) >= Len(d)
          /\ \A i \in 1..Len(d) : DescentPath(k)[i] = d[i]
      BY PathAgrees DEF Agrees
    <2>2. levels \in Nat
      BY HeapLimitsAssumption DEF TypesOK
    <2>3. Len(d) >= 1 /\ Len(d) <= levels + 1
      BY <2>2, LenProperties DEF Leads
    <2>. QED  BY <2>1, <2>2, <2>3, LenProperties
  <1>2. Len(d) = levels + 1 \/ Unread(d) \/ Astray(d, k) => q = n
    BY <1>1, PathAgrees
  <1>3. DOMAIN p = 1..q
    BY <1>1, LenProperties
  <1>4. ASSUME NEW i \in 1..(n - 1) PROVE TroubleAt(p, i) = NoError
    <2>1. /\ i <= MaxItems /\ PageOnDisk(d[i], i - 1) /\ p[i] = d[i]
          /\ \A j \in 1..(i - 1) : p[j] = d[j] /\ d[j] # d[i]
      <3>1. \A j \in 1..(i - 1) : j \in 1..n /\ j \in 1..(n - 1) /\ j # i
        BY <1>1
      <3>2. i \in 1..n
        BY <1>1
      <3>. QED  BY <1>1, <3>1, <3>2 DEF Leads
    <2>2. ~(i > MaxItems)
      BY <1>1, <2>1, HeapLimitsAssumption
    <2>. QED  BY <2>1, <2>2 DEF TroubleAt
  <1>5. /\ Barred(d) => TroubleAt(p, n) = "PstLimitError"
        /\ ~Barred(d) /\ Unread(d) => TroubleAt(p, n) = "PstFormatError"
        /\ ~Barred(d) /\ ~Unread(d) => TroubleAt(p, n) = NoError
    <2>1. p[n] = d[n] /\ \A j \in 1..(n - 1) : p[j] = d[j]
      BY <1>1
    <2>. QED  BY <1>1, <2>1 DEF TroubleAt, Barred, Unread
  <1>6. Troubled(p) \in SUBSET Nat /\ \A i \in Troubled(p) : i >= n /\ i <= q
    BY <1>1, <1>3, <1>4 DEF Troubled
  <1>7. /\ root # NullHid
        /\ Troubled(p) # {} => Descent(k) = Refused(TroubleAt(p, Min(Troubled(p))))
        /\ Troubled(p) = {} /\ q <= m => Descent(k) = Absent
        /\ Troubled(p) = {} /\ ~(q <= m) => Descent(k) = FirstRecord(ItemAt(Last(p)).leaf.rows, k)
    BY <1>1, DescentIs
  <1>8. ASSUME TroubleAt(p, n) # NoError PROVE Descent(k) = Refused(TroubleAt(p, n))
    <2>1. n \in Troubled(p)
      BY <1>1, <1>3, <1>8 DEF Troubled
    <2>2. Min(Troubled(p)) \in Troubled(p) /\ Min(Troubled(p)) <= n
      BY <1>6, <2>1, MinProperties
    <2>3. Min(Troubled(p)) = n
      BY <1>1, <1>6, <2>2
    <2>. QED  BY <1>7, <2>1, <2>3
  <1>9. ASSUME TroubleAt(p, n) = NoError, q = n PROVE Troubled(p) = {}
    <2>1. \A i \in Troubled(p) : i = n
      BY <1>1, <1>6, <1>9
    <2>. QED  BY <1>9, <2>1 DEF Troubled
  <1>10. CASE Barred(d) /\ a = Refused("PstLimitError")
    BY <1>5, <1>8, <1>10 DEF NoError
  <1>11. CASE ~Barred(d) /\ Unread(d) /\ a = Refused("PstFormatError")
    BY <1>5, <1>8, <1>11 DEF NoError
  <1>12. CASE ~Barred(d) /\ ~Unread(d) /\ Astray(d, k) /\ a = Absent
    <2>1. q = n /\ n <= m
      BY <1>1, <1>2, <1>12 DEF Astray
    <2>. QED  BY <1>5, <1>7, <1>9, <1>12, <2>1
  <1>13. CASE /\ ~Barred(d) /\ ~Unread(d) /\ Len(d) = levels + 1
              /\ a = FirstRecord(ItemAt(d[Len(d)]).leaf.rows, k)
    <2>1. q = n /\ ~(n <= m)
      BY <1>1, <1>2, <1>13
    <2>2. Last(p) = d[n]
      BY <1>1, <2>1 DEF Last
    <2>. QED  BY <1>1, <1>5, <1>7, <1>9, <1>13, <2>1, <2>2
  <1>. QED  BY <1>10, <1>11, <1>12, <1>13 DEF Ends

-----------------------------------------------------------------------------
(* An item is refused when it is not on disk, or for the count, which is   *)
(* then past the ceiling.                                                  *)
LEMMA GetIsFiles ==
    ASSUME HeapTypeOK, NEW h \in Hid
    PROVE  /\ GetRefusal(h) = NoError => ItemOnDisk(h)
           /\ (GetRefusal(h) # NoError /\ Touch(h)) =>
                 \/ GetRefusal(h) = "PstFormatError" /\ ~ItemOnDisk(h)
                 \/ GetRefusal(h) = "PstLimitError" /\ Exceeds(itemsSeen', MaxHeapItems)
  <1>0. TypesOK
    BY DEF HeapTypeOK
  <1>1. GetRefusal(h) = NoError => ItemOnDisk(h)
    <2>1. GetRefusal(h) = NoError => HasBlock(h) /\ ~Dangling(h) /\ h.block \in Parsed
      BY <1>0, ItemProperties
    <2>. QED  BY <1>0, <2>1, BlockType DEF ItemOnDisk
  <1>2. ASSUME GetRefusal(h) # NoError, Touch(h)
        PROVE  \/ GetRefusal(h) = "PstFormatError" /\ ~ItemOnDisk(h)
               \/ GetRefusal(h) = "PstLimitError" /\ Exceeds(itemsSeen', MaxHeapItems)
    <2>1. CASE ~HasBlock(h)
      BY <2>1 DEF GetRefusal, ItemOnDisk
    <2>2. CASE HasBlock(h) /\ MapRefusal(h) # NoError
      <3>1. h.block \notin maps /\ GetRefusal(h) = MapRefusal(h)
        BY <2>2 DEF GetRefusal, MapRefusal
      <3>2. CASE BlockOf(h).kind = "bad"
        BY <3>1, <3>2 DEF MapRefusal, ItemOnDisk
      <3>3. CASE BlockOf(h).kind # "bad"
        <4>1. BlockOf(h).kind = "map"
          BY <1>0, <2>2, <3>3, BlockType DEF Block
        <4>2. /\ MapRefusal(h) = "PstLimitError"
              /\ Exceeds(itemsSeen + Len(BlockOf(h).items), MaxHeapItems)
          BY <2>2, <3>1, <3>3 DEF MapRefusal
        <4>3. itemsSeen' = itemsSeen + Len(BlockOf(h).items)
          BY <1>2, <2>2, <3>1, <4>1 DEF Touch, Parses
        <4>. QED  BY <3>1, <4>2, <4>3
      <3>. QED  BY <3>2, <3>3
    <2>3. CASE HasBlock(h) /\ MapRefusal(h) = NoError
      BY <1>2, <2>3 DEF GetRefusal, ItemOnDisk
    <2>. QED  BY <2>1, <2>2, <2>3
  <1>. QED  BY <1>1, <1>2

(* And a page likewise, unless the cycle guard refuses it.                 *)
LEMMA PageIsFiles ==
    ASSUME HeapTypeOK, NEW h \in Hid, NEW l \in Nat, NEW seen
    PROVE  /\ PageRefusal(h, l, seen) = NoError => PageOnDisk(h, l) /\ ~AddRefused(seen, h, MaxItems)
           /\ AddRefused(seen, h, MaxItems) => PageRefusal(h, l, seen) = "PstLimitError"
           /\ (PageRefusal(h, l, seen) # NoError /\ ~AddRefused(seen, h, MaxItems) /\ Touch(h)) =>
                 \/ PageRefusal(h, l, seen) = "PstFormatError" /\ ~PageOnDisk(h, l)
                 \/ PageRefusal(h, l, seen) = "PstLimitError" /\ Exceeds(itemsSeen', MaxHeapItems)
  <1>1. PageRefusal(h, l, seen) = NoError => PageOnDisk(h, l) /\ ~AddRefused(seen, h, MaxItems)
    BY PageRows, GetIsFiles DEF HeapTypeOK, PageOnDisk
  <1>2. AddRefused(seen, h, MaxItems) => PageRefusal(h, l, seen) = "PstLimitError"
    BY DEF PageRefusal
  <1>3. ASSUME PageRefusal(h, l, seen) # NoError, ~AddRefused(seen, h, MaxItems), Touch(h)
        PROVE  \/ PageRefusal(h, l, seen) = "PstFormatError" /\ ~PageOnDisk(h, l)
               \/ PageRefusal(h, l, seen) = "PstLimitError" /\ Exceeds(itemsSeen', MaxHeapItems)
    <2>1. CASE GetRefusal(h) # NoError
      BY <1>3, <2>1, GetIsFiles DEF PageRefusal, PageOnDisk
    <2>2. CASE GetRefusal(h) = NoError
      BY <1>3, <2>2 DEF PageRefusal, PageOnDisk
    <2>. QED  BY <2>1, <2>2
  <1>. QED  BY <1>1, <1>2, <1>3

(* The count of items is never taken back. *)
LEMMA CountGrows ==
    ASSUME HeapTypeOK, [Next]_heapvars
    PROVE  itemsSeen' >= itemsSeen /\ itemsSeen' \in Nat
  <1>0. TypesOK /\ itemsSeen \in Nat /\ top \in Hid /\ hid \in Hid
    BY DEF HeapTypeOK, TypesOK
  <1>1. itemsSeen' \in Nat
    BY EveryStepKeeps DEF HeapKeeps
  <1> SUFFICES itemsSeen' >= itemsSeen
    BY <1>1
  <1>2. ASSUME NEW h \in Hid, Touch(h) PROVE itemsSeen' >= itemsSeen
    <2>1. CASE ~Parses(h)
      BY <1>0, <1>2, <2>1 DEF Touch
    <2>2. CASE Parses(h)
      <3>1. BlockOf(h).items \in Seq(Item)
        BY <1>0, <2>2, BlockType DEF Parses
      <3>2. PICK n \in Nat : n = Len(BlockOf(h).items)
        BY <3>1, LenProperties
      <3>3. itemsSeen' = itemsSeen + n
        BY <1>2, <2>2, <3>2 DEF Touch
      <3>. QED  BY <1>0, <3>2, <3>3
    <2>. QED  BY <2>1, <2>2
  <1>3. ASSUME UNCHANGED heap PROVE itemsSeen' >= itemsSeen
    BY <1>0, <1>3 DEF heap
  <1>4. CASE Open
    BY <1>0, <1>2, <1>4 DEF Open
  <1>5. CASE \E h \in Hid : Get(h)
    BY <1>2, <1>5 DEF Get
  <1>6. CASE StartIteration \/ NextLevel \/ Exhaust \/ \E k \in Keys : Find(k)
    BY <1>3, <1>6 DEF StartIteration, NextLevel, Exhaust, Find
  <1>7. CASE ReadIndexPage \/ ReadLeafPage
    <2>1. row # <<>> /\ Touch(Head(row))
      BY <1>7 DEF ReadIndexPage, ReadLeafPage
    <2>. QED  BY <1>2, <2>1, EndOfRow
  <1>8. CASE RefuseIteration
    <2>1. UNCHANGED heap \/ (row # <<>> /\ Touch(Head(row)))
      BY <1>8 DEF RefuseIteration, TouchPage
    <2>. QED  BY <1>2, <1>3, <2>1, EndOfRow
  <1>9. CASE FindRefuses
    <2>1. UNCHANGED heap \/ Touch(hid)
      BY <1>9 DEF FindRefuses, TouchPage
    <2>. QED  BY <1>0, <1>2, <1>3, <2>1
  <1>10. CASE Descend \/ SearchLeaf
    BY <1>0, <1>2, <1>10 DEF Descend, SearchLeaf
  <1>11. CASE UNCHANGED heapvars
    BY <1>3, <1>11 DEF heapvars
  <1>. QED  BY <1>1, <1>4, <1>5, <1>6, <1>7, <1>8, <1>9, <1>10, <1>11 DEF Next

-----------------------------------------------------------------------------
(* A running lookup has come down a path that its VisitedSet holds.        *)
CameBy(d) ==
    /\ Leads(d, key) /\ Len(d) = flevel + 1 /\ d[flevel + 1] = hid
    /\ path = {d[i] : i \in 1..flevel} /\ IsFiniteSet(path) /\ Cardinality(path) = flevel

LimitAnswer == answer = Refused("PstLimitError") /\ Exceeds(itemsSeen, MaxHeapItems)

ItemAnswer ==
    /\ asked.kind = "item" /\ asked.item \in Hid
    /\ answer = IF ItemOnDisk(asked.item) THEN [kind |-> "item"] ELSE Refused("PstFormatError")

KeyAnswer ==
    \E k \in Keys, a \in {answer} :
        /\ asked.kind = "key" /\ asked.key = k
        /\ IF root = NullHid THEN a = Absent
           ELSE \E d \in Seq(Hid) : Leads(d, k) /\ Ends(d, k, a)

LookInv ==
    /\ fpc = "descend" => /\ asked.kind = "key" /\ asked.key = key
                          /\ \E d \in Seq(Hid) : CameBy(d)
    /\ fpc = "idle" /\ answer # Nothing =>
          /\ tpc = "open" /\ asked.kind \in {"key", "item"}
          /\ LimitAnswer \/ ItemAnswer \/ KeyAnswer

(* What is said of the file stays true of it. *)
LEMMA FileStays ==
    ASSUME UNCHANGED <<blocks, levels, root>>
    PROVE  /\ \A h : ItemOnDisk(h)' <=> ItemOnDisk(h)
           /\ \A h, l : PageOnDisk(h, l)' <=> PageOnDisk(h, l)
           /\ \A h : ItemAt(h)' = ItemAt(h) /\ IndexRows(h)' = IndexRows(h)
           /\ \A d, k : Leads(d, k)' <=> Leads(d, k)
           /\ \A d, k, a : Ends(d, k, a)' <=> Ends(d, k, a)
  <1>1. \A h : ItemAt(h)' = ItemAt(h) /\ IndexRows(h)' = IndexRows(h)
    BY DEF ItemAt, IndexRows, BlockOf
  <1>2. \A h : ItemOnDisk(h)' <=> ItemOnDisk(h)
    BY DEF ItemOnDisk, HasBlock, BlockOf, Dangling, ItemAt
  <1>3. \A h, l : PageOnDisk(h, l)' <=> PageOnDisk(h, l)
    BY <1>1, <1>2 DEF PageOnDisk, PageView
  <1>4. \A d, k : Leads(d, k)' <=> Leads(d, k)
    BY <1>1, <1>3 DEF Leads
  <1>5. \A d, k, a : Ends(d, k, a)' <=> Ends(d, k, a)
    BY <1>1, <1>3 DEF Ends, Barred, Unread, Astray
  <1>. QED  BY <1>1, <1>2, <1>3, <1>4, <1>5

LEMMA AnswerStays ==
    ASSUME HeapTypeOK, [Next]_heapvars, UNCHANGED <<tree, fpc, key, hid, flevel, path, asked, answer>>,
           LookInv
    PROVE  LookInv'
  <1>1. UNCHANGED <<blocks, levels, root, tpc>> /\ itemsSeen' >= itemsSeen
        /\ itemsSeen \in Nat /\ itemsSeen' \in Nat /\ MaxHeapItems \in Nat
    BY EveryStepKeeps, CountGrows, HeapLimitsAssumption DEF tree, HeapTypeOK, TypesOK
  <1>2. LimitAnswer => LimitAnswer'
    BY <1>1 DEF LimitAnswer, Refused, Exceeds
  <1>3. ItemAnswer => ItemAnswer'
    BY <1>1, FileStays DEF ItemAnswer, Refused
  <1>4. KeyAnswer => KeyAnswer'
    BY <1>1, FileStays DEF KeyAnswer, Absent, NullHid
  <1>5. \A d : CameBy(d) => CameBy(d)'
    BY <1>1, FileStays DEF CameBy
  <1>. QED  BY <1>1, <1>2, <1>3, <1>4, <1>5 DEF LookInv, Nothing

(* A lookup that refuses, or that ends, answers what the file gives.       *)
LEMMA LookupEnds ==
    ASSUME HeapInv, LookInv, FindRefuses \/ Descend \/ SearchLeaf, fpc' = "idle"
    PROVE  LookInv'
  <1>0. /\ HeapTypeOK /\ TypesOK /\ root # NullHid /\ tpc = "open" /\ fpc = "descend"
        /\ hid \in Hid /\ flevel \in Nat /\ levels \in Nat /\ flevel <= levels /\ key \in Keys
        /\ MaxItems \in Nat
    BY HeapLimitsAssumption
       DEF HeapInv, HeapTypeOK, TypesOK, HeapControl, FindRefuses, Descend, SearchLeaf
  <1>1. UNCHANGED <<blocks, levels, root, tpc, asked>>
    BY <1>0 DEF FindRefuses, Descend, SearchLeaf, ReadOnly, tree, Answer
  <1>2. PICK d \in Seq(Hid) : CameBy(d)
    BY <1>0 DEF LookInv
  <1>3. /\ Leads(d, key) /\ Len(d) = flevel + 1 /\ d[Len(d)] = hid /\ Len(d) - 1 = flevel
        /\ path = {d[i] : i \in 1..flevel} /\ IsFiniteSet(path) /\ Cardinality(path) = flevel
    BY <1>0, <1>2 DEF CameBy
  <1>4. AddRefused(path, hid, MaxItems) <=> Barred(d)
    <2>1. hid \in path <=> \E j \in 1..(Len(d) - 1) : d[j] = d[Len(d)]
      BY <1>3
    <2>2. Cardinality(path) >= MaxItems <=> Len(d) > MaxItems
      BY <1>0, <1>3
    <2>. QED  BY <2>1, <2>2 DEF AddRefused, Barred
  <1>5. Unread(d) <=> ~PageOnDisk(hid, flevel)
    BY <1>3 DEF Unread
  <1>6. LimitAnswer' \/ Ends(d, key, answer')
    <2>1. CASE FindRefuses
      <3>1. answer' = Refused(FindRefusal) /\ FindRefusal # NoError /\ TouchPage(hid, path)
        BY <2>1 DEF FindRefuses, Answer
      <3>2. FindRefusal = PageRefusal(hid, flevel, path)
        BY DEF FindRefusal
      <3>3. CASE AddRefused(path, hid, MaxItems)
        <4>1. FindRefusal = "PstLimitError"
          BY <1>0, <3>2, <3>3, PageIsFiles
        <4>. QED  BY <1>4, <3>1, <3>3, <4>1 DEF Ends
      <3>4. CASE ~AddRefused(path, hid, MaxItems)
        <4>1. Touch(hid)
          BY <3>1, <3>4 DEF TouchPage
        <4>2. \/ FindRefusal = "PstFormatError" /\ ~PageOnDisk(hid, flevel)
              \/ FindRefusal = "PstLimitError" /\ Exceeds(itemsSeen', MaxHeapItems)
          BY <1>0, <3>1, <3>2, <3>4, <4>1, PageIsFiles
        <4>3. CASE FindRefusal = "PstFormatError" /\ ~PageOnDisk(hid, flevel)
          BY <1>4, <1>5, <3>1, <3>4, <4>3 DEF Ends
        <4>4. CASE FindRefusal = "PstLimitError" /\ Exceeds(itemsSeen', MaxHeapItems)
          BY <3>1, <4>4 DEF LimitAnswer, Refused
        <4>. QED  BY <4>2, <4>3, <4>4
      <3>. QED  BY <3>3, <3>4
    <2>2. CASE Descend
      <3>1. FindRefusal = NoError /\ flevel < levels
        BY <2>2 DEF Descend
      <3>2. ~Barred(d) /\ ~Unread(d)
        BY <1>0, <1>4, <1>5, <3>1, PageIsFiles DEF FindRefusal
      <3>3. Chosen(ItemAt(hid).index.rows, key) = 0 /\ answer' = Absent
        BY <1>0, <2>2 DEF Descend, Answer
      <3>4. Astray(d, key)
        BY <1>0, <1>3, <3>1, <3>3 DEF Astray, IndexRows
      <3>. QED  BY <3>2, <3>3, <3>4 DEF Ends
    <2>3. CASE SearchLeaf
      <3>1. FindRefusal = NoError /\ flevel = levels /\ answer' = FirstRecord(ItemAt(hid).leaf.rows, key)
        BY <2>3 DEF SearchLeaf, Answer
      <3>2. ~Barred(d) /\ ~Unread(d)
        BY <1>0, <1>4, <1>5, <3>1, PageIsFiles DEF FindRefusal
      <3>. QED  BY <1>3, <3>1, <3>2 DEF Ends
    <2>. QED  BY <2>1, <2>2, <2>3
  <1>7. asked.kind = "key" /\ asked.key = key
    BY <1>0 DEF LookInv
  <1>8. KeyAnswer' \/ LimitAnswer'
    <2>1. ASSUME Ends(d, key, answer') PROVE KeyAnswer'
      <3>1. PICK k \in Keys : k = key
        BY <1>0
      <3>2. PICK a : a = answer'
        OBVIOUS
      <3>3. Leads(d, k) /\ Ends(d, k, a)
        BY <1>3, <2>1, <3>1, <3>2
      <3>4. Leads(d, k)' /\ Ends(d, k, a)'
        BY <1>1, <3>3, FileStays
      <3>5. asked'.kind = "key" /\ asked'.key = k /\ (root # NullHid)'
        BY <1>0, <1>1, <1>7, <3>1 DEF NullHid
      <3>. QED  BY <3>2, <3>4, <3>5 DEF KeyAnswer
    <2>. QED  BY <1>6, <2>1
  <1>. QED  BY <1>0, <1>1, <1>7, <1>8 DEF LookInv

(* Going down makes the path one page longer. *)
LEMMA LookupGoesDown ==
    ASSUME HeapInv, LookInv, Descend, fpc' = "descend"
    PROVE  LookInv'
  <1> DEFINE rows == ItemAt(hid).index.rows
             at == Chosen(rows, key)
  <1>0. /\ HeapTypeOK /\ TypesOK /\ fpc = "descend"
        /\ hid \in Hid /\ flevel \in Nat /\ levels \in Nat /\ flevel < levels
        /\ MaxItems \in Nat
    BY HeapLimitsAssumption DEF HeapInv, HeapTypeOK, TypesOK, Descend
  <1>1. UNCHANGED <<blocks, levels, root>>
    BY DEF Descend, ReadOnly, tree
  <1>2. PICK d \in Seq(Hid) : CameBy(d)
    BY <1>0 DEF LookInv
  <1>3. PICK n \in Nat : n = Len(d) /\ n = flevel + 1 /\ n - 1 = flevel
    BY <1>0, <1>2 DEF CameBy
  <1>4. /\ Leads(d, key) /\ d[n] = hid
        /\ path = {d[i] : i \in 1..flevel} /\ IsFiniteSet(path) /\ Cardinality(path) = flevel
    BY <1>2, <1>3 DEF CameBy
  <1>5. /\ at # 0 /\ hid' = rows[at].child /\ flevel' = flevel + 1 /\ path' = path \cup {hid}
        /\ UNCHANGED <<fpc, key, asked, answer>> /\ FindRefusal = NoError
    BY DEF Descend, Answer
  <1>6. PageOnDisk(hid, flevel) /\ ~AddRefused(path, hid, MaxItems)
    BY <1>0, <1>5, PageIsFiles DEF FindRefusal
  <1>7. rows = IndexRows(hid)
    BY DEF IndexRows
  <1>8. PICK c \in Hid : c = hid'
    <2>1. flevel # levels
      BY <1>0
    <2>2. PICK a \in Nat, z \in Nat : a = at /\ z = Len(rows) /\ a <= z
      BY <1>0, <1>6, <1>7, <2>1, OnDiskRows, LenProperties
    <2>3. a \in 1..z
      BY <1>5, <2>2
    <2> HIDE DEF rows, at
    <2>. QED  BY <1>0, <1>5, <1>6, <1>7, <2>1, <2>2, <2>3, OnDiskRows
  <1> HIDE DEF rows, at
  <1>9. PICK e \in Seq(Hid) : /\ e = Append(d, c) /\ Len(e) = n + 1 /\ e[n + 1] = c
                              /\ \A i \in 1..n : e[i] = d[i]
    <2>1. /\ Append(d, c) \in Seq(Hid) /\ Len(Append(d, c)) = Len(d) + 1
          /\ Append(d, c)[Len(d) + 1] = c /\ \A i \in 1..Len(d) : Append(d, c)[i] = d[i]
      BY AppendProperties
    <2>. QED  BY <1>3, <2>1
  <1>10. hid \notin path /\ flevel < MaxItems
    BY <1>0, <1>4, <1>6 DEF AddRefused
  <1>11. Leads(e, key)
    <2>1. Len(e) \in 1..(levels + 1) /\ Len(e) - 1 = n
      BY <1>0, <1>3, <1>9
    <2>2. e[1] = root
      <3>1. d[1] = root /\ 1 \in 1..n
        BY <1>0, <1>3, <1>4 DEF Leads
      <3>. QED  BY <1>9, <3>1
    <2>3. ASSUME NEW i \in 1..n
          PROVE  /\ PageOnDisk(e[i], i - 1) /\ Chosen(IndexRows(e[i]), key) # 0 /\ i <= MaxItems
                 /\ e[i + 1] = IndexRows(e[i])[Chosen(IndexRows(e[i]), key)].child
      <3>1. CASE i = n
        <4>1. e[i] = hid /\ e[i + 1] = c /\ i - 1 = flevel /\ i <= MaxItems
          BY <1>0, <1>3, <1>4, <1>9, <1>10, <3>1
        <4>. QED  BY <1>5, <1>6, <1>7, <1>8, <4>1 DEF at
      <3>2. CASE i # n
        <4>1. i \in 1..(Len(d) - 1) /\ e[i] = d[i] /\ e[i + 1] = d[i + 1]
          <5>1. i \in 1..(n - 1) /\ i \in 1..n /\ i + 1 \in 1..n
            BY <3>2
          <5>. QED  BY <1>3, <1>9, <5>1
        <4>. QED  BY <1>4, <4>1 DEF Leads
      <3>. QED  BY <3>1, <3>2
    <2>4. ASSUME NEW i \in 1..n, NEW j \in 1..n, e[i] = e[j], i < j PROVE FALSE
      <3>1. i \in 1..flevel /\ i \in 1..(Len(d) - 1) /\ d[i] = d[j]
        BY <1>3, <1>9, <2>4
      <3>2. d[i] \in path
        BY <1>4, <3>1
      <3>3. CASE j = n
        BY <1>4, <1>10, <3>1, <3>2, <3>3
      <3>4. CASE j # n
        <4>1. j \in 1..(Len(d) - 1)
          BY <1>3, <3>4
        <4>. QED  BY <1>4, <2>4, <3>1, <4>1, SMTT(30) DEF Leads
      <3>. QED  BY <3>3, <3>4
    <2>5. \A i, j \in 1..n : e[i] = e[j] => i = j
      <3>1. ASSUME NEW i \in 1..n, NEW j \in 1..n, e[i] = e[j] PROVE i = j
        <4>1. i = j \/ i < j \/ j < i
          OBVIOUS
        <4>. QED  BY <2>4, <3>1, <4>1
      <3>. QED  BY <3>1
    <2>. QED  BY <2>1, <2>2, <2>3, <2>5 DEF Leads
  <1>12. path' = {e[i] : i \in 1..n} /\ IsFiniteSet(path') /\ Cardinality(path') = n
    <2>1. {e[i] : i \in 1..n} = {d[i] : i \in 1..n}
      BY <1>9
    <2>2. 1..n = 1..flevel \cup {n}
      BY <1>0, <1>3
    <2>3. {d[i] : i \in 1..n} = path \cup {hid}
      BY <1>4, <2>2
    <2>4. IsFiniteSet(path \cup {hid}) /\ Cardinality(path \cup {hid}) = flevel + 1
      BY <1>4, <1>10, FS_AddElement
    <2>. QED  BY <1>3, <1>5, <2>1, <2>3, <2>4
  <1>13. CameBy(e)'
    <2>1. Leads(e, key)'
      <3>1. PICK k : k = key /\ k = key'
        BY <1>5
      <3>2. Leads(e, k)'
        BY <1>1, <1>11, <3>1, FileStays
      <3>. QED  BY <3>1, <3>2 DEF Leads
    <2>2. flevel' = n /\ Len(e) = n + 1 /\ e[n + 1] = hid'
      BY <1>3, <1>5, <1>8, <1>9
    <2>. QED  BY <1>12, <2>1, <2>2 DEF CameBy
  <1>. QED  BY <1>0, <1>5, <1>13 DEF LookInv

LEMMA LookPreserved ==
    ASSUME HeapInv, LookInv, [Next]_heapvars
    PROVE  LookInv'
  <1>0. HeapTypeOK /\ TypesOK /\ HeapControl /\ UNCHANGED <<blocks, top>>
    BY EveryStepKeeps DEF HeapInv, HeapTypeOK
  <1>1. ASSUME UNCHANGED <<tree, lookup, asked, answer>> PROVE LookInv'
    BY <1>0, <1>1, AnswerStays DEF lookup
  <1>2. CASE \/ StartIteration \/ ReadIndexPage \/ NextLevel \/ ReadLeafPage \/ RefuseIteration
             \/ Exhaust \/ UNCHANGED heapvars
    <2>1. UNCHANGED <<tree, lookup, asked, answer>>
      BY <1>2 DEF StartIteration, ReadIndexPage, NextLevel, ReadLeafPage, RefuseIteration, Exhaust,
                  heapvars
    <2>. QED  BY <1>1, <2>1
  <1>3. CASE Open
    <2>1. fpc = "idle" /\ answer = Nothing /\ fpc' = "idle" /\ answer' = Nothing
      BY <1>0, <1>3 DEF Open, HeapControl, LookInv, lookup
    <2>. QED  BY <2>1 DEF LookInv, Nothing
  <1>4. ASSUME NEW h \in Hid, Get(h) PROVE LookInv'
    <2>1. /\ tpc' = "open" /\ fpc' = "idle" /\ UNCHANGED <<levels, root>>
          /\ asked' = [kind |-> "item", item |-> h] /\ Touch(h)
          /\ answer' = IF GetRefusal(h) = NoError THEN [kind |-> "item"] ELSE Refused(GetRefusal(h))
      BY <1>4 DEF Get, Idle, tree, lookup
    <2>2. ItemOnDisk(h)' <=> ItemOnDisk(h)
      BY <1>0, <2>1, FileStays
    <2>3. asked'.kind = "item" /\ asked'.item = h
      BY <2>1
    <2>4. CASE GetRefusal(h) = NoError
      <3>1. answer' = [kind |-> "item"] /\ ItemOnDisk(h)'
        BY <1>0, <2>1, <2>2, <2>4, GetIsFiles
      <3>2. ItemAnswer'
        BY <2>1, <2>3, <3>1 DEF ItemAnswer
      <3>. QED  BY <2>1, <2>3, <3>2 DEF LookInv
    <2>5. CASE GetRefusal(h) = "PstFormatError" /\ ~ItemOnDisk(h)
      <3>1. answer' = Refused("PstFormatError") /\ ~ItemOnDisk(h)'
        BY <2>1, <2>2, <2>5 DEF NoError
      <3>2. ItemAnswer'
        BY <2>1, <2>3, <3>1 DEF ItemAnswer, Refused
      <3>. QED  BY <2>1, <2>3, <3>2 DEF LookInv
    <2>6. CASE GetRefusal(h) = "PstLimitError" /\ Exceeds(itemsSeen', MaxHeapItems)
      <3>1. LimitAnswer'
        BY <2>1, <2>6 DEF LimitAnswer, Refused, NoError
      <3>. QED  BY <2>1, <2>3, <3>1 DEF LookInv
    <2>. QED  BY <1>0, <2>1, <2>4, <2>5, <2>6, GetIsFiles
  <1>5. ASSUME NEW k \in Keys, Find(k) PROVE LookInv'
    <2>1. /\ tpc' = "open" /\ fpc = "idle" /\ UNCHANGED <<levels, root, tpc>>
          /\ asked' = [kind |-> "key", key |-> k]
      BY <1>5 DEF Find, Idle, tree
    <2>2. CASE root = NullHid
      <3>1. answer' = Absent /\ fpc' = "idle" /\ root' = NullHid
        BY <1>5, <2>1, <2>2 DEF Find, lookup, NullHid
      <3>2. KeyAnswer'
        BY <2>1, <3>1 DEF KeyAnswer, NullHid, Absent
      <3>3. asked'.kind = "key"
        BY <2>1
      <3>. QED  BY <2>1, <3>1, <3>2, <3>3 DEF LookInv
    <2>3. CASE root # NullHid
      <3>1. fpc' = "descend" /\ key' = k /\ hid' = root /\ flevel' = 0 /\ path' = {}
        BY <1>5, <2>3 DEF Find
      <3>2. root \in Hid /\ levels \in Nat
        BY <1>0, HeapLimitsAssumption DEF TypesOK
      <3>3. PICK d \in Seq(Hid) : d = <<root>> /\ Len(d) = 1 /\ d[1] = root
        <4>1. <<root>> \in Seq(Hid) /\ Len(<<root>>) = 1 /\ <<root>>[1] = root
          BY <3>2
        <4>. QED  BY <4>1
      <3>4. Leads(d, k)
        BY <3>2, <3>3 DEF Leads
      <3>5. Leads(d, k)'
        BY <1>0, <2>1, <3>4, FileStays
      <3>6. Leads(d, key)'
        BY <3>1, <3>5 DEF Leads
      <3>7. {d[i] : i \in 1..0} = {} /\ IsFiniteSet({}) /\ Cardinality({}) = 0
        <4>1. 1..0 = {}
          OBVIOUS
        <4>. QED  BY <4>1, FS_EmptySet
      <3>8. CameBy(d)'
        BY <3>1, <3>3, <3>6, <3>7 DEF CameBy
      <3>9. asked'.kind = "key" /\ asked'.key = key'
        BY <2>1, <3>1
      <3>. QED  BY <3>1, <3>8, <3>9 DEF LookInv
    <2>. QED  BY <2>2, <2>3
  <1>6. CASE FindRefuses \/ Descend \/ SearchLeaf
    <2>1. fpc' = "idle" \/ (fpc' = "descend" /\ Descend)
      BY <1>6 DEF FindRefuses, Descend, SearchLeaf, Answer
    <2>. QED  BY <1>6, <2>1, LookupEnds, LookupGoesDown
  <1>. QED  BY <1>2, <1>3, <1>4, <1>5, <1>6 DEF Next

LEMMA LookInvGives ==
    ASSUME TypesOK, LookInv
    PROVE  AnswerIsFiles
  <1> SUFFICES ASSUME fpc = "idle", answer # Nothing
               PROVE  \/ answer = CASE asked.kind = "key" -> Descent(asked.key)
                                    [] asked.kind = "item" -> IF ItemOnDisk(asked.item)
                                                              THEN [kind |-> "item"]
                                                              ELSE Refused("PstFormatError")
                      \/ answer = Refused("PstLimitError") /\ Exceeds(itemsSeen, MaxHeapItems)
    BY DEF AnswerIsFiles
  <1>1. LimitAnswer \/ ItemAnswer \/ KeyAnswer
    BY DEF LookInv
  <1>2. CASE LimitAnswer
    BY <1>2 DEF LimitAnswer
  <1>3. CASE ItemAnswer
    BY <1>3 DEF ItemAnswer
  <1>4. CASE KeyAnswer
    <2>1. PICK k \in Keys : /\ asked.kind = "key" /\ asked.key = k
                            /\ IF root = NullHid THEN answer = Absent
                               ELSE \E d \in Seq(Hid) : Leads(d, k) /\ Ends(d, k, answer)
      BY <1>4 DEF KeyAnswer
    <2>2. CASE root = NullHid
      BY <2>1, <2>2 DEF Descent
    <2>3. CASE root # NullHid
      <3>1. PICK a : a = answer
        OBVIOUS
      <3>2. PICK d \in Seq(Hid) : Leads(d, k) /\ Ends(d, k, a)
        BY <2>1, <2>3, <3>1
      <3>3. a = Descent(k)
        BY <2>3, <3>2, DescentFollows
      <3>. QED  BY <2>1, <3>1, <3>3
    <2>. QED  BY <2>2, <2>3
  <1>. QED  BY <1>1, <1>2, <1>3, <1>4

-----------------------------------------------------------------------------
(* The tree below the root, unfolded level by level.                       *)
PageItem == [hid : Hid, level : Int]
Kids == [h \in Hid |-> ChildrenOnDisk(h)]
Here == [n \in Nat |-> [h \in Hid |-> [hid |-> h, level |-> levels - n]]]

KidsIn(bs, h) ==
    IF /\ /\ h.block < Len(bs) /\ bs[h.block + 1].kind = "map"
          /\ ~(\/ h.index \notin DOMAIN bs[h.block + 1].items
               \/ bs[h.block + 1].items[h.index].kind = "freed")
       /\ bs[h.block + 1].items[h.index].index.kind = "rows"
    THEN [i \in DOMAIN bs[h.block + 1].items[h.index].index.rows |->
            bs[h.block + 1].items[h.index].index.rows[i].child]
    ELSE <<>>
IsUnfoldedIn(bs, lv, under) ==
    under = [n \in 0..lv |->
                [x \in Hid |->
                    <<[hid |-> x, level |-> lv - n]>> \o
                    (IF n = 0 THEN <<>>
                     ELSE FlattenSeq([i \in DOMAIN KidsIn(bs, x) |-> under[n - 1][KidsIn(bs, x)[i]]]))]]
UnfoldedIn(bs, lv) == CHOOSE under : IsUnfoldedIn(bs, lv, under)
Unfolded == UnfoldedIn(blocks, levels)
Whole == Unfolded[levels][root]

LEMMA OccurrencesAre ==
    ASSUME NEW h, NEW l
    PROVE  Occurrences(h, l) = Unfolded[levels - l][h]
  BY DEF Occurrences, Unfolded, UnfoldedIn, IsUnfoldedIn, KidsIn, ChildrenOnDisk, ChildrenOf, IndexRows,
         ItemOnDisk, ItemAt, BlockOf, HasBlock, Dangling

LEMMA UnfoldedStays ==
    ASSUME UNCHANGED <<blocks, levels, root>>
    PROVE  Unfolded' = Unfolded /\ Whole' = Whole
  <1>1. Unfolded' = Unfolded
    BY DEF Unfolded
  <1>. QED  BY <1>1 DEF Whole

LEMMA ChildrenType ==
    ASSUME TypesOK
    PROVE  /\ Kids \in [Hid -> Seq(Hid)]
           /\ \A h \in Hid : /\ Kids[h] = ChildrenOnDisk(h) /\ ChildrenOnDisk(h) \in Seq(Hid)
                             /\ \A l : PageOnDisk(h, l) /\ l # levels =>
                                   Kids[h] = ChildrenOf(IndexRows(h))
  <1>1. ASSUME NEW h \in Hid PROVE ChildrenOnDisk(h) \in Seq(Hid)
    <2>1. CASE ItemOnDisk(h) /\ ItemAt(h).index.kind = "rows"
      <3>1. PICK l : l = levels + 1
        OBVIOUS
      <3>2. levels \in Nat
        BY HeapLimitsAssumption DEF TypesOK
      <3>3. l # levels /\ PageOnDisk(h, l)
        BY <2>1, <3>1, <3>2 DEF PageOnDisk, PageView
      <3>4. PICK rows \in Seq(IndexRecord) :
               rows = IndexRows(h) /\ \A i \in 1..Len(rows) : rows[i].child \in Hid
        BY <3>3, OnDiskRows
      <3>5. DOMAIN rows = 1..Len(rows) /\ Len(rows) \in Nat
        BY LenProperties
      <3>6. ChildrenOf(rows) \in [1..Len(rows) -> Hid]
        BY <3>4, <3>5 DEF ChildrenOf
      <3>7. ChildrenOf(rows) \in Seq(Hid)
        BY <3>5, <3>6
      <3>. QED  BY <2>1, <3>4, <3>7 DEF ChildrenOnDisk
    <2>2. CASE ~(ItemOnDisk(h) /\ ItemAt(h).index.kind = "rows")
      <3>1. ChildrenOnDisk(h) = <<>>
        BY <2>2 DEF ChildrenOnDisk
      <3>. QED  BY <3>1, EmptySeq
    <2>. QED  BY <2>1, <2>2
  <1>2. ASSUME NEW h \in Hid, NEW l, PageOnDisk(h, l), l # levels
        PROVE  ChildrenOnDisk(h) = ChildrenOf(IndexRows(h))
    BY <1>2 DEF PageOnDisk, PageView, ChildrenOnDisk
  <1>. QED  BY <1>1, <1>2 DEF Kids

LEMMA HereIs ==
    ASSUME TypesOK
    PROVE  /\ levels \in Nat /\ Here \in [Nat -> [Hid -> PageItem]]
           /\ \A n \in Nat, h \in Hid : Here[n][h] = [hid |-> h, level |-> levels - n]
  <1>1. levels \in Nat
    BY HeapLimitsAssumption DEF TypesOK
  <1>2. \A n \in Nat, h \in Hid : [hid |-> h, level |-> levels - n] \in PageItem
    BY <1>1 DEF PageItem
  <1>. QED  BY <1>1, <1>2 DEF Here

LEMMA Unfolds ==
    ASSUME TypesOK
    PROVE  IsUnfolded(Unfolded, Hid, Kids, Here, levels)
  <1>1. levels \in Nat /\ \A n \in 0..levels : n \in Nat
    BY HereIs
  <1>2. \A h : ChildrenOnDisk(h) = KidsIn(blocks, h)
    BY DEF KidsIn, ChildrenOnDisk, ChildrenOf, IndexRows, ItemOnDisk, ItemAt, BlockOf, HasBlock, Dangling
  <1>3. ASSUME NEW t PROVE IsUnfoldedIn(blocks, levels, t) <=> IsUnfolded(t, Hid, Kids, Here, levels)
    <2>1. ASSUME NEW n \in 0..levels, NEW h \in Hid
          PROVE  <<[hid |-> h, level |-> levels - n]>> \o
                    (IF n = 0 THEN <<>>
                     ELSE FlattenSeq([i \in DOMAIN KidsIn(blocks, h) |-> t[n - 1][KidsIn(blocks, h)[i]]]))
                 = <<Here[n][h]>> \o (IF n = 0 THEN <<>> ELSE Spread(Kids[h], t[n - 1]))
      <3>1. Here[n][h] = [hid |-> h, level |-> levels - n]
        BY <1>1, HereIs
      <3>2. Kids[h] = KidsIn(blocks, h)
        BY <1>2 DEF Kids
      <3>. QED  BY <3>1, <3>2 DEF Spread, Mapped
    <2>. QED  BY <2>1 DEF IsUnfoldedIn, IsUnfolded
  <1>4. \E t : IsUnfolded(t, Hid, Kids, Here, levels)
    BY HereIs, ChildrenType, UnfoldingExists
  <1>5. IsUnfoldedIn(blocks, levels, Unfolded)
    BY <1>3, <1>4 DEF Unfolded, UnfoldedIn
  <1>. QED  BY <1>3, <1>5

LEMMA UnfoldedIs ==
    ASSUME TypesOK
    PROVE  /\ Unfolded \in [0..levels -> [Hid -> Seq(PageItem)]]
           /\ \A h \in Hid : Unfolded[0][h] = <<[hid |-> h, level |-> levels]>>
           /\ \A n \in 1..levels, h \in Hid :
                 /\ n - 1 \in 0..levels /\ Unfolded[n - 1] \in [Hid -> Seq(PageItem)]
                 /\ Unfolded[n][h] = <<[hid |-> h, level |-> levels - n]>> \o Spread(Kids[h], Unfolded[n - 1])
                 /\ Spread(Kids[h], Unfolded[n - 1]) \in Seq(PageItem)
  <1>1. levels \in Nat /\ 0 \in Nat /\ levels - 0 = levels /\ \A n \in 1..levels : n \in Nat
    BY HereIs
  <1>2. /\ Unfolded \in [0..levels -> [Hid -> Seq(PageItem)]]
        /\ \A h \in Hid : Unfolded[0][h] = <<Here[0][h]>>
        /\ \A n \in 1..levels, h \in Hid :
              /\ n - 1 \in 0..levels /\ Unfolded[n - 1] \in [Hid -> Seq(PageItem)]
              /\ Unfolded[n][h] = <<Here[n][h]>> \o Spread(Kids[h], Unfolded[n - 1])
              /\ Spread(Kids[h], Unfolded[n - 1]) \in Seq(PageItem)
    BY Unfolds, HereIs, ChildrenType, UnfoldingIs
  <1>3. \A h \in Hid : Here[0][h] = [hid |-> h, level |-> levels]
    BY <1>1, HereIs
  <1>4. \A n \in 1..levels, h \in Hid : Here[n][h] = [hid |-> h, level |-> levels - n]
    BY <1>1, HereIs
  <1>. QED  BY <1>2, <1>3, <1>4

(* The records of a page that is a leaf, and of the pages from one on.     *)
RowsAt == [x \in PageItem |-> IF x.level = levels /\ PageOnDisk(x.hid, levels)
                              THEN ItemAt(x.hid).leaf.rows ELSE <<>>]

LEMMA RowsAtIs ==
    ASSUME TypesOK
    PROVE  /\ RowsAt \in [PageItem -> Seq(LeafRecord)]
           /\ \A s \in Seq(PageItem) : /\ RecordsBelow(s) = Spread(s, RowsAt)
                                       /\ RecordsBelow(s) \in Seq(LeafRecord)
  <1>1. ASSUME NEW x \in PageItem
        PROVE  (IF x.level = levels /\ PageOnDisk(x.hid, levels)
                THEN ItemAt(x.hid).leaf.rows ELSE <<>>) \in Seq(LeafRecord)
    <2>1. x.hid \in Hid
      BY DEF PageItem
    <2>. QED  BY <2>1, OnDiskRows, EmptySeq
  <1>2. RowsAt \in [PageItem -> Seq(LeafRecord)]
    BY <1>1 DEF RowsAt
  <1>3. ASSUME NEW s \in Seq(PageItem)
        PROVE  RecordsBelow(s) = Spread(s, RowsAt) /\ RecordsBelow(s) \in Seq(LeafRecord)
    <2>1. \A i \in DOMAIN s : s[i] \in PageItem
      BY LenProperties, ElementOfSeq
    <2>2. Mapped(s, RowsAt) = [i \in DOMAIN s |-> IF s[i].level = levels /\ PageOnDisk(s[i].hid, levels)
                                                 THEN ItemAt(s[i].hid).leaf.rows ELSE <<>>]
      BY <2>1 DEF Mapped, RowsAt
    <2>3. RecordsBelow(s) = Spread(s, RowsAt)
      BY <2>2 DEF RecordsBelow, Spread
    <2>. QED  BY <1>2, <2>3, SpreadType
  <1>. QED  BY <1>2, <1>3

LEMMA RowsAtStays ==
    ASSUME UNCHANGED <<blocks, levels, root>>
    PROVE  RowsAt' = RowsAt
  <1>1. \A h : PageOnDisk(h, levels)' <=> PageOnDisk(h, levels)
    BY DEF PageOnDisk, PageView, ItemOnDisk, HasBlock, BlockOf, Dangling, ItemAt
  <1>2. \A h : ItemAt(h)' = ItemAt(h)
    BY DEF ItemAt, BlockOf
  <1>. QED  BY <1>1, <1>2 DEF RowsAt

-----------------------------------------------------------------------------
(* A sequence W is the members of a set D, each once, and those of B and   *)
(* T; what R gives for it is o and then what it gives for B and for T.     *)
CutsWell(W, B, T, o, D, R) ==
    /\ ToSet(W) = D \cup ToSet(B) \cup ToSet(T)
    /\ Len(W) = Cardinality(D) + Len(B) + Len(T)
    /\ Spread(W, R) = o \o (Spread(B, R) \o Spread(T, R))

(* Without a page's own records, or without anything before them, what is  *)
(* in three parts is in two.                                               *)
Joins(L, o, rb, rk, rt, rx) ==
    /\ rx = <<>> => o \o (rb \o ((rx \o rk) \o rt)) = o \o ((rb \o rk) \o rt)
    /\ rb = <<>> /\ rk = <<>> => o \o (rb \o ((rx \o rk) \o rt)) = (o \o rx) \o (rb \o rt)

LEMMA CutsJoin ==
    ASSUME NEW L, NEW o \in Seq(L), NEW rb \in Seq(L), NEW rk \in Seq(L), NEW rt \in Seq(L),
           NEW rx \in Seq(L)
    PROVE  Joins(L, o, rb, rk, rt, rx)
  <1>1. (rb \o rk) \o rt = rb \o (rk \o rt)
    BY ConcatAssociative, SMTT(30)
  <1>2. (o \o rx) \o rt = o \o (rx \o rt)
    BY ConcatAssociative, SMTT(30)
  <1>3. rx = <<>> => rx \o rk = rk
    BY ConcatEmptySeq
  <1>4. (rb = <<>> => rb \o rt = rt) /\ (rk = <<>> => rx \o rk = rx)
    BY ConcatEmptySeq
  <1>5. rx \o rt \in Seq(L)
    BY ConcatProperties
  <1>6. rb = <<>> => rb \o (rx \o rt) = rx \o rt
    BY <1>5, ConcatEmptySeq
  <1>. QED  BY <1>1, <1>2, <1>3, <1>4, <1>6 DEF Joins

(* Q is x, then K, then T. *)
Opens(Q, x, K, T, R) ==
    /\ ToSet(Q) = {x} \cup ToSet(K) \cup ToSet(T) /\ Len(Q) = 1 + Len(K) + Len(T)
    /\ Spread(Q, R) = (R[x] \o Spread(K, R)) \o Spread(T, R)

LEMMA RowIs ==
    ASSUME NEW I, NEW L, NEW R \in [I -> Seq(L)], NEW K \in Seq(I), NEW T \in Seq(I), NEW x \in I
    PROVE  Opens((<<x>> \o K) \o T, x, K, T, R)
  <1>1. PICK one \in Seq(I) : one = <<x>> /\ Len(one) = 1 /\ ToSet(one) = {x} /\ Spread(one, R) = R[x]
    <2>1. <<x>> \in Seq(I) /\ Len(<<x>>) = 1 /\ DOMAIN <<x>> = 1..1 /\ <<x>>[1] = x
      OBVIOUS
    <2>2. ToSet(<<x>>) = {x}
      <3>1. 1..1 = {1}
        OBVIOUS
      <3>. QED  BY <2>1, <3>1 DEF ToSet
    <2>3. Spread(<<x>>, R) = R[x]
      BY SpreadOne
    <2>. QED  BY <2>1, <2>2, <2>3
  <1>2. PICK P \in Seq(I) : P = one \o K
    BY ConcatProperties
  <1>3. Len(P) = 1 + Len(K) /\ ToSet(P) = {x} \cup ToSet(K) /\ Spread(P, R) = R[x] \o Spread(K, R)
    <2>1. ToSet(one \o K) = ToSet(one) \cup ToSet(K)
      BY PushMembers
    <2>2. Len(one \o K) = Len(one) + Len(K)
      BY ConcatProperties
    <2>3. Spread(one \o K, R) = Spread(one, R) \o Spread(K, R)
      BY SpreadConcat
    <2>. QED  BY <1>1, <1>2, <2>1, <2>2, <2>3
  <1>4. /\ ToSet(P \o T) = ToSet(P) \cup ToSet(T) /\ Len(P \o T) = Len(P) + Len(T)
        /\ Spread(P \o T, R) = Spread(P, R) \o Spread(T, R)
    <2>1. ToSet(P \o T) = ToSet(P) \cup ToSet(T)
      BY PushMembers
    <2>2. Len(P \o T) = Len(P) + Len(T)
      BY ConcatProperties
    <2>3. Spread(P \o T, R) = Spread(P, R) \o Spread(T, R)
      BY SpreadConcat
    <2>. QED  BY <2>1, <2>2, <2>3
  <1>. QED  BY <1>1, <1>2, <1>3, <1>4 DEF Opens

LEMMA CutMovesAlong ==
    ASSUME NEW I, NEW L, NEW R \in [I -> Seq(L)], NEW W, NEW B \in Seq(I), NEW K \in Seq(I),
           NEW T \in Seq(I), NEW x \in I, NEW o \in Seq(L), NEW D, IsFiniteSet(D), x \notin D,
           NEW Q, Opens(Q, x, K, T, R), CutsWell(W, B, Q, o, D, R)
    PROVE  /\ IsFiniteSet(D \cup {x}) /\ Cardinality(D \cup {x}) = Cardinality(D) + 1
           /\ R[x] = <<>> => CutsWell(W, B \o K, T, o, D \cup {x}, R)
           /\ B = <<>> /\ K = <<>> => CutsWell(W, B, T, o \o R[x], D \cup {x}, R)
  <1>1. /\ IsFiniteSet(D \cup {x}) /\ Cardinality(D \cup {x}) = Cardinality(D) + 1
        /\ Cardinality(D) \in Nat
    BY FS_AddElement, FS_CardinalityType
  <1>2. PICK rb \in Seq(L), rk \in Seq(L), rt \in Seq(L), rx \in Seq(L) :
           rb = Spread(B, R) /\ rk = Spread(K, R) /\ rt = Spread(T, R) /\ rx = R[x]
    BY SpreadType
  <1>3. PICK C \in Seq(I) : /\ C = B \o K /\ Len(C) = Len(B) + Len(K)
                            /\ ToSet(C) = ToSet(B) \cup ToSet(K) /\ Spread(C, R) = rb \o rk
    <2>1. B \o K \in Seq(I) /\ ToSet(B \o K) = ToSet(B) \cup ToSet(K)
      BY PushMembers
    <2>2. Len(B \o K) = Len(B) + Len(K)
      BY ConcatProperties
    <2>3. Spread(B \o K, R) = Spread(B, R) \o Spread(K, R)
      BY SpreadConcat, ZenonT(60)
    <2>. QED  BY <1>2, <2>1, <2>2, <2>3
  <1>4. /\ ToSet(W) = D \cup ToSet(B) \cup ({x} \cup ToSet(K) \cup ToSet(T))
        /\ Len(W) = Cardinality(D) + Len(B) + (1 + Len(K) + Len(T))
        /\ Spread(W, R) = o \o (rb \o ((rx \o rk) \o rt))
    BY <1>2 DEF CutsWell, Opens
  <1>5. Len(B) \in Nat /\ Len(K) \in Nat /\ Len(T) \in Nat
    BY LenProperties
  <1>6. Joins(L, o, rb, rk, rt, rx)
    BY CutsJoin
  <1>7. ASSUME rx = <<>> PROVE CutsWell(W, C, T, o, D \cup {x}, R)
    <2>1. ToSet(W) = (D \cup {x}) \cup ToSet(C) \cup ToSet(T)
      BY <1>3, <1>4
    <2>2. Len(W) = Cardinality(D \cup {x}) + Len(C) + Len(T)
      BY <1>1, <1>3, <1>4, <1>5
    <2>3. Spread(W, R) = o \o (Spread(C, R) \o Spread(T, R))
      BY <1>2, <1>3, <1>4, <1>6, <1>7 DEF Joins
    <2>. QED  BY <2>1, <2>2, <2>3 DEF CutsWell
  <1>8. ASSUME B = <<>>, K = <<>> PROVE CutsWell(W, B, T, o \o rx, D \cup {x}, R)
    <2>1. ToSet(B) = {} /\ ToSet(K) = {} /\ Len(B) = 0 /\ Len(K) = 0 /\ rb = <<>> /\ rk = <<>>
      BY <1>2, <1>8, SpreadEmpty, EmptySeq DEF ToSet
    <2>2. ToSet(W) = (D \cup {x}) \cup ToSet(B) \cup ToSet(T)
      BY <1>4, <2>1
    <2>3. Len(W) = Cardinality(D \cup {x}) + Len(B) + Len(T)
      BY <1>1, <1>4, <1>5, <2>1
    <2>4. Spread(W, R) = (o \o rx) \o (Spread(B, R) \o Spread(T, R))
      BY <1>2, <1>4, <1>6, <2>1 DEF Joins
    <2>. QED  BY <2>2, <2>3, <2>4 DEF CutsWell
  <1>. QED  BY <1>1, <1>2, <1>3, <1>7, <1>8

LEMMA CutMoves ==
    ASSUME NEW I, NEW L, NEW R \in [I -> Seq(L)], NEW W, NEW B \in Seq(I), NEW K \in Seq(I),
           NEW T \in Seq(I), NEW x \in I, NEW o \in Seq(L), NEW D, IsFiniteSet(D), x \notin D,
           CutsWell(W, B, (<<x>> \o K) \o T, o, D, R)
    PROVE  /\ IsFiniteSet(D \cup {x}) /\ Cardinality(D \cup {x}) = Cardinality(D) + 1
           /\ R[x] = <<>> => CutsWell(W, B \o K, T, o, D \cup {x}, R)
           /\ B = <<>> /\ K = <<>> => CutsWell(W, B, T, o \o R[x], D \cup {x}, R)
  <1>1. PICK Q : Q = (<<x>> \o K) \o T /\ Opens(Q, x, K, T, R)
    BY RowIs
  <1>. QED  BY <1>1, CutMovesAlong

-----------------------------------------------------------------------------
(* The pages a sequence of occurrences names. *)
HidsOf(s) == {s[i].hid : i \in 1..Len(s)}

LEMMA HidsCount ==
    ASSUME NEW s \in Seq(PageItem)
    PROVE  /\ IsFiniteSet(HidsOf(s)) /\ Cardinality(HidsOf(s)) \in Nat
           /\ Cardinality(HidsOf(s)) <= Len(s)
           /\ Cardinality(HidsOf(s)) = Len(s) <=> IsInjective([i \in DOMAIN s |-> s[i].hid])
           /\ HidsOf(s) = {x.hid : x \in ToSet(s)}
  <1>1. PICK n \in Nat : n = Len(s) /\ DOMAIN s = 1..n
    BY LenProperties
  <1>2. PICK f : f = [i \in 1..n |-> s[i].hid]
    OBVIOUS
  <1>3. f \in Surjection(1..n, HidsOf(s))
    <2>1. f \in [1..n -> HidsOf(s)]
      BY <1>1, <1>2 DEF HidsOf
    <2>2. \A h \in HidsOf(s) : \E i \in 1..n : f[i] = h
      BY <1>1, <1>2 DEF HidsOf
    <2>. QED  BY <2>1, <2>2 DEF Surjection
  <1>4. IsFiniteSet(1..n) /\ Cardinality(1..n) = n
    <2>1. 1 \in Int /\ n \in Int
      OBVIOUS
    <2>2. IsFiniteSet(1..n) /\ Cardinality(1..n) = IF 1 > n THEN 0 ELSE n - 1 + 1
      BY <2>1, FS_Interval
    <2>. QED  BY <2>2
  <1>5. /\ IsFiniteSet(HidsOf(s)) /\ Cardinality(HidsOf(s)) <= Cardinality(1..n)
        /\ Cardinality(HidsOf(s)) = Cardinality(1..n) <=> f \in Injection(1..n, HidsOf(s))
    BY <1>3, <1>4, FS_Surjection
  <1>6. f \in Injection(1..n, HidsOf(s)) <=> IsInjective(f)
    <2>1. f \in [1..n -> HidsOf(s)]
      BY <1>3 DEF Surjection
    <2>. QED  BY <2>1 DEF Injection, IsInjective
  <1>7. HidsOf(s) = {x.hid : x \in ToSet(s)}
    <2>1. ToSet(s) = {s[i] : i \in 1..n}
      BY <1>1 DEF ToSet
    <2>. QED  BY <1>1, <2>1 DEF HidsOf
  <1>. QED  BY <1>1, <1>2, <1>4, <1>5, <1>6, <1>7, FS_CardinalityType

-----------------------------------------------------------------------------
(* What an iteration has still to read of the level it is on, and of the   *)
(* next one, each page with all that is below it.                          *)
RowPart == Spread(row, Unfolded[levels - level])
BelowPart == IF below = <<>> THEN <<>> ELSE Spread(below, Unfolded[levels - level - 1])

OnDisk == {x \in PageItem : PageOnDisk(x.hid, x.level)}

(* The pages D it has read, v by name, are pages on disk, no name twice.   *)
CutAs(D, v, G, W, B, T, o, R) ==
    /\ D \in SUBSET G /\ IsFiniteSet(D)
    /\ v = {x.hid : x \in D} /\ IsFiniteSet(v) /\ Cardinality(v) = Cardinality(D)
    /\ CutsWell(W, B, T, o, D, R)

Cut(D) == CutAs(D, visited, OnDisk, Whole, BelowPart, RowPart, out, RowsAt)

(* Why a refused iteration cannot go on. *)
Stuck ==
    \/ Exceeds(itemsSeen, MaxHeapItems)
    \/ /\ row # <<>>
       /\ \/ AddRefused(visited, Head(row), MaxItems)
          \/ ~PageOnDisk(Head(row), level)
          \/ level = levels /\ PageOnDisk(Head(row), level) /\ RecordsRefused(Head(row))
    \/ level < levels /\ Exceeds(Len(below), MaxItems)

IterInv ==
    /\ ipc = "new" => row = <<>> /\ below = <<>> /\ out = <<>>
    /\ level = levels => below = <<>>
    /\ Len(out) <= MaxItems /\ IsFiniteSet(visited) /\ Cardinality(visited) <= MaxItems
    /\ ipc # "new" /\ root = NullHid => ipc = "done" /\ out = <<>>
    /\ ipc # "new" /\ root # NullHid => \E D : Cut(D)
    /\ ipc = "done" /\ root # NullHid => row = <<>> /\ level = levels
    /\ ipc = "refused" => Stuck

-----------------------------------------------------------------------------
LEMMA PartsType ==
    ASSUME TypesOK, level = levels => below = <<>>
    PROVE  /\ levels \in Nat /\ level \in Nat /\ level <= levels /\ levels - level \in 0..levels
           /\ level < levels => levels - level \in 1..levels /\ levels - level - 1 \in 0..levels
           /\ level = levels => levels - level = 0
           /\ RowPart \in Seq(PageItem) /\ BelowPart \in Seq(PageItem) /\ Whole \in Seq(PageItem)
           /\ RowsAt \in [PageItem -> Seq(LeafRecord)]
  <1>1. levels \in Nat /\ level \in 0..levels /\ row \in Seq(Hid) /\ below \in Seq(Hid) /\ root \in Hid
    BY HereIs DEF TypesOK
  <1>2. /\ level \in Nat /\ level <= levels /\ levels - level \in 0..levels
        /\ level < levels => levels - level \in 1..levels /\ levels - level - 1 \in 0..levels
        /\ level = levels => levels - level = 0 /\ levels \in 0..levels
    BY <1>1
  <1>3. Unfolded \in [0..levels -> [Hid -> Seq(PageItem)]]
    BY UnfoldedIs
  <1>4. RowPart \in Seq(PageItem)
    <2>1. Unfolded[levels - level] \in [Hid -> Seq(PageItem)]
      BY <1>2, <1>3
    <2>. QED  BY <1>1, <2>1, SpreadType DEF RowPart
  <1>5. BelowPart \in Seq(PageItem)
    <2>1. CASE below = <<>>
      BY <2>1, EmptySeq DEF BelowPart
    <2>2. CASE below # <<>>
      <3>1. level < levels
        BY <1>1, <2>2
      <3>2. Unfolded[levels - level - 1] \in [Hid -> Seq(PageItem)]
        BY <1>2, <1>3, <3>1
      <3>. QED  BY <1>1, <2>2, <3>2, SpreadType DEF BelowPart
    <2>. QED  BY <2>1, <2>2
  <1>6. Whole \in Seq(PageItem)
    <2>1. levels \in 0..levels
      BY <1>1
    <2>. QED  BY <1>1, <1>3, <2>1 DEF Whole
  <1>. QED  BY <1>1, <1>2, <1>4, <1>5, <1>6, RowsAtIs

(* The first page of the row, with all that is below it.                   *)
LEMMA RowOpens ==
    ASSUME TypesOK, row # <<>>, level = levels => below = <<>>,
           NEW p, p = Head(row), NEW x, x = [hid |-> p, level |-> level]
    PROVE  /\ x \in PageItem /\ p \in Hid
           /\ \E K \in Seq(PageItem), T \in Seq(PageItem) :
                 /\ RowPart = (<<x>> \o K) \o T
                 /\ T = Spread(Tail(row), Unfolded[levels - level])
                 /\ level < levels => K = Spread(Kids[p], Unfolded[levels - level - 1])
                 /\ level = levels => K = <<>>
  <1>1. /\ levels \in Nat /\ level \in Nat /\ level <= levels /\ levels - level \in 0..levels
        /\ level < levels => levels - level \in 1..levels /\ levels - level - 1 \in 0..levels
        /\ level = levels => levels - level = 0
    BY PartsType
  <1>2. row \in Seq(Hid) /\ p \in Hid /\ Tail(row) \in Seq(Hid)
    BY PopProperties DEF TypesOK
  <1>3. x \in PageItem
    BY <1>1, <1>2 DEF PageItem
  <1>4. PICK n \in 0..levels : n = levels - level /\ levels - n = level
    BY <1>1
  <1>5. PICK w \in [Hid -> Seq(PageItem)] : w = Unfolded[n]
    BY UnfoldedIs
  <1>6. PICK T \in Seq(PageItem) : T = Spread(Tail(row), w)
    BY <1>2, SpreadType
  <1>7. RowPart = w[p] \o T
    BY <1>2, <1>4, <1>5, <1>6, SpreadHead DEF RowPart
  <1>8. PICK K \in Seq(PageItem) : /\ w[p] = <<x>> \o K
                                   /\ level < levels => K = Spread(Kids[p], Unfolded[levels - level - 1])
                                   /\ level = levels => K = <<>>
    <2>1. CASE level < levels
      <3>1. n \in 1..levels /\ n - 1 = levels - level - 1
        BY <1>1, <1>4, <2>1
      <3>2. /\ w[p] = <<[hid |-> p, level |-> levels - n]>> \o Spread(Kids[p], Unfolded[n - 1])
            /\ Spread(Kids[p], Unfolded[n - 1]) \in Seq(PageItem)
        BY <1>2, <1>5, <3>1, UnfoldedIs
      <3>. QED  BY <1>1, <1>4, <2>1, <3>1, <3>2
    <2>2. CASE level = levels
      <3>1. w[p] = <<x>>
        BY <1>1, <1>2, <1>4, <1>5, <2>2, UnfoldedIs
      <3>2. <<x>> \in Seq(PageItem) /\ <<>> \in Seq(PageItem)
        BY <1>3, EmptySeq
      <3>3. <<x>> \o <<>> = <<x>>
        BY <3>2, ConcatEmptySeq
      <3>4. w[p] = <<x>> \o <<>> /\ ~(level < levels)
        BY <1>1, <2>2, <3>1, <3>3
      <3>. QED  BY <3>2, <3>4
    <2>3. level < levels \/ level = levels
      BY <1>1
    <2>. QED  BY <2>1, <2>2, <2>3
  <1>. QED  BY <1>2, <1>3, <1>4, <1>5, <1>6, <1>7, <1>8

(* Reading a page moves it, and what it holds, out of what is to be read.  *)
LEMMA CutAdds ==
    ASSUME NEW G \in SUBSET PageItem, NEW R \in [PageItem -> Seq(LeafRecord)], NEW W, NEW v,
           NEW B \in Seq(PageItem), NEW K \in Seq(PageItem), NEW T \in Seq(PageItem), NEW x \in G,
           NEW o \in Seq(LeafRecord), NEW D, x.hid \notin v,
           CutAs(D, v, G, W, B, (<<x>> \o K) \o T, o, R)
    PROVE  /\ R[x] = <<>> => CutAs(D \cup {x}, v \cup {x.hid}, G, W, B \o K, T, o, R)
           /\ B = <<>> /\ K = <<>> =>
                 CutAs(D \cup {x}, v \cup {x.hid}, G, W, B, T, o \o R[x], R)
  <1>1. /\ D \in SUBSET G /\ IsFiniteSet(D) /\ v = {y.hid : y \in D} /\ IsFiniteSet(v)
        /\ Cardinality(v) = Cardinality(D) /\ CutsWell(W, B, (<<x>> \o K) \o T, o, D, R)
    BY DEF CutAs
  <1>2. x \notin D /\ x \in PageItem
    BY <1>1
  <1>3. /\ IsFiniteSet(D \cup {x}) /\ Cardinality(D \cup {x}) = Cardinality(D) + 1
        /\ R[x] = <<>> => CutsWell(W, B \o K, T, o, D \cup {x}, R)
        /\ B = <<>> /\ K = <<>> => CutsWell(W, B, T, o \o R[x], D \cup {x}, R)
    BY <1>1, <1>2, CutMoves
  <1>4. IsFiniteSet(v \cup {x.hid}) /\ Cardinality(v \cup {x.hid}) = Cardinality(v) + 1
    BY <1>1, FS_AddElement
  <1>5. v \cup {x.hid} = {y.hid : y \in D \cup {x}}
    BY <1>1
  <1>. QED  BY <1>1, <1>3, <1>4, <1>5 DEF CutAs

(* A row read: what was below it is the next one. *)
LEMMA CutSinks ==
    ASSUME NEW G, NEW R \in [PageItem -> Seq(LeafRecord)], NEW W, NEW v,
           NEW B \in Seq(PageItem), NEW o, NEW D, CutAs(D, v, G, W, B, <<>>, o, R)
    PROVE  CutAs(D, v, G, W, <<>>, B, o, R)
  <1>1. ToSet(<<>>) = {} /\ Len(<<>>) = 0 /\ Spread(<<>>, R) = <<>>
    BY SpreadEmpty, EmptySeq DEF ToSet
  <1>2. PICK b \in Seq(LeafRecord) : b = Spread(B, R)
    BY SpreadType
  <1>3. b \o <<>> = b /\ <<>> \o b = b
    BY ConcatEmptySeq
  <1>4. PICK m \in Nat : m = Len(B)
    BY LenProperties
  <1>5. Cardinality(D) \in Nat
    BY FS_CardinalityType DEF CutAs
  <1>6. CutsWell(W, <<>>, B, o, D, R)
    BY <1>1, <1>2, <1>3, <1>4, <1>5 DEF CutAs, CutsWell
  <1>. QED  BY <1>6 DEF CutAs

LEMMA TreeStays ==
    ASSUME UNCHANGED <<blocks, levels, root>>
    PROVE  UNCHANGED <<Unfolded, Whole, RowsAt, OnDisk>>
  <1>1. \A h, l : PageOnDisk(h, l)' <=> PageOnDisk(h, l)
    BY FileStays
  <1>2. OnDisk' = OnDisk
    BY <1>1 DEF OnDisk
  <1>. QED  BY <1>2, UnfoldedStays, RowsAtStays

(* Whatever does not take the iteration further leaves it what it was.     *)
LEMMA CutStays ==
    ASSUME UNCHANGED <<blocks, levels, root, level, row, below, visited, out>>
    PROVE  \A D : Cut(D)' <=> Cut(D)
  <1>1. UNCHANGED <<Unfolded, Whole, RowsAt, OnDisk>>
    BY TreeStays
  <1>2. RowPart' = RowPart /\ BelowPart' = BelowPart
    BY <1>1 DEF RowPart, BelowPart
  <1>. QED  BY <1>1, <1>2 DEF Cut

LEMMA StuckStays ==
    ASSUME UNCHANGED <<blocks, levels, root, level, row, below, visited, out>>,
           itemsSeen \in Nat, itemsSeen' \in Nat, itemsSeen' >= itemsSeen, Stuck
    PROVE  Stuck'
  <1>1. MaxHeapItems \in Nat
    BY HeapLimitsAssumption
  <1>2. Exceeds(itemsSeen, MaxHeapItems) => Exceeds(itemsSeen', MaxHeapItems)
    BY <1>1 DEF Exceeds
  <1>3. /\ \A h, l : PageOnDisk(h, l)' <=> PageOnDisk(h, l)
        /\ \A h : ItemAt(h)' = ItemAt(h)
    BY FileStays
  <1>4. \A h : RecordsRefused(h)' <=> RecordsRefused(h)
    BY <1>3 DEF RecordsRefused
  <1>. QED  BY <1>2, <1>3, <1>4 DEF Stuck

LEMMA IterStays ==
    ASSUME HeapInv, IterInv, [Next]_heapvars, UNCHANGED <<tree, iteration>>
    PROVE  IterInv'
  <1>1. /\ UNCHANGED <<blocks, levels, root, level, row, below, visited, out, ipc>>
        /\ itemsSeen \in Nat /\ itemsSeen' \in Nat /\ itemsSeen' >= itemsSeen
    BY EveryStepKeeps, CountGrows DEF HeapInv, HeapTypeOK, TypesOK, tree, iteration
  <1>2. \A D : Cut(D)' <=> Cut(D)
    BY <1>1, CutStays
  <1>3. Stuck => Stuck'
    BY <1>1, StuckStays
  <1>4. NullHid' = NullHid
    BY DEF NullHid
  <1>. QED  BY <1>1, <1>2, <1>3, <1>4 DEF IterInv

LEMMA IterStarts ==
    ASSUME HeapInv, IterInv, StartIteration
    PROVE  IterInv'
  <1>1. /\ TypesOK /\ level = 0 /\ visited = {} /\ ipc = "new"
        /\ row = <<>> /\ below = <<>> /\ out = <<>>
        /\ UNCHANGED <<blocks, levels, root, level, below, visited, out>>
        /\ MaxItems \in Nat /\ Len(out) = 0
    BY HeapLimitsAssumption, EmptySeq
       DEF StartIteration, HeapInv, HeapTypeOK, HeapControl, IterInv, tree, ReadOnly
  <1>2. NullHid' = NullHid /\ IsFiniteSet(visited') /\ Cardinality(visited') <= MaxItems
    BY <1>1 DEF NullHid, IterInv
  <1>3. CASE root = NullHid
    <2>1. ipc' = "done"
      BY <1>3 DEF StartIteration
    <2>. QED  BY <1>1, <1>2, <1>3, <2>1 DEF IterInv
  <1>4. CASE root # NullHid
    <2>1. ipc' \in {"leaf", "index"} /\ row' = <<root>>
      BY <1>4 DEF StartIteration
    <2>2. /\ levels \in Nat /\ levels - 0 = levels /\ levels \in 0..levels
          /\ Whole \in Seq(PageItem) /\ RowsAt \in [PageItem -> Seq(LeafRecord)] /\ root \in Hid
      BY <1>1, PartsType DEF TypesOK
    <2>3. UNCHANGED <<Unfolded, Whole, RowsAt, OnDisk>>
      BY <1>1, TreeStays
    <2>4. RowPart' = Whole
      <3>1. PICK w \in [Hid -> Seq(PageItem)] : w = Unfolded[levels]
        BY <1>1, <2>2, UnfoldedIs
      <3>2. Spread(<<root>>, w) = w[root]
        BY <2>2, SpreadOne
      <3>3. RowPart' = Spread(<<root>>, Unfolded[levels - 0])
        BY <1>1, <2>1, <2>3 DEF RowPart
      <3>. QED  BY <2>2, <3>1, <3>2, <3>3 DEF Whole
    <2>5. BelowPart' = <<>>
      BY <1>1 DEF BelowPart
    <2>6. CutAs({}, {}, OnDisk, Whole, <<>>, Whole, <<>>, RowsAt)
      <3>1. ToSet(<<>>) = {} /\ Len(<<>>) = 0 /\ Spread(<<>>, RowsAt) = <<>>
        BY SpreadEmpty, EmptySeq DEF ToSet
      <3>2. PICK a \in Seq(LeafRecord) : a = Spread(Whole, RowsAt)
        BY <2>2, SpreadType
      <3>3. <<>> \o (<<>> \o a) = a
        BY <3>2, ConcatEmptySeq
      <3>4. IsFiniteSet({}) /\ Cardinality({}) = 0
        BY FS_EmptySet
      <3>5. Len(Whole) \in Nat
        BY <2>2, LenProperties
      <3>6. CutsWell(Whole, <<>>, Whole, <<>>, {}, RowsAt)
        BY <3>1, <3>2, <3>3, <3>4, <3>5 DEF CutsWell
      <3>. QED  BY <3>4, <3>6 DEF CutAs
    <2>7. Cut({})'
      BY <1>1, <2>3, <2>4, <2>5, <2>6 DEF Cut
    <2>. QED  BY <1>1, <1>2, <1>4, <2>1, <2>7 DEF IterInv
  <1>. QED  BY <1>3, <1>4

(* What a page that an iteration reads is. *)
LEMMA PageRead ==
    ASSUME HeapInv, IterInv, row # <<>>, PageRefusal(Head(row), level, visited) = NoError,
           ipc \in {"index", "leaf"}, NEW p, p = Head(row)
    PROVE  /\ p \in Hid /\ PageOnDisk(p, level) /\ p \notin visited /\ root # NullHid
           /\ IsFiniteSet(visited \cup {p}) /\ Cardinality(visited \cup {p}) <= MaxItems
           /\ [hid |-> p, level |-> level] \in OnDisk
  <1>1. /\ p \in Hid /\ level \in Nat /\ HeapTypeOK /\ levels \in Nat /\ MaxItems \in Nat
    BY PopProperties, PartsType, HeapLimitsAssumption DEF HeapInv, HeapTypeOK, TypesOK, IterInv
  <1>2. PageOnDisk(p, level) /\ ~AddRefused(visited, p, MaxItems)
    BY <1>1, PageIsFiles
  <1>3. p \notin visited /\ ~(Cardinality(visited) >= MaxItems) /\ IsFiniteSet(visited)
    BY <1>2 DEF AddRefused, IterInv
  <1>4. /\ IsFiniteSet(visited \cup {p}) /\ Cardinality(visited \cup {p}) = Cardinality(visited) + 1
        /\ Cardinality(visited) \in Nat
    BY <1>3, FS_AddElement, FS_CardinalityType
  <1>5. [hid |-> p, level |-> level] \in OnDisk
    BY <1>1, <1>2 DEF OnDisk, PageItem
  <1>. QED  BY <1>1, <1>2, <1>3, <1>4, <1>5 DEF IterInv

LEMMA IterReadsIndex ==
    ASSUME HeapInv, IterInv, ReadIndexPage
    PROVE  IterInv'
  <1>1. PICK p, x : p = Head(row) /\ x = [hid |-> p, level |-> level]
    OBVIOUS
  <1>2. /\ row # <<>> /\ ipc = "index" /\ ipc' = "index" /\ PageRefusal(p, level, visited) = NoError
        /\ visited' = visited \cup {p} /\ row' = Tail(row)
        /\ below' = below \o ChildrenOf(IndexRows(p))
        /\ UNCHANGED <<blocks, levels, root, level, out>>
        /\ TypesOK /\ level < levels
    BY <1>1 DEF ReadIndexPage, tree, ReadOnly, IndexRows, HeapInv, HeapTypeOK, HeapControl
  <1>3. /\ p \in Hid /\ PageOnDisk(p, level) /\ p \notin visited /\ root # NullHid /\ x \in OnDisk
        /\ IsFiniteSet(visited') /\ Cardinality(visited') <= MaxItems
    BY <1>1, <1>2, PageRead
  <1>4. /\ levels \in Nat /\ level \in Nat /\ level # levels /\ levels - level - 1 \in 0..levels
        /\ BelowPart \in Seq(PageItem) /\ RowsAt \in [PageItem -> Seq(LeafRecord)]
        /\ below \in Seq(Hid) /\ out \in Seq(LeafRecord)
    BY <1>2, PartsType DEF TypesOK, IterInv
  <1>5. PICK K \in Seq(PageItem), T \in Seq(PageItem) :
           /\ RowPart = (<<x>> \o K) \o T
           /\ T = Spread(Tail(row), Unfolded[levels - level])
           /\ K = Spread(Kids[p], Unfolded[levels - level - 1])
    BY <1>1, <1>2, <1>4, RowOpens
  <1>6. PICK D : CutAs(D, visited, OnDisk, Whole, BelowPart, (<<x>> \o K) \o T, out, RowsAt)
    BY <1>2, <1>3, <1>5 DEF IterInv, Cut
  <1>7. RowsAt[x] = <<>>
    BY <1>1, <1>3, <1>4 DEF RowsAt, OnDisk
  <1>8. CutAs(D \cup {x}, visited', OnDisk, Whole, BelowPart \o K, T, out, RowsAt)
    <2>1. x.hid = p /\ OnDisk \in SUBSET PageItem
      BY <1>1 DEF OnDisk
    <2>2. x.hid \notin visited
      BY <1>3, <2>1
    <2>3. CutAs(D \cup {x}, visited \cup {x.hid}, OnDisk, Whole, BelowPart \o K, T, out, RowsAt)
      BY <1>3, <1>4, <1>6, <1>7, <2>1, <2>2, CutAdds
    <2>. QED  BY <1>2, <2>1, <2>3
  <1>9. UNCHANGED <<Unfolded, Whole, RowsAt, OnDisk>>
    BY <1>2, TreeStays
  <1>10. RowPart' = T
    BY <1>2, <1>5, <1>9 DEF RowPart
  <1>11. BelowPart' = BelowPart \o K
    <2>1. Kids[p] = ChildrenOf(IndexRows(p)) /\ Kids[p] \in Seq(Hid)
      BY <1>2, <1>3, <1>4, ChildrenType
    <2>2. PICK u \in [Hid -> Seq(PageItem)] : u = Unfolded[levels - level - 1]
      BY <1>2, <1>4, UnfoldedIs
    <2>3. PICK q \in Seq(Hid) : q = Kids[p] /\ below' = below \o q
      BY <1>2, <2>1
    <2>4. BelowPart = Spread(below, u)
      BY <2>2, SpreadEmpty DEF BelowPart
    <2>5. BelowPart' = Spread(below', u)
      <3>1. BelowPart' = IF below' = <<>> THEN <<>> ELSE Spread(below', u)
        BY <1>2, <1>9, <2>2 DEF BelowPart
      <3>2. Spread(<<>>, u) = <<>>
        BY SpreadEmpty
      <3>. QED  BY <3>1, <3>2
    <2>6. Spread(below \o q, u) = Spread(below, u) \o Spread(q, u)
      BY <1>4, SpreadConcat, ZenonT(60)
    <2>. QED  BY <1>5, <2>2, <2>3, <2>4, <2>5, <2>6
  <1>12. Cut(D \cup {x})'
    BY <1>2, <1>8, <1>9, <1>10, <1>11 DEF Cut
  <1>. QED  BY <1>2, <1>3, <1>4, <1>12 DEF IterInv, NullHid

LEMMA IterSinks ==
    ASSUME HeapInv, IterInv, NextLevel
    PROVE  IterInv'
  <1>1. /\ row = <<>> /\ ipc = "index" /\ ipc' \in {"index", "leaf"} /\ level' = level + 1
        /\ row' = below /\ below' = <<>>
        /\ UNCHANGED <<blocks, levels, root, visited, out>>
        /\ TypesOK /\ level < levels
    BY DEF NextLevel, tree, ReadOnly, HeapInv, HeapTypeOK, HeapControl
  <1>2. /\ levels \in Nat /\ level \in Nat /\ levels - level - 1 \in 0..levels
        /\ levels - level - 1 = levels - (level + 1)
        /\ BelowPart \in Seq(PageItem) /\ RowsAt \in [PageItem -> Seq(LeafRecord)]
    BY <1>1, PartsType DEF IterInv
  <1>3. RowPart = <<>>
    BY <1>1, SpreadEmpty DEF RowPart
  <1>4. PICK D : root # NullHid => CutAs(D, visited, OnDisk, Whole, BelowPart, <<>>, out, RowsAt)
    BY <1>1, <1>3 DEF IterInv, Cut
  <1>5. root # NullHid => CutAs(D, visited, OnDisk, Whole, <<>>, BelowPart, out, RowsAt)
    BY <1>2, <1>4, CutSinks
  <1>6. UNCHANGED <<Unfolded, Whole, RowsAt, OnDisk>>
    BY <1>1, TreeStays
  <1>7. RowPart' = BelowPart
    <2>1. RowPart' = Spread(below, Unfolded[levels - (level + 1)])
      BY <1>1, <1>6 DEF RowPart
    <2>. QED  BY <1>2, <2>1, SpreadEmpty DEF BelowPart
  <1>8. BelowPart' = <<>>
    BY <1>1 DEF BelowPart
  <1>9. root # NullHid => Cut(D)'
    BY <1>1, <1>5, <1>6, <1>7, <1>8 DEF Cut
  <1>. QED  BY <1>1, <1>9 DEF IterInv, NullHid

LEMMA IterReadsLeaf ==
    ASSUME HeapInv, IterInv, ReadLeafPage
    PROVE  IterInv'
  <1>1. PICK p, x, rows : p = Head(row) /\ x = [hid |-> p, level |-> level] /\ rows = ItemAt(p).leaf.rows
    OBVIOUS
  <1>2. /\ row # <<>> /\ ipc = "leaf" /\ ipc' = "leaf" /\ PageRefusal(p, level, visited) = NoError
        /\ visited' = visited \cup {p} /\ row' = Tail(row) /\ out' = out \o rows
        /\ ~Exceeds(Len(out) + Len(rows), MaxItems)
        /\ UNCHANGED <<blocks, levels, root, level, below>>
        /\ TypesOK /\ level = levels /\ below = <<>>
    BY <1>1 DEF ReadLeafPage, RecordsRefused, tree, ReadOnly, HeapInv, HeapTypeOK, HeapControl, IterInv
  <1>3. /\ p \in Hid /\ PageOnDisk(p, level) /\ p \notin visited /\ root # NullHid /\ x \in OnDisk
        /\ IsFiniteSet(visited') /\ Cardinality(visited') <= MaxItems
    BY <1>1, <1>2, PageRead
  <1>4. /\ RowsAt \in [PageItem -> Seq(LeafRecord)] /\ out \in Seq(LeafRecord)
        /\ BelowPart = <<>> /\ <<>> \in Seq(PageItem)
    BY <1>2, PartsType, EmptySeq DEF TypesOK, IterInv, BelowPart
  <1>5. PICK T \in Seq(PageItem) :
           /\ RowPart = (<<x>> \o <<>>) \o T
           /\ T = Spread(Tail(row), Unfolded[levels - level])
    BY <1>1, <1>2, <1>4, RowOpens
  <1>6. PICK D : CutAs(D, visited, OnDisk, Whole, <<>>, (<<x>> \o <<>>) \o T, out, RowsAt)
    BY <1>2, <1>3, <1>4, <1>5 DEF IterInv, Cut
  <1>7. RowsAt[x] = rows /\ rows \in Seq(LeafRecord)
    <2>1. RowsAt[x] = rows
      BY <1>1, <1>2, <1>3 DEF RowsAt, OnDisk
    <2>2. rows \in Seq(LeafRecord)
      BY <1>1, <1>2, <1>3, OnDiskRows
    <2>. QED  BY <2>1, <2>2
  <1>8. CutAs(D \cup {x}, visited', OnDisk, Whole, <<>>, T, out', RowsAt)
    <2>1. x.hid = p /\ OnDisk \in SUBSET PageItem
      BY <1>1 DEF OnDisk
    <2>2. x.hid \notin visited
      BY <1>3, <2>1
    <2>3. CutAs(D \cup {x}, visited \cup {x.hid}, OnDisk, Whole, <<>>, T, out \o RowsAt[x], RowsAt)
      BY <1>3, <1>4, <1>6, <2>1, <2>2, CutAdds
    <2>. QED  BY <1>2, <1>7, <2>1, <2>3
  <1>9. UNCHANGED <<Unfolded, Whole, RowsAt, OnDisk>>
    BY <1>2, TreeStays
  <1>10. RowPart' = T /\ BelowPart' = <<>>
    BY <1>2, <1>5, <1>9 DEF RowPart, BelowPart
  <1>11. Cut(D \cup {x})'
    BY <1>2, <1>8, <1>9, <1>10 DEF Cut
  <1>12. Len(out') <= MaxItems
    <2>1. Len(out') = Len(out) + Len(rows) /\ Len(out) \in Nat /\ Len(rows) \in Nat /\ MaxItems \in Nat
      BY <1>2, <1>4, <1>7, ConcatProperties, LenProperties, HeapLimitsAssumption
    <2>. QED  BY <1>2, <2>1 DEF Exceeds
  <1>. QED  BY <1>2, <1>3, <1>11, <1>12 DEF IterInv, NullHid

LEMMA IterRefused ==
    ASSUME HeapInv, IterInv, RefuseIteration
    PROVE  IterInv'
  <1>1. /\ ipc \in {"index", "leaf"} /\ ipc' = "refused"
        /\ UNCHANGED <<blocks, levels, root, level, row, below, visited, out>>
        /\ HeapTypeOK /\ TypesOK /\ root # NullHid
        /\ ipc = "index" => level < levels
        /\ ipc = "leaf" => level = levels
    BY DEF RefuseIteration, tree, ReadOnly, HeapInv, HeapTypeOK, HeapControl, IterInv
  <1>2. \A D : Cut(D)' <=> Cut(D)
    BY <1>1, CutStays
  <1>3. Stuck'
    <2>1. CASE row = <<>>
      <3>1. ipc = "index" /\ Exceeds(Len(below), MaxItems)
        BY <2>1 DEF RefuseIteration
      <3>. QED  BY <1>1, <3>1 DEF Stuck
    <2>2. CASE row # <<>>
      <3>1. PICK p \in Hid : p = Head(row)
        BY <1>1, <2>2, PopProperties DEF TypesOK
      <3>2. level \in Nat /\ levels \in Nat
        BY <1>1, PartsType DEF IterInv
      <3>3. \A h, l : PageOnDisk(h, l)' <=> PageOnDisk(h, l)
        BY <1>1, FileStays
      <3>4. CASE PageRefusal(p, level, visited) # NoError
        <4>1. CASE AddRefused(visited, p, MaxItems)
          BY <1>1, <2>2, <3>1, <4>1 DEF Stuck
        <4>2. CASE ~AddRefused(visited, p, MaxItems)
          <5>1. Touch(p)
            BY <2>2, <3>1, <4>2 DEF RefuseIteration, TouchPage
          <5>2. ~PageOnDisk(p, level) \/ Exceeds(itemsSeen', MaxHeapItems)
            BY <1>1, <3>2, <3>4, <4>2, <5>1, PageIsFiles
          <5>. QED  BY <1>1, <2>2, <3>1, <3>3, <5>2 DEF Stuck
        <4>. QED  BY <4>1, <4>2
      <3>5. CASE PageRefusal(p, level, visited) = NoError
        <4>1. ipc = "leaf" /\ RecordsRefused(p)
          BY <2>2, <3>1, <3>5 DEF RefuseIteration
        <4>2. PageOnDisk(p, level)
          BY <1>1, <3>2, <3>5, PageIsFiles
        <4>3. RecordsRefused(p)'
          <5>1. ItemAt(p)' = ItemAt(p)
            BY <1>1, FileStays
          <5>. QED  BY <1>1, <4>1, <5>1 DEF RecordsRefused
        <4>. QED  BY <1>1, <2>2, <3>1, <3>3, <4>1, <4>2, <4>3 DEF Stuck
      <3>. QED  BY <3>4, <3>5
    <2>. QED  BY <2>1, <2>2
  <1>. QED  BY <1>1, <1>2, <1>3 DEF IterInv, NullHid

LEMMA IterPreserved ==
    ASSUME HeapInv, IterInv, [Next]_heapvars
    PROVE  IterInv'
  <1>1. CASE Open
    <2>1. /\ ipc = "new" /\ ipc' = "new" /\ UNCHANGED <<level, row, below, visited, out>>
      BY <1>1 DEF Open, iteration, HeapInv, HeapControl
    <2>. QED  BY <2>1 DEF IterInv
  <1>2. CASE UNCHANGED <<tree, iteration>>
    BY <1>2, IterStays
  <1>3. CASE Exhaust
    <2>1. /\ ipc = "leaf" /\ ipc' = "done" /\ row = <<>> /\ level = levels /\ root # NullHid
          /\ UNCHANGED <<blocks, levels, root, level, row, below, visited, out>>
      BY <1>3 DEF Exhaust, tree, ReadOnly, HeapInv, HeapControl, IterInv
    <2>2. \A D : Cut(D)' <=> Cut(D)
      BY <2>1, CutStays
    <2>. QED  BY <2>1, <2>2 DEF IterInv, NullHid
  <1>4. CASE \/ (\E h \in Hid : Get(h)) \/ (\E k \in Keys : Find(k))
             \/ FindRefuses \/ Descend \/ SearchLeaf \/ UNCHANGED heapvars
    BY <1>2, <1>4 DEF Get, Find, FindRefuses, Descend, SearchLeaf, heapvars
  <1>. QED  BY <1>1, <1>3, <1>4, IterStarts, IterReadsIndex, IterSinks, IterReadsLeaf, IterRefused DEF Next

LEMMA PagesAre ==
    ASSUME TypesOK
    PROVE  /\ root # NullHid => Pages = Whole /\ Records = Spread(Whole, RowsAt)
           /\ root = NullHid => Pages = <<>> /\ Records = <<>>
           /\ Pages \in Seq(PageItem) /\ Records \in Seq(LeafRecord)
  <1>1. levels \in Nat /\ levels - 0 = levels /\ Whole \in Seq(PageItem)
    <2>1. levels \in Nat /\ root \in Hid
      BY HereIs DEF TypesOK
    <2>2. levels \in 0..levels /\ levels - 0 = levels
      BY <2>1
    <2>. QED  BY <2>1, <2>2, UnfoldedIs DEF Whole
  <1>2. root # NullHid => Pages = Whole
    BY <1>1, OccurrencesAre DEF Pages, Whole
  <1>3. root = NullHid => Pages = <<>>
    BY DEF Pages
  <1>4. Pages \in Seq(PageItem)
    BY <1>1, <1>2, <1>3, EmptySeq
  <1>5. Records = Spread(Pages, RowsAt) /\ Records \in Seq(LeafRecord)
    BY <1>4, RowsAtIs DEF Records
  <1>6. Spread(<<>>, RowsAt) = <<>>
    BY SpreadEmpty
  <1>. QED  BY <1>2, <1>3, <1>4, <1>5, <1>6

LEMMA AdmissibleIs ==
    ASSUME TypesOK, root # NullHid
    PROVE  Admissible <=> /\ \A x \in ToSet(Whole) : PageOnDisk(x.hid, x.level)
                          /\ Cardinality(HidsOf(Whole)) = Len(Whole)
                          /\ Len(Whole) <= MaxItems /\ Len(Records) <= MaxItems
  <1>1. Pages = Whole /\ Whole \in Seq(PageItem)
    BY PagesAre
  <1>2. Cardinality(HidsOf(Whole)) = Len(Whole) <=> IsInjective([i \in DOMAIN Whole |-> Whole[i].hid])
    BY <1>1, HidsCount
  <1>3. (\A x \in ToSet(Whole) : PageOnDisk(x.hid, x.level))
           <=> \A i \in DOMAIN Whole : PageOnDisk(Whole[i].hid, Whole[i].level)
    BY DEF ToSet
  <1>. QED  BY <1>1, <1>2, <1>3 DEF Admissible

(* All of it read. *)
LEMMA DoneTells ==
    ASSUME TypesOK, IterInv, root # NullHid, row = <<>>, level = levels, NEW D, Cut(D)
    PROVE  Admissible /\ out = Records
  <1>1. /\ D \in SUBSET OnDisk /\ IsFiniteSet(D) /\ visited = {x.hid : x \in D}
        /\ Cardinality(visited) = Cardinality(D) /\ Cardinality(D) \in Nat
        /\ CutsWell(Whole, BelowPart, RowPart, out, D, RowsAt)
    BY FS_CardinalityType DEF Cut, CutAs
  <1>2. RowPart = <<>> /\ BelowPart = <<>>
    BY SpreadEmpty DEF RowPart, BelowPart, IterInv
  <1>3. ToSet(<<>>) = {} /\ Len(<<>>) = 0 /\ Spread(<<>>, RowsAt) = <<>>
    BY SpreadEmpty, EmptySeq DEF ToSet
  <1>4. out \in Seq(LeafRecord) /\ Whole \in Seq(PageItem)
    BY PartsType DEF TypesOK, IterInv
  <1>5. ToSet(Whole) = D /\ Len(Whole) = Cardinality(D)
    BY <1>1, <1>2, <1>3 DEF CutsWell
  <1>6. Spread(Whole, RowsAt) = out
    <2>1. <<>> \o <<>> = <<>> /\ out \o <<>> = out
      BY <1>4, ConcatEmptySeq, EmptySeq
    <2>. QED  BY <1>1, <1>2, <1>3, <2>1 DEF CutsWell
  <1>7. HidsOf(Whole) = visited
    BY <1>1, <1>4, <1>5, HidsCount
  <1>8. \A x \in ToSet(Whole) : PageOnDisk(x.hid, x.level)
    BY <1>1, <1>5 DEF OnDisk
  <1>9. out = Records
    BY <1>6, PagesAre
  <1>. QED  BY <1>1, <1>5, <1>7, <1>8, <1>9, AdmissibleIs DEF IterInv

LEMMA FewerTogether ==
    ASSUME NEW A, NEW C, IsFiniteSet(A), IsFiniteSet(C)
    PROVE  /\ IsFiniteSet(A \cup C) /\ Cardinality(A \cup C) <= Cardinality(A) + Cardinality(C)
           /\ Cardinality(A \cup C) \in Nat
  <1>1. /\ IsFiniteSet(A \cup C)
        /\ Cardinality(A \cup C) = Cardinality(A) + Cardinality(C) - Cardinality(A \cap C)
    BY FS_Union
  <1>2. IsFiniteSet(A \cap C)
    BY FS_Subset
  <1>3. Cardinality(A) \in Nat /\ Cardinality(C) \in Nat /\ Cardinality(A \cap C) \in Nat
    BY <1>2, FS_CardinalityType
  <1>. QED  BY <1>1, <1>3, FS_CardinalityType

(* The hids of a part, and of the rest, are those of the whole.            *)
LEMMA FewerNames ==
    ASSUME NEW D, IsFiniteSet(D), NEW v, v = {x.hid : x \in D}, IsFiniteSet(v),
           Cardinality(v) = Cardinality(D), NEW x \in PageItem, x.hid \in v,
           NEW W \in Seq(PageItem), NEW B \in Seq(PageItem), NEW K \in Seq(PageItem),
           NEW T \in Seq(PageItem),
           ToSet(W) = D \cup ToSet(B) \cup ({x} \cup ToSet(K) \cup ToSet(T)),
           Len(W) = Cardinality(D) + Len(B) + (1 + Len(K) + Len(T))
    PROVE  Cardinality(HidsOf(W)) # Len(W)
  <1>1. PICK b, k, t : b = HidsOf(B) /\ k = HidsOf(K) /\ t = HidsOf(T)
    OBVIOUS
  <1>2. /\ IsFiniteSet(b) /\ IsFiniteSet(k) /\ IsFiniteSet(t)
        /\ Cardinality(b) <= Len(B) /\ Cardinality(k) <= Len(K) /\ Cardinality(t) <= Len(T)
        /\ Cardinality(b) \in Nat /\ Cardinality(k) \in Nat /\ Cardinality(t) \in Nat
        /\ Len(B) \in Nat /\ Len(K) \in Nat /\ Len(T) \in Nat /\ Cardinality(v) \in Nat
    BY <1>1, HidsCount, LenProperties, FS_CardinalityType
  <1>3. HidsOf(W) = ((v \cup b) \cup k) \cup t
    <2>1. /\ HidsOf(W) = {y.hid : y \in ToSet(W)} /\ b = {y.hid : y \in ToSet(B)}
          /\ k = {y.hid : y \in ToSet(K)} /\ t = {y.hid : y \in ToSet(T)}
      BY <1>1, HidsCount
    <2>2. {y.hid : y \in ToSet(W)} \subseteq ((v \cup b) \cup k) \cup t
      BY <2>1
    <2>3. ((v \cup b) \cup k) \cup t \subseteq {y.hid : y \in ToSet(W)}
      BY <2>1
    <2>. QED  BY <2>1, <2>2, <2>3
  <1>4. /\ IsFiniteSet(v \cup b) /\ Cardinality(v \cup b) <= Cardinality(v) + Cardinality(b)
        /\ Cardinality(v \cup b) \in Nat
    BY <1>2, FewerTogether
  <1>5. /\ IsFiniteSet((v \cup b) \cup k)
        /\ Cardinality((v \cup b) \cup k) <= Cardinality(v \cup b) + Cardinality(k)
        /\ Cardinality((v \cup b) \cup k) \in Nat
    BY <1>2, <1>4, FewerTogether
  <1>6. /\ Cardinality(((v \cup b) \cup k) \cup t) <= Cardinality((v \cup b) \cup k) + Cardinality(t)
        /\ Cardinality(((v \cup b) \cup k) \cup t) \in Nat
    BY <1>2, <1>5, FewerTogether
  <1>. QED  BY <1>2, <1>3, <1>4, <1>5, <1>6, SMTT(30)

LEMMA SpreadAtLeast ==
    ASSUME NEW T, NEW U, NEW w \in [T -> Seq(U)], NEW s \in Seq(T), \A x \in T : Len(w[x]) >= 1
    PROVE  Len(s) <= Len(Spread(s, w))
  <1> DEFINE Good == {t \in Seq(T) : Len(t) <= Len(Spread(t, w))}
  <1>1. <<>> \in Good
    BY SpreadEmpty, EmptySeq
  <1>2. ASSUME NEW t \in Seq(T), NEW y \in T, t \in Good PROVE Append(t, y) \in Good
    <2>1. Append(t, y) \in Seq(T) /\ Len(Append(t, y)) = Len(t) + 1 /\ Len(t) \in Nat
      BY AppendProperties, LenProperties
    <2>2. PICK a \in Seq(U), b \in Seq(U) : a = Spread(t, w) /\ b = w[y]
      BY SpreadType
    <2>3. Spread(Append(t, y), w) = a \o b
      BY <2>2, SpreadAppend
    <2>4. Len(a \o b) = Len(a) + Len(b) /\ Len(a) \in Nat /\ Len(b) \in Nat
      BY ConcatProperties, LenProperties
    <2>5. Len(b) >= 1 /\ Len(t) <= Len(a)
      BY <1>2, <2>2
    <2>. QED  BY <2>1, <2>3, <2>4, <2>5
  <1> HIDE DEF Good
  <1>3. s \in Good
    BY <1>1, <1>2, SeqInduct
  <1>. QED  BY <1>3 DEF Good

LEMMA UnfoldedAtLeast ==
    ASSUME TypesOK, NEW n \in 0..levels, NEW h \in Hid
    PROVE  Len(Unfolded[n][h]) >= 1
  <1>1. levels \in Nat
    BY HereIs
  <1>2. PICK x \in PageItem : x = [hid |-> h, level |-> levels - n]
    <2>1. levels - n \in Int
      BY <1>1
    <2>2. [hid |-> h, level |-> levels - n] \in PageItem
      BY <2>1 DEF PageItem
    <2>. QED  BY <2>2
  <1>3. PICK one \in Seq(PageItem) : one = <<x>> /\ Len(one) = 1
    <2>1. <<x>> \in Seq(PageItem) /\ Len(<<x>>) = 1
      OBVIOUS
    <2>. QED  BY <2>1
  <1>4. CASE n = 0
    <2>1. Unfolded[0][h] = <<[hid |-> h, level |-> levels]>> /\ levels - 0 = levels
      BY <1>1, UnfoldedIs
    <2>2. Unfolded[n][h] = one
      BY <1>2, <1>3, <1>4, <2>1
    <2>. QED  BY <1>3, <2>2
  <1>5. CASE n # 0
    <2>1. n \in 1..levels
      BY <1>1, <1>5
    <2>2. PICK K \in Seq(PageItem) : Unfolded[n][h] = one \o K
      BY <1>2, <1>3, <2>1, UnfoldedIs
    <2>3. Len(one \o K) = Len(one) + Len(K) /\ Len(K) \in Nat
      BY ConcatProperties, LenProperties
    <2>. QED  BY <1>3, <2>2, <2>3
  <1>. QED  BY <1>4, <1>5

(* What is to be read below is at least a page each. *)
LEMMA BelowAtLeast ==
    ASSUME TypesOK, IterInv
    PROVE  Len(below) <= Len(BelowPart)
  <1>1. below \in Seq(Hid) /\ level \in 0..levels /\ levels \in Nat
    BY HereIs DEF TypesOK
  <1>2. CASE below = <<>>
    BY <1>2, EmptySeq DEF BelowPart
  <1>3. CASE below # <<>>
    <2>1. levels - level - 1 \in 0..levels
      BY <1>1, <1>3, PartsType DEF IterInv
    <2>2. PICK w \in [Hid -> Seq(PageItem)] : w = Unfolded[levels - level - 1]
      BY <2>1, UnfoldedIs
    <2>3. \A h \in Hid : Len(w[h]) >= 1
      BY <2>1, <2>2, UnfoldedAtLeast
    <2>. QED  BY <1>1, <1>3, <2>2, <2>3, SpreadAtLeast DEF BelowPart
  <1>. QED  BY <1>2, <1>3

(* Where it cannot go on, no iteration accepts the BTH; and what it has    *)
(* handed out is how the records begin.                                    *)
LEMMA StuckTells ==
    ASSUME TypesOK, IterInv, root # NullHid, NEW D, Cut(D)
    PROVE  /\ IsPrefix(out, Records)
           /\ Stuck => ~Admissible \/ Exceeds(itemsSeen, MaxHeapItems)
  <1>1. /\ D \in SUBSET OnDisk /\ IsFiniteSet(D) /\ visited = {x.hid : x \in D} /\ IsFiniteSet(visited)
        /\ Cardinality(visited) = Cardinality(D) /\ Cardinality(D) \in Nat
        /\ CutsWell(Whole, BelowPart, RowPart, out, D, RowsAt)
    BY FS_CardinalityType DEF Cut, CutAs
  <1>2. /\ Whole \in Seq(PageItem) /\ RowPart \in Seq(PageItem) /\ BelowPart \in Seq(PageItem)
        /\ RowsAt \in [PageItem -> Seq(LeafRecord)] /\ out \in Seq(LeafRecord) /\ MaxItems \in Nat
        /\ level \in Nat /\ levels \in Nat
    BY PartsType, HeapLimitsAssumption DEF TypesOK, IterInv
  <1>3. Records = Spread(Whole, RowsAt)
    BY PagesAre
  <1>4. PICK b \in Seq(LeafRecord), r \in Seq(LeafRecord) :
           b = Spread(BelowPart, RowsAt) /\ r = Spread(RowPart, RowsAt)
    BY <1>2, SpreadType
  <1>5. PICK rest \in Seq(LeafRecord) : rest = b \o r /\ Len(rest) = Len(b) + Len(r)
    BY ConcatProperties
  <1>6. Records = out \o rest
    BY <1>1, <1>3, <1>4, <1>5 DEF CutsWell
  <1>7. IsPrefix(out, Records)
    BY <1>2, <1>6, BeginsWith
  <1>8. /\ Len(Whole) = Cardinality(D) + Len(BelowPart) + Len(RowPart)
        /\ Len(Whole) \in Nat /\ Len(BelowPart) \in Nat /\ Len(RowPart) \in Nat
        /\ Len(Records) = Len(out) + (Len(b) + Len(r)) /\ Len(b) \in Nat /\ Len(r) \in Nat
        /\ Len(out) \in Nat
    BY <1>1, <1>2, <1>5, <1>6, LenProperties, ConcatProperties DEF CutsWell
  <1>9. ASSUME level < levels, Exceeds(Len(below), MaxItems) PROVE ~Admissible
    <2>1. Len(below) <= Len(BelowPart) /\ Len(below) \in Nat
      BY BelowAtLeast, LenProperties DEF TypesOK
    <2>2. Len(Whole) > MaxItems
      BY <1>1, <1>2, <1>8, <1>9, <2>1 DEF Exceeds
    <2>. QED  BY <1>2, <1>8, <2>2, AdmissibleIs
  <1>10. ASSUME row # <<>>,
                \/ AddRefused(visited, Head(row), MaxItems)
                \/ ~PageOnDisk(Head(row), level)
                \/ level = levels /\ PageOnDisk(Head(row), level) /\ RecordsRefused(Head(row))
         PROVE  ~Admissible
    <2>1. PICK p, x : p = Head(row) /\ x = [hid |-> p, level |-> level]
      OBVIOUS
    <2>2. x \in PageItem /\ p \in Hid
      BY <1>10, <2>1, RowOpens DEF IterInv
    <2>3. PICK K \in Seq(PageItem), T \in Seq(PageItem) : RowPart = (<<x>> \o K) \o T
      BY <1>10, <2>1, RowOpens DEF IterInv
    <2>4. Opens(RowPart, x, K, T, RowsAt)
      BY <1>2, <2>2, <2>3, RowIs
    <2>5. /\ ToSet(Whole) = D \cup ToSet(BelowPart) \cup ({x} \cup ToSet(K) \cup ToSet(T))
          /\ Len(Whole) = Cardinality(D) + Len(BelowPart) + (1 + Len(K) + Len(T))
          /\ x \in ToSet(RowPart) /\ x \in ToSet(Whole) /\ Len(K) \in Nat /\ Len(T) \in Nat
      BY <1>1, <2>4, LenProperties DEF CutsWell, Opens
    <2>6. CASE p \in visited
      <3>1. x.hid \in visited
        BY <2>1, <2>6
      <3>2. Cardinality(HidsOf(Whole)) # Len(Whole)
        BY <1>1, <1>2, <2>2, <2>5, <3>1, FewerNames
      <3>. QED  BY <3>2, AdmissibleIs
    <2>7. CASE Cardinality(visited) >= MaxItems
      <3>1. Len(Whole) > MaxItems
        BY <1>1, <1>2, <1>8, <2>5, <2>7, SMTT(30)
      <3>. QED  BY <1>2, <1>8, <3>1, AdmissibleIs
    <2>8. CASE ~PageOnDisk(p, level)
      <3>1. ~PageOnDisk(x.hid, x.level)
        BY <2>1, <2>8
      <3>. QED  BY <2>5, <3>1, AdmissibleIs
    <2>9. CASE level = levels /\ PageOnDisk(p, level) /\ RecordsRefused(p)
      <3>1. RowsAt[x] = ItemAt(p).leaf.rows
        BY <2>1, <2>2, <2>9 DEF RowsAt
      <3>2. Len(RowsAt[x]) <= Len(r)
        BY <1>2, <1>4, <2>5, SpreadLength
      <3>3. RowsAt[x] \in Seq(LeafRecord) /\ Len(RowsAt[x]) \in Nat
        BY <1>2, <2>2, LenProperties
      <3>4. Len(out) + Len(RowsAt[x]) > MaxItems
        BY <2>9, <3>1 DEF RecordsRefused, Exceeds
      <3>5. Len(Records) > MaxItems
        BY <1>2, <1>8, <3>2, <3>3, <3>4
      <3>. QED  BY <1>2, <1>8, <3>5, AdmissibleIs
    <2>. QED  BY <1>10, <2>1, <2>6, <2>7, <2>8, <2>9 DEF AddRefused
  <1>. QED  BY <1>7, <1>9, <1>10 DEF Stuck

LEMMA IterInvGives ==
    ASSUME TypesOK, IterInv
    PROVE  IterationComplete
  <1>1. ASSUME ipc = "done" PROVE Admissible /\ out = Records
    <2>1. CASE root = NullHid
      <3>1. Pages = <<>> /\ Records = <<>> /\ out = <<>>
        BY <1>1, <2>1, PagesAre DEF IterInv
      <3>2. Len(<<>>) = 0 /\ DOMAIN <<>> = {} /\ MaxItems \in Nat
        BY EmptySeq, HeapLimitsAssumption
      <3>3. IsInjective([i \in DOMAIN Pages |-> Pages[i].hid])
        BY <3>1, <3>2 DEF IsInjective
      <3>. QED  BY <3>1, <3>2, <3>3 DEF Admissible
    <2>2. CASE root # NullHid
      <3>1. PICK D : Cut(D)
        BY <1>1, <2>2 DEF IterInv
      <3>2. row = <<>> /\ level = levels
        BY <1>1, <2>2 DEF IterInv
      <3>. QED  BY <2>2, <3>1, <3>2, DoneTells
    <2>. QED  BY <2>1, <2>2
  <1>2. ASSUME ipc = "refused"
        PROVE  (~Admissible \/ Exceeds(itemsSeen, MaxHeapItems)) /\ IsPrefix(out, Records)
    <2>1. root # NullHid /\ Stuck
      BY <1>2 DEF IterInv
    <2>2. PICK D : Cut(D)
      BY <1>2, <2>1 DEF IterInv
    <2>. QED  BY <2>1, <2>2, StuckTells
  <1>. QED  BY <1>1, <1>2 DEF IterationComplete

LEMMA IterInitially == Init => IterInv
  <1> SUFFICES ASSUME Init PROVE IterInv
    OBVIOUS
  <1>1. /\ ipc = "new" /\ row = <<>> /\ below = <<>> /\ out = <<>> /\ visited = {}
    BY DEF Init
  <1>2. Len(<<>>) = 0 /\ IsFiniteSet({}) /\ Cardinality({}) = 0 /\ MaxItems \in Nat
    BY EmptySeq, FS_EmptySet, HeapLimitsAssumption
  <1>. QED  BY <1>1, <1>2 DEF IterInv

LEMMA LookInitially == Init => LookInv
  BY DEF Init, LookInv

(* Reading level by level gives the records of the tree in its own order.  *)
THEOREM IterationIsComplete == Spec => []IterationComplete
  <1>1. HeapInv /\ IterInv /\ [Next]_heapvars => IterInv'
    BY IterPreserved
  <1>2. HeapInv /\ IterInv => IterationComplete
    BY IterInvGives DEF HeapInv, HeapTypeOK
  <1>. QED  BY <1>1, <1>2, IterInitially, HeapInvariant, PTL DEF Spec

-----------------------------------------------------------------------------
(* Looking a key up in records of which only one part can hold it.         *)
Without(s, k) == \A r \in ToSet(s) : r.key # k

(* The first record under a key. *)
LEMMA FirstAt ==
    ASSUME NEW s \in Seq(LeafRecord), NEW k
    PROVE  /\ Without(s, k) => FirstRecord(s, k) = Absent
           /\ ~Without(s, k) => \E i \in 1..Len(s) : s[i].key = k /\ \A j \in 1..Len(s) : j < i => s[j].key # k
           /\ \A i \in 1..Len(s) :
                 s[i].key = k /\ (\A j \in 1..Len(s) : j < i => s[j].key # k) =>
                    FirstRecord(s, k) = [kind |-> "value", value |-> s[i].value]
  <1> DEFINE same == {i \in DOMAIN s : s[i].key = k}
  <1>1. PICK n \in Nat : n = Len(s) /\ DOMAIN s = 1..n
    BY LenProperties
  <1>2. same \in SUBSET Nat /\ same = {i \in 1..n : s[i].key = k}
    BY <1>1
  <1>3. FirstRecord(s, k) = IF same = {} THEN Absent ELSE [kind |-> "value", value |-> s[Min(same)].value]
    BY DEF FirstRecord
  <1>4. Without(s, k) <=> same = {}
    BY <1>1 DEF Without, ToSet
  <1> HIDE DEF same
  <1>5. same # {} => Min(same) \in same /\ \A j \in same : Min(same) <= j
    BY <1>2, MinProperties
  <1>6. ASSUME same # {}
        PROVE  \E i \in 1..n : s[i].key = k /\ \A j \in 1..n : j < i => s[j].key # k
    <2>1. PICK m \in Nat : m = Min(same) /\ m \in same /\ \A j \in same : m <= j
      BY <1>2, <1>5, <1>6
    <2>2. m \in 1..n /\ s[m].key = k
      BY <1>2, <2>1
    <2>3. ASSUME NEW j \in 1..n, j < m PROVE s[j].key # k
      <3>1. j \notin same
        BY <2>1, <2>3
      <3>. QED  BY <1>2, <3>1
    <2>. QED  BY <2>2, <2>3
  <1>7. ASSUME NEW i \in 1..n, s[i].key = k, \A j \in 1..n : j < i => s[j].key # k
        PROVE  FirstRecord(s, k) = [kind |-> "value", value |-> s[i].value]
    <2>1. i \in same
      BY <1>2, <1>7
    <2>2. PICK m \in Nat : m = Min(same) /\ m \in same /\ m <= i
      BY <1>2, <1>5, <2>1
    <2>3. m = i
      BY <1>2, <1>7, <2>2
    <2>. QED  BY <1>3, <2>1, <2>2, <2>3
  <1>. QED  BY <1>1, <1>3, <1>4, <1>6, <1>7

LEMMA FirstIs ==
    ASSUME NEW s \in Seq(LeafRecord), NEW k, NEW i \in 1..Len(s), s[i].key = k,
           \A j \in 1..Len(s) : j < i => s[j].key # k
    PROVE  FirstRecord(s, k) = [kind |-> "value", value |-> s[i].value]
  BY FirstAt

LEMMA FirstOfTwo ==
    ASSUME NEW a \in Seq(LeafRecord), NEW b \in Seq(LeafRecord), NEW k
    PROVE  /\ Without(a, k) => FirstRecord(a \o b, k) = FirstRecord(b, k)
           /\ Without(b, k) => FirstRecord(a \o b, k) = FirstRecord(a, k)
  <1>1. PICK c \in Seq(LeafRecord) : c = a \o b /\ ToSet(c) = ToSet(a) \cup ToSet(b)
    BY PushMembers
  <1>2. PICK m \in Nat, n \in Nat : m = Len(a) /\ n = Len(b) /\ DOMAIN a = 1..m /\ DOMAIN b = 1..n
    BY LenProperties
  <1>3. Len(c) = m + n /\ \A i \in 1..(m + n) : c[i] = IF i <= m THEN a[i] ELSE b[i - m]
    BY <1>1, <1>2, ConcatProperties
  <1>4. ASSUME Without(a, k), Without(b, k) PROVE FirstRecord(c, k) = Absent
    <2>1. Without(c, k)
      BY <1>1, <1>4 DEF Without
    <2>. QED  BY <2>1, FirstAt
  <1>5. ASSUME Without(a, k), ~Without(b, k) PROVE FirstRecord(c, k) = FirstRecord(b, k)
    <2>1. PICK i \in 1..n : b[i].key = k /\ \A j \in 1..n : j < i => b[j].key # k
      BY <1>2, <1>5, FirstAt
    <2>2. FirstRecord(b, k) = [kind |-> "value", value |-> b[i].value]
      <3>1. i \in 1..Len(b) /\ \A j \in 1..Len(b) : j < i => b[j].key # k
        BY <1>2, <2>1
      <3>. QED  BY <2>1, <3>1, FirstIs
    <2>3. PICK g \in 1..(m + n) : g = m + i /\ c[g] = b[i]
      <3>1. m + i \in 1..(m + n) /\ ~(m + i <= m) /\ (m + i) - m = i
        OBVIOUS
      <3>. QED  BY <1>3, <3>1
    <2>4. ASSUME NEW j \in 1..(m + n), j < g PROVE c[j].key # k
      <3>1. CASE j <= m
        <4>1. j \in 1..m /\ c[j] = a[j]
          BY <1>3, <3>1
        <4>2. a[j] \in ToSet(a)
          BY <1>2, <4>1 DEF ToSet
        <4>. QED  BY <1>5, <4>1, <4>2 DEF Without
      <3>2. CASE ~(j <= m)
        <4>1. j - m \in 1..n /\ j - m < i
          BY <2>3, <2>4, <3>2
        <4>. QED  BY <1>3, <2>1, <3>2, <4>1
      <3>. QED  BY <3>1, <3>2
    <2>5. FirstRecord(c, k) = [kind |-> "value", value |-> c[g].value]
      <3>1. g \in 1..Len(c) /\ c[g].key = k /\ \A j \in 1..Len(c) : j < g => c[j].key # k
        BY <1>3, <2>1, <2>3, <2>4
      <3>. QED  BY <3>1, FirstIs
    <2>. QED  BY <2>2, <2>3, <2>5
  <1>6. ASSUME ~Without(a, k), Without(b, k) PROVE FirstRecord(c, k) = FirstRecord(a, k)
    <2>1. PICK i \in 1..m : a[i].key = k /\ \A j \in 1..m : j < i => a[j].key # k
      BY <1>2, <1>6, FirstAt
    <2>2. FirstRecord(a, k) = [kind |-> "value", value |-> a[i].value]
      <3>1. i \in 1..Len(a) /\ \A j \in 1..Len(a) : j < i => a[j].key # k
        BY <1>2, <2>1
      <3>. QED  BY <2>1, <3>1, FirstIs
    <2>3. i \in 1..(m + n) /\ c[i] = a[i]
      BY <1>3
    <2>4. ASSUME NEW j \in 1..(m + n), j < i PROVE c[j].key # k
      <3>1. j \in 1..m /\ c[j] = a[j]
        BY <1>3, <2>4
      <3>. QED  BY <2>1, <2>4, <3>1
    <2>5. FirstRecord(c, k) = [kind |-> "value", value |-> c[i].value]
      <3>1. i \in 1..Len(c) /\ c[i].key = k /\ \A j \in 1..Len(c) : j < i => c[j].key # k
        BY <1>3, <2>1, <2>3, <2>4
      <3>. QED  BY <3>1, FirstIs
    <2>. QED  BY <2>2, <2>3, <2>5
  <1>7. Without(a, k) => FirstRecord(a, k) = Absent
    BY FirstAt
  <1>8. Without(b, k) => FirstRecord(b, k) = Absent
    BY FirstAt
  <1>. QED  BY <1>1, <1>4, <1>5, <1>6, <1>7, <1>8

(* The parts in a row, all but one of which do not hold it.                *)
Elsewhere(q, v, k, at) == \A j \in 1..Len(q) : j # at => Without(v[q[j]], k)

LEMMA FirstOfParts ==
    ASSUME NEW C, NEW v \in [C -> Seq(LeafRecord)], NEW q \in Seq(C), NEW k, NEW at \in 0..Len(q),
           Elsewhere(q, v, k, at)
    PROVE  FirstRecord(Spread(q, v), k) = IF at = 0 THEN Absent ELSE FirstRecord(v[q[at]], k)
  <1> DEFINE Claim(s, i) == FirstRecord(Spread(s, v), k) = IF i = 0 THEN Absent ELSE FirstRecord(v[s[i]], k)
             Good == {s \in Seq(C) : \A i \in 0..Len(s) : Elsewhere(s, v, k, i) => Claim(s, i)}
  <1>1. <<>> \in Good
    <2>1. Len(<<>>) = 0 /\ <<>> \in Seq(C) /\ Spread(<<>>, v) = <<>> /\ <<>> \in Seq(LeafRecord)
      BY SpreadEmpty, EmptySeq
    <2>2. Without(<<>>, k)
      BY DEF Without, ToSet
    <2>3. FirstRecord(<<>>, k) = Absent
      BY <2>1, <2>2, FirstAt
    <2>. QED  BY <2>1, <2>3
  <1>2. ASSUME NEW t \in Seq(C), NEW y \in C, t \in Good PROVE Append(t, y) \in Good
    <2>1. PICK u \in Seq(C) : u = Append(t, y)
      BY AppendProperties
    <2>2. PICK n \in Nat : n = Len(t) /\ DOMAIN t = 1..n
      BY LenProperties
    <2>3. Len(u) = n + 1 /\ u[n + 1] = y /\ \A j \in 1..n : u[j] = t[j]
      BY <2>1, <2>2, AppendProperties
    <2>4. PICK a \in Seq(LeafRecord), b \in Seq(LeafRecord) : a = Spread(t, v) /\ b = v[y]
      BY SpreadType
    <2>5. Spread(u, v) = a \o b
      BY <2>1, <2>4, SpreadAppend
    <2>6. ASSUME NEW i \in 0..(n + 1), Elsewhere(u, v, k, i) PROVE Claim(u, i)
      <3>1. \A j \in 1..n : j # i => Without(v[t[j]], k)
        BY <2>3, <2>6 DEF Elsewhere
      <3>2. CASE i = n + 1
        <4>1. Elsewhere(t, v, k, 0)
          BY <2>2, <3>1, <3>2 DEF Elsewhere
        <4>2. Without(a, k)
          <5>1. ToSet(a) = UNION {ToSet(v[x]) : x \in ToSet(t)}
            BY <2>4, SpreadMembers
          <5>2. ASSUME NEW r \in ToSet(a) PROVE r.key # k
            <6>1. PICK x \in ToSet(t) : r \in ToSet(v[x])
              BY <5>1
            <6>2. PICK j \in 1..n : t[j] = x
              BY <2>2 DEF ToSet
            <6>. QED  BY <3>1, <3>2, <6>1, <6>2 DEF Without
          <5>. QED  BY <5>2 DEF Without
        <4>3. FirstRecord(a \o b, k) = FirstRecord(b, k)
          BY <4>2, FirstOfTwo
        <4>. QED  BY <2>3, <2>4, <2>5, <3>2, <4>3
      <3>3. CASE i # n + 1
        <4>1. i \in 0..n /\ n + 1 \in 1..(n + 1)
          BY <3>3
        <4>2. Without(b, k)
          BY <2>3, <2>4, <2>6, <3>3, <4>1 DEF Elsewhere
        <4>3. FirstRecord(a \o b, k) = FirstRecord(a, k)
          BY <4>2, FirstOfTwo
        <4>4. Elsewhere(t, v, k, i)
          BY <2>2, <3>1 DEF Elsewhere
        <4>5. Claim(t, i)
          BY <1>2, <2>2, <4>1, <4>4
        <4>6. i # 0 => u[i] = t[i]
          BY <2>3, <4>1
        <4>. QED  BY <2>4, <2>5, <4>3, <4>5, <4>6
      <3>. QED  BY <3>2, <3>3
    <2> HIDE DEF Claim
    <2>. QED  BY <2>1, <2>3, <2>6
  <1> HIDE DEF Good
  <1>3. q \in Good
    BY <1>1, <1>2, SeqInduct
  <1>. QED  BY <1>3 DEF Good

(* Keys that ascend from a record to the next do so between any two.       *)
LEMMA RowsAscend ==
    ASSUME NEW s \in Seq(IndexRecord), Ascending(s)
    PROVE  \A j \in 1..Len(s), i \in 1..Len(s) : i < j => s[i].key < s[j].key
  <1>1. PICK n \in Nat : n = Len(s)
    BY LenProperties
  <1>2. \A i \in 1..n : s[i].key \in Nat
    <2>1. ASSUME NEW i \in 1..n PROVE s[i] \in IndexRecord
      BY <1>1, ElementOfSeq
    <2>. QED  BY <2>1, HeapAssumption DEF IndexRecord
  <1> DEFINE Good == {j \in Nat : j <= n => \A i \in 1..n : i < j => s[i].key < s[j].key}
  <1>3. 0 \in Good
    OBVIOUS
  <1>4. ASSUME NEW j \in Nat, j \in Good PROVE j + 1 \in Good
    <2> SUFFICES ASSUME j + 1 <= n, NEW i \in 1..n, i < j + 1 PROVE s[i].key < s[j + 1].key
      OBVIOUS
    <2>1. j \in 1..(n - 1) /\ j \in 1..n /\ j + 1 \in 1..n
      OBVIOUS
    <2>2. s[j].key < s[j + 1].key
      BY <1>1, <2>1 DEF Ascending
    <2>3. CASE i = j
      BY <2>2, <2>3
    <2>4. CASE i # j
      <3>1. i < j
        BY <2>4
      <3>2. s[i].key < s[j].key
        BY <1>4, <2>1, <3>1
      <3>. QED  BY <1>2, <2>1, <2>2, <3>2
    <2>. QED  BY <2>3, <2>4
  <1> HIDE DEF Good
  <1>5. \A j \in Nat : j \in Good
    BY <1>3, <1>4, NatInduct
  <1>. QED  BY <1>1, <1>5 DEF Good

(* The record find goes down by: it and those before it have no greater    *)
(* key, those after it have.                                               *)
LEMMA ChosenSplits ==
    ASSUME NEW s \in Seq(IndexRecord), Ascending(s), NEW k \in Nat
    PROVE  /\ Chosen(s, k) \in 0..Len(s)
           /\ \A j \in 1..Len(s) : IF j <= Chosen(s, k) THEN s[j].key <= k ELSE k < s[j].key
  <1> DEFINE greater == {i \in DOMAIN s : s[i].key > k}
  <1>1. PICK n \in Nat : n = Len(s) /\ DOMAIN s = 1..n
    BY LenProperties
  <1>2. \A i \in 1..n : s[i].key \in Nat
    <2>1. ASSUME NEW i \in 1..n PROVE s[i] \in IndexRecord
      BY <1>1, ElementOfSeq
    <2>. QED  BY <2>1, HeapAssumption DEF IndexRecord
  <1>3. greater = {i \in 1..n : s[i].key > k} /\ greater \in SUBSET Nat
    BY <1>1
  <1>4. Chosen(s, k) = IF greater = {} THEN n ELSE Min(greater) - 1
    BY <1>1 DEF Chosen
  <1> HIDE DEF greater
  <1>5. CASE greater = {}
    BY <1>1, <1>2, <1>3, <1>4, <1>5
  <1>6. CASE greater # {}
    <2>1. PICK m \in Nat : m = Min(greater) /\ m \in greater /\ \A i \in greater : m <= i
      BY <1>3, <1>6, MinProperties
    <2>2. m \in 1..n /\ s[m].key > k /\ Chosen(s, k) = m - 1
      BY <1>3, <1>4, <1>6, <2>1
    <2>3. ASSUME NEW j \in 1..n, j <= m - 1 PROVE s[j].key <= k
      BY <1>2, <1>3, <2>1, <2>3
    <2>4. ASSUME NEW j \in 1..n, ~(j <= m - 1) PROVE k < s[j].key
      <3>1. CASE j = m
        BY <1>2, <2>2, <3>1
      <3>2. CASE j # m
        <4>1. m < j
          BY <2>4, <3>2
        <4>2. s[m].key < s[j].key
          BY <1>1, <2>2, <4>1, RowsAscend
        <4>. QED  BY <1>2, <2>2, <4>2
      <3>. QED  BY <3>1, <3>2
    <2>5. m - 1 \in 0..n
      BY <2>2
    <2>. QED  BY <1>1, <2>2, <2>3, <2>4, <2>5
  <1>. QED  BY <1>5, <1>6

-----------------------------------------------------------------------------
(* The records below a page with n levels left. *)
RecsAt(n) == [h \in Hid |-> Spread(Unfolded[n][h], RowsAt)]

LEMMA RecsAre ==
    ASSUME TypesOK
    PROVE  /\ \A n \in 0..levels : RecsAt(n) \in [Hid -> Seq(LeafRecord)]
           /\ \A h \in Hid : PageOnDisk(h, levels) => RecsAt(0)[h] = ItemAt(h).leaf.rows
           /\ \A n \in 1..levels, h \in Hid : RecsAt(n)[h] = Spread(Kids[h], RecsAt(n - 1))
  <1>1. levels \in Nat /\ RowsAt \in [PageItem -> Seq(LeafRecord)] /\ Kids \in [Hid -> Seq(Hid)]
    BY HereIs, RowsAtIs, ChildrenType
  <1>2. Unfolded \in [0..levels -> [Hid -> Seq(PageItem)]]
    BY UnfoldedIs
  <1>3. ASSUME NEW n \in 0..levels PROVE RecsAt(n) \in [Hid -> Seq(LeafRecord)]
    <2>1. PICK w \in [Hid -> Seq(PageItem)] : w = Unfolded[n]
      BY <1>2
    <2>2. ASSUME NEW h \in Hid PROVE Spread(Unfolded[n][h], RowsAt) \in Seq(LeafRecord)
      <3>1. Unfolded[n][h] \in Seq(PageItem)
        BY <2>1
      <3>. QED  BY <1>1, <3>1, SpreadType
    <2>. QED  BY <2>2 DEF RecsAt
  <1>4. ASSUME NEW n \in 0..levels, NEW h \in Hid
        PROVE  /\ [hid |-> h, level |-> levels - n] \in PageItem
               /\ <<[hid |-> h, level |-> levels - n]>> \in Seq(PageItem)
               /\ Spread(<<[hid |-> h, level |-> levels - n]>>, RowsAt)
                    = RowsAt[[hid |-> h, level |-> levels - n]]
    <2>1. levels - n \in Int
      BY <1>1
    <2>2. PICK x \in PageItem : x = [hid |-> h, level |-> levels - n]
      <3>1. [hid |-> h, level |-> levels - n] \in PageItem
        BY <2>1 DEF PageItem
      <3>. QED  BY <3>1
    <2>3. <<x>> \in Seq(PageItem)
      OBVIOUS
    <2>4. Spread(<<x>>, RowsAt) = RowsAt[x]
      BY <1>1, SpreadOne
    <2>. QED  BY <2>2, <2>3, <2>4
  <1>5. ASSUME NEW h \in Hid, PageOnDisk(h, levels) PROVE RecsAt(0)[h] = ItemAt(h).leaf.rows
    <2>1. 0 \in 0..levels /\ levels - 0 = levels
      BY <1>1
    <2>2. Unfolded[0][h] = <<[hid |-> h, level |-> levels]>>
      BY UnfoldedIs
    <2>3. /\ [hid |-> h, level |-> levels] \in PageItem
          /\ Spread(<<[hid |-> h, level |-> levels]>>, RowsAt) = RowsAt[[hid |-> h, level |-> levels]]
      BY <1>4, <2>1
    <2>4. RowsAt[[hid |-> h, level |-> levels]] = ItemAt(h).leaf.rows
      BY <1>5, <2>3 DEF RowsAt
    <2>. QED  BY <2>2, <2>3, <2>4 DEF RecsAt
  <1>6. ASSUME NEW n \in 1..levels, NEW h \in Hid PROVE RecsAt(n)[h] = Spread(Kids[h], RecsAt(n - 1))
    <2>1. n \in 0..levels /\ n - 1 \in 0..levels /\ levels - n # levels
      BY <1>1
    <2>2. PICK w, v : w = Unfolded[n - 1] /\ v = RowsAt
      OBVIOUS
    <2>3. InTurn(Hid, PageItem, LeafRecord, w, v)
      BY <1>1, <1>2, <2>1, <2>2 DEF InTurn
    <2>4. RecsAt(n - 1) = Twice(Hid, w, v)
      BY <2>2 DEF RecsAt, Twice
    <2>5. PICK s \in Seq(Hid) : s = Kids[h]
      BY <1>1
    <2>6. Spread(Spread(s, w), v) = Spread(s, Twice(Hid, w, v))
      BY <2>3, SpreadTwice
    <2>7. PICK one \in Seq(PageItem), rest \in Seq(PageItem) :
             /\ one = <<[hid |-> h, level |-> levels - n]>> /\ rest = Spread(s, w)
             /\ Unfolded[n][h] = one \o rest
      <3>1. /\ Unfolded[n][h] = <<[hid |-> h, level |-> levels - n]>> \o Spread(Kids[h], Unfolded[n - 1])
            /\ Spread(Kids[h], Unfolded[n - 1]) \in Seq(PageItem)
        BY UnfoldedIs
      <3>2. <<[hid |-> h, level |-> levels - n]>> \in Seq(PageItem)
        BY <1>4, <2>1
      <3>. QED  BY <2>2, <2>5, <3>1, <3>2
    <2>8. Spread(one, v) = <<>>
      <3>1. /\ [hid |-> h, level |-> levels - n] \in PageItem
            /\ Spread(one, v) = RowsAt[[hid |-> h, level |-> levels - n]]
        BY <1>4, <2>1, <2>2, <2>7
      <3>. QED  BY <2>1, <3>1 DEF RowsAt
    <2>9. Spread(one \o rest, v) = Spread(one, v) \o Spread(rest, v)
      <3>1. v \in [PageItem -> Seq(LeafRecord)]
        BY <1>1, <2>2
      <3>. QED  BY <3>1, SpreadConcat
    <2>10. PICK r \in Seq(LeafRecord) : r = Spread(rest, v)
      BY <1>1, <2>2, SpreadType
    <2>11. <<>> \o r = r
      BY ConcatEmptySeq
    <2>12. RecsAt(n)[h] = Spread(one \o rest, v)
      BY <2>2, <2>7 DEF RecsAt
    <2>. QED  BY <2>4, <2>5, <2>6, <2>7, <2>8, <2>9, <2>10, <2>11, <2>12
  <1>. QED  BY <1>3, <1>5, <1>6

(* A page, and the parts below it, in the part of the tree it starts.      *)
LEMMA UnfoldedHolds ==
    ASSUME TypesOK
    PROVE  /\ \A n \in 0..levels, h \in Hid :
                 [hid |-> h, level |-> levels - n] \in ToSet(Unfolded[n][h])
           /\ \A n \in 1..levels, h \in Hid : \A c \in ToSet(Kids[h]) :
                 /\ ToSet(Unfolded[n - 1][c]) \subseteq ToSet(Unfolded[n][h])
                 /\ Len(Unfolded[n - 1][c]) + 1 <= Len(Unfolded[n][h])
  <1>1. levels \in Nat /\ Kids \in [Hid -> Seq(Hid)]
    BY HereIs, ChildrenType
  <1>2. ASSUME NEW n \in 0..levels, NEW h \in Hid
        PROVE  \E one \in Seq(PageItem) :
                  /\ one = <<[hid |-> h, level |-> levels - n]>> /\ Len(one) = 1
                  /\ [hid |-> h, level |-> levels - n] \in ToSet(one)
    <2>1. levels - n \in Int
      BY <1>1
    <2>2. PICK x \in PageItem : x = [hid |-> h, level |-> levels - n]
      <3>1. [hid |-> h, level |-> levels - n] \in PageItem
        BY <2>1 DEF PageItem
      <3>. QED  BY <3>1
    <2>3. <<x>> \in Seq(PageItem) /\ Len(<<x>>) = 1 /\ <<x>>[1] = x /\ 1 \in DOMAIN <<x>>
      OBVIOUS
    <2>. QED  BY <2>2, <2>3 DEF ToSet
  <1>3. ASSUME NEW n \in 1..levels, NEW h \in Hid
        PROVE  /\ [hid |-> h, level |-> levels - n] \in ToSet(Unfolded[n][h])
               /\ \A c \in ToSet(Kids[h]) :
                    /\ ToSet(Unfolded[n - 1][c]) \subseteq ToSet(Unfolded[n][h])
                    /\ Len(Unfolded[n - 1][c]) + 1 <= Len(Unfolded[n][h])
    <2>1. n \in 0..levels /\ n - 1 \in 0..levels
      BY <1>1
    <2>2. PICK one \in Seq(PageItem) : /\ one = <<[hid |-> h, level |-> levels - n]>> /\ Len(one) = 1
                                       /\ [hid |-> h, level |-> levels - n] \in ToSet(one)
      BY <1>2, <2>1
    <2>3. PICK w \in [Hid -> Seq(PageItem)] : w = Unfolded[n - 1]
      BY <2>1, UnfoldedIs
    <2>4. PICK s \in Seq(Hid), rest \in Seq(PageItem) : s = Kids[h] /\ rest = Spread(s, w)
      <3>1. PICK s \in Seq(Hid) : s = Kids[h]
        BY <1>1
      <3>2. Spread(s, w) \in Seq(PageItem)
        BY SpreadType
      <3>. QED  BY <3>1, <3>2
    <2>5. Unfolded[n][h] = one \o rest
      BY <2>2, <2>3, <2>4, UnfoldedIs
    <2>6. ToSet(one \o rest) = ToSet(one) \cup ToSet(rest)
      BY PushMembers
    <2>7. Len(one \o rest) = Len(one) + Len(rest) /\ Len(rest) \in Nat
      BY ConcatProperties, LenProperties
    <2>8. ToSet(rest) = UNION {ToSet(w[c]) : c \in ToSet(s)}
      BY <2>4, SpreadMembers
    <2>9. \A c \in ToSet(s) : Len(w[c]) <= Len(rest)
      BY <2>4, SpreadLength
    <2>10. ASSUME NEW c \in ToSet(s)
           PROVE  ToSet(w[c]) \subseteq ToSet(one \o rest) /\ Len(w[c]) + 1 <= Len(one \o rest)
      <3>1. c \in Hid
        BY ToSetType
      <3>2. Len(w[c]) \in Nat
        <4>1. w[c] \in Seq(PageItem)
          BY <3>1
        <4>. QED  BY <4>1, LenProperties
      <3>3. ToSet(w[c]) \subseteq ToSet(one \o rest)
        BY <2>6, <2>8
      <3>4. PICK x \in Nat, y \in Nat : x = Len(w[c]) /\ y = Len(rest)
        BY <2>7, <3>2
      <3>5. x <= y /\ Len(one \o rest) = 1 + y
        BY <2>2, <2>7, <2>9, <3>4
      <3>6. x + 1 <= 1 + y
        BY <3>5
      <3>. QED  BY <3>3, <3>4, <3>5, <3>6
    <2>11. [hid |-> h, level |-> levels - n] \in ToSet(Unfolded[n][h])
      BY <2>2, <2>5, <2>6
    <2>12. ASSUME NEW c \in ToSet(Kids[h])
           PROVE  /\ ToSet(Unfolded[n - 1][c]) \subseteq ToSet(Unfolded[n][h])
                  /\ Len(Unfolded[n - 1][c]) + 1 <= Len(Unfolded[n][h])
      <3>1. w = Unfolded[n - 1] /\ one \o rest = Unfolded[n][h] /\ c \in ToSet(s)
        BY <2>3, <2>4, <2>5
      <3>. QED  BY <2>10, <3>1
    <2>. QED  BY <2>11, <2>12
  <1>4. ASSUME NEW h \in Hid PROVE [hid |-> h, level |-> levels - 0] \in ToSet(Unfolded[0][h])
    <2>1. 0 \in 0..levels /\ levels - 0 = levels
      BY <1>1
    <2>2. Unfolded[0][h] = <<[hid |-> h, level |-> levels - 0]>>
      BY <2>1, UnfoldedIs
    <2>. QED  BY <1>2, <2>1, <2>2
  <1>5. \A n \in 0..levels : n = 0 \/ n \in 1..levels
    BY <1>1
  <1>. QED  BY <1>3, <1>4, <1>5

-----------------------------------------------------------------------------
Within(n, h) == ToSet(Unfolded[n][h]) \subseteq ToSet(Whole)

(* What a sorted BTH that an iteration accepts is at each of its pages.    *)
LEMMA PageIsRight ==
    ASSUME TypesOK, root # NullHid, Admissible, Sorted, NEW n \in 0..levels, NEW h \in Hid, Within(n, h)
    PROVE  /\ PageOnDisk(h, levels - n)
           /\ n # 0 =>
                /\ Ascending(IndexRows(h)) /\ IndexRows(h) \in Seq(IndexRecord)
                /\ Kids[h] = ChildrenOf(IndexRows(h))
                /\ \A j \in 1..Len(IndexRows(h)) :
                      /\ IndexRows(h)[j].child \in Hid /\ IndexRows(h)[j].child \in ToSet(Kids[h])
                      /\ Kids[h][j] = IndexRows(h)[j].child
                      /\ \A r \in ToSet(RecsAt(n - 1)[IndexRows(h)[j].child]) :
                           /\ IndexRows(h)[j].key <= r.key
                           /\ j < Len(IndexRows(h)) => r.key < IndexRows(h)[j + 1].key
  <1>1. levels \in Nat /\ Pages = Whole /\ Whole \in Seq(PageItem)
    BY HereIs, PagesAre
  <1>2. PICK l \in Nat : l = levels - n
    BY <1>1
  <1>3. PICK i \in DOMAIN Whole : Whole[i].hid = h /\ Whole[i].level = l
    <2>1. [hid |-> h, level |-> levels - n] \in ToSet(Whole)
      BY UnfoldedHolds DEF Within
    <2>2. PICK i \in DOMAIN Whole : Whole[i] = [hid |-> h, level |-> levels - n]
      BY <2>1 DEF ToSet
    <2>. QED  BY <1>2, <2>2
  <1>4. PageOnDisk(h, l)
    BY <1>1, <1>3 DEF Admissible
  <1>5. ASSUME n # 0
        PROVE  /\ Ascending(IndexRows(h)) /\ IndexRows(h) \in Seq(IndexRecord)
               /\ Kids[h] = ChildrenOf(IndexRows(h))
               /\ \A j \in 1..Len(IndexRows(h)) :
                     /\ IndexRows(h)[j].child \in Hid /\ IndexRows(h)[j].child \in ToSet(Kids[h])
                     /\ Kids[h][j] = IndexRows(h)[j].child
                     /\ \A r \in ToSet(RecsAt(n - 1)[IndexRows(h)[j].child]) :
                          /\ IndexRows(h)[j].key <= r.key
                          /\ j < Len(IndexRows(h)) => r.key < IndexRows(h)[j + 1].key
    <2>1. l # levels /\ levels - (l + 1) = n - 1 /\ n - 1 \in 0..levels
      BY <1>1, <1>2, <1>5
    <2>2. PICK rows \in Seq(IndexRecord) :
             /\ rows = IndexRows(h) /\ Kids[h] = ChildrenOf(rows)
             /\ \A j \in 1..Len(rows) : rows[j].child \in Hid
      BY <1>4, <2>1, OnDiskRows, ChildrenType
    <2>3. DOMAIN rows = 1..Len(rows)
      BY LenProperties
    <2>4. /\ Ascending(rows)
          /\ \A j \in DOMAIN rows : \A r \in ToSet(RecordsBelow(Occurrences(rows[j].child, l + 1))) :
                rows[j].key <= r.key /\ (j < Len(rows) => r.key < rows[j + 1].key)
      BY <1>1, <1>3, <2>1, <2>2 DEF Sorted
    <2>5. ASSUME NEW j \in 1..Len(rows)
          PROVE  RecordsBelow(Occurrences(rows[j].child, l + 1)) = RecsAt(n - 1)[rows[j].child]
      <3>1. PICK c \in Hid : c = rows[j].child
        BY <2>2
      <3>2. Occurrences(c, l + 1) = Unfolded[n - 1][c]
        BY <2>1, OccurrencesAre
      <3>3. Unfolded[n - 1][c] \in Seq(PageItem)
        BY <2>1, UnfoldedIs
      <3>4. RecordsBelow(Unfolded[n - 1][c]) = Spread(Unfolded[n - 1][c], RowsAt)
        BY <3>3, RowsAtIs
      <3>. QED  BY <3>1, <3>2, <3>4 DEF RecsAt
    <2>6. ASSUME NEW j \in 1..Len(rows)
          PROVE  rows[j].child \in ToSet(Kids[h]) /\ Kids[h][j] = rows[j].child
      BY <2>2, <2>3 DEF ToSet, ChildrenOf
    <2>7. ASSUME NEW j \in 1..Len(rows), NEW r \in ToSet(RecsAt(n - 1)[rows[j].child])
          PROVE  rows[j].key <= r.key /\ (j < Len(rows) => r.key < rows[j + 1].key)
      BY <2>3, <2>4, <2>5
    <2>. QED  BY <2>2, <2>4, <2>6, <2>7
  <1>. QED  BY <1>2, <1>4, <1>5

(* The first record under a key is below the record find goes down by.     *)
LEMMA GoesRight ==
    ASSUME TypesOK, root # NullHid, Admissible, Sorted, NEW n \in 1..levels, NEW h \in Hid, Within(n, h),
           NEW k \in Keys, NEW at, at = Chosen(IndexRows(h), k)
    PROVE  /\ at \in 0..Len(IndexRows(h))
           /\ FirstRecord(RecsAt(n)[h], k)
                = IF at = 0 THEN Absent ELSE FirstRecord(RecsAt(n - 1)[IndexRows(h)[at].child], k)
           /\ at # 0 => /\ IndexRows(h)[at].child \in Hid /\ Within(n - 1, IndexRows(h)[at].child)
                        /\ Len(Unfolded[n - 1][IndexRows(h)[at].child]) + 1 <= Len(Unfolded[n][h])
  <1>1. levels \in Nat /\ n \in 0..levels /\ n - 1 \in 0..levels /\ n # 0 /\ k \in Nat
    BY HereIs, HeapAssumption
  <1>2. PICK rows \in Seq(IndexRecord) : rows = IndexRows(h) /\ Ascending(rows)
    BY <1>1, PageIsRight
  <1>3. PICK m \in Nat : m = Len(rows) /\ DOMAIN rows = 1..m
    BY LenProperties
  <1>4. PICK v \in [Hid -> Seq(LeafRecord)] : v = RecsAt(n - 1)
    BY <1>1, RecsAre
  <1>5. PICK q \in Seq(Hid) : q = Kids[h]
    BY ChildrenType
  <1>6. Len(q) = m
    <2>1. DOMAIN q = 1..m
      BY <1>1, <1>2, <1>3, <1>5, PageIsRight DEF ChildrenOf
    <2>. QED  BY <2>1, <1>3, LenProperties
  <1>7. \A j \in 1..m : /\ rows[j].child \in Hid /\ rows[j].child \in ToSet(q) /\ q[j] = rows[j].child
                        /\ \A r \in ToSet(v[rows[j].child]) :
                             rows[j].key <= r.key /\ (j < m => r.key < rows[j + 1].key)
    BY <1>1, <1>2, <1>3, <1>4, <1>5, PageIsRight
  <1>8. at \in 0..m /\ \A j \in 1..m : IF j <= at THEN rows[j].key <= k ELSE k < rows[j].key
    BY <1>1, <1>2, <1>3, ChosenSplits
  <1>9. \A j \in 1..m : rows[j].key \in Nat /\ \A r \in ToSet(v[rows[j].child]) : r.key \in Nat
    <2>1. ASSUME NEW j \in 1..m PROVE rows[j].key \in Nat
      <3>1. rows[j] \in IndexRecord
        BY <1>3, ElementOfSeq
      <3>. QED  BY <3>1, HeapAssumption DEF IndexRecord
    <2>2. ASSUME NEW j \in 1..m, NEW r \in ToSet(v[rows[j].child]) PROVE r.key \in Nat
      <3>1. v[rows[j].child] \in Seq(LeafRecord)
        BY <1>7
      <3>2. r \in LeafRecord
        BY <3>1, ToSetType
      <3>. QED  BY <3>2, HeapAssumption DEF LeafRecord
    <2>. QED  BY <2>1, <2>2
  <1>10. Elsewhere(q, v, k, at)
    <2>1. ASSUME NEW j \in 1..m, j # at, NEW r \in ToSet(v[rows[j].child]) PROVE r.key # k
      <3>0. r.key \in Nat /\ rows[j].key \in Nat /\ rows[j].key <= r.key /\ (j < m => r.key < rows[j + 1].key)
        BY <1>7, <1>9, <2>1
      <3>1. CASE j < at
        <4>1. j < m /\ j + 1 \in 1..m /\ j + 1 <= at
          BY <1>8, <3>1
        <4>2. rows[j + 1].key <= k /\ rows[j + 1].key \in Nat
          BY <1>8, <1>9, <4>1
        <4>. QED  BY <1>1, <3>0, <4>1, <4>2
      <3>2. CASE ~(j < at)
        <4>1. ~(j <= at)
          BY <1>8, <2>1, <3>2
        <4>2. k < rows[j].key
          BY <1>8, <4>1
        <4>. QED  BY <1>1, <3>0, <4>2
      <3>. QED  BY <3>1, <3>2
    <2>2. ASSUME NEW j \in 1..m, j # at PROVE Without(v[q[j]], k)
      BY <1>7, <2>1, <2>2 DEF Without
    <2>. QED  BY <1>6, <2>2 DEF Elsewhere
  <1>11. FirstRecord(Spread(q, v), k) = IF at = 0 THEN Absent ELSE FirstRecord(v[q[at]], k)
    <2>1. at \in 0..Len(q)
      BY <1>6, <1>8
    <2>. QED  BY <1>10, <2>1, FirstOfParts
  <1>12. RecsAt(n)[h] = Spread(q, v)
    BY <1>4, <1>5, RecsAre
  <1>13. at # 0 => at \in 1..m
    BY <1>8
  <1>14. ASSUME at # 0
         PROVE  /\ Within(n - 1, rows[at].child)
                /\ Len(Unfolded[n - 1][rows[at].child]) + 1 <= Len(Unfolded[n][h])
    <2>1. rows[at].child \in ToSet(Kids[h])
      BY <1>5, <1>7, <1>13, <1>14
    <2>. QED  BY <2>1, UnfoldedHolds DEF Within
  <1>. QED  BY <1>2, <1>3, <1>4, <1>7, <1>8, <1>11, <1>12, <1>13, <1>14

-----------------------------------------------------------------------------
(* An admissible tree has a page at one of its places only.                *)
LEMMA OnePlace ==
    ASSUME TypesOK, root # NullHid, Admissible, NEW h \in Hid,
           NEW i \in 0..levels, NEW j \in 0..levels, Within(i, h), Within(j, h)
    PROVE  i = j
  <1>1. levels \in Nat /\ Pages = Whole
    BY HereIs, PagesAre
  <1>2. PICK w : w = Whole
    OBVIOUS
  <1>3. IsInjective([a \in DOMAIN w |-> w[a].hid])
    BY <1>1, <1>2 DEF Admissible
  <1>4. PICK a \in DOMAIN w : w[a].hid = h /\ w[a].level = levels - i
    <2>1. [hid |-> h, level |-> levels - i] \in ToSet(w)
      BY <1>2, UnfoldedHolds DEF Within
    <2>2. PICK a \in DOMAIN w : w[a] = [hid |-> h, level |-> levels - i]
      BY <2>1 DEF ToSet
    <2>. QED  BY <2>2
  <1>5. PICK b \in DOMAIN w : w[b].hid = h /\ w[b].level = levels - j
    <2>1. [hid |-> h, level |-> levels - j] \in ToSet(w)
      BY <1>2, UnfoldedHolds DEF Within
    <2>2. PICK b \in DOMAIN w : w[b] = [hid |-> h, level |-> levels - j]
      BY <2>1 DEF ToSet
    <2>. QED  BY <2>2
  <1>6. a = b
    BY <1>3, <1>4, <1>5 DEF IsInjective
  <1>. QED  BY <1>1, <1>4, <1>5, <1>6

(* A lookup that has come to where the first record under its key is.      *)
Going(d, k) ==
    /\ Leads(d, k)
    /\ \A j \in 1..Len(d) : Within(levels - (j - 1), d[j])
    /\ FirstRecord(Records, k) = FirstRecord(RecsAt(levels - (Len(d) - 1))[d[Len(d)]], k)
    /\ (Len(d) - 1) + Len(Unfolded[levels - (Len(d) - 1)][d[Len(d)]]) <= Len(Whole)

LEMMA GoingStarts ==
    ASSUME TypesOK, root # NullHid, NEW k
    PROVE  \E d \in Seq(Hid) : Going(d, k) /\ Len(d) = 1
  <1>1. levels \in Nat /\ root \in Hid /\ levels - (1 - 1) = levels /\ 1 - 1 = 0
    BY HereIs DEF TypesOK
  <1>2. PICK d \in Seq(Hid) : d = <<root>> /\ Len(d) = 1 /\ d[1] = root
    <2>1. <<root>> \in Seq(Hid) /\ Len(<<root>>) = 1 /\ <<root>>[1] = root
      BY <1>1
    <2>. QED  BY <2>1
  <1>3. Leads(d, k)
    BY <1>1, <1>2 DEF Leads
  <1>4. \A j \in 1..Len(d) : Within(levels - (j - 1), d[j])
    <2>1. Within(levels, root)
      BY DEF Within, Whole
    <2>2. \A j \in 1..Len(d) : j = 1
      BY <1>2
    <2>. QED  BY <1>1, <1>2, <2>1, <2>2
  <1>5. FirstRecord(Records, k) = FirstRecord(RecsAt(levels)[root], k)
    BY <1>1, PagesAre DEF RecsAt, Whole
  <1>6. 0 + Len(Unfolded[levels][root]) <= Len(Whole)
    <2>1. Whole \in Seq(PageItem) /\ Whole = Unfolded[levels][root]
      BY <1>1, UnfoldedIs DEF Whole
    <2>2. Len(Whole) \in Nat
      BY <2>1, LenProperties
    <2>. QED  BY <2>1, <2>2
  <1>. QED  BY <1>1, <1>2, <1>3, <1>4, <1>5, <1>6 DEF Going

LEMMA GoingFurther ==
    ASSUME TypesOK, root # NullHid, Admissible, Sorted, NEW k \in Keys, NEW d \in Seq(Hid), Going(d, k)
    PROVE  \/ Ends(d, k, FirstRecord(Records, k))
           \/ \E e \in Seq(Hid) : Going(e, k) /\ Len(e) = Len(d) + 1
  <1>1. PICK m \in Nat, i \in Nat : m = levels /\ i = Len(d) /\ i >= 1 /\ i <= m + 1 /\ d[1] = root
    <2>1. levels \in Nat /\ Len(d) \in Nat /\ Len(d) >= 1 /\ Len(d) <= levels + 1 /\ d[1] = root
      BY HereIs, LenProperties DEF Going, Leads
    <2>. QED  BY <2>1
  <1>2. PICK n \in 0..m : n = m - (i - 1)
    BY <1>1
  <1>3. PICK h \in Hid : h = d[i]
    <2>1. i \in 1..Len(d)
      BY <1>1
    <2>. QED  BY <2>1, ElementOfSeq
  <1>4. \A j \in 1..i : d[j] \in Hid /\ Within(m - (j - 1), d[j])
    BY <1>1, ElementOfSeq DEF Going
  <1>5. /\ Within(n, h)
        /\ FirstRecord(Records, k) = FirstRecord(RecsAt(n)[h], k)
        /\ (i - 1) + Len(Unfolded[n][h]) <= Len(Whole)
    BY <1>1, <1>2, <1>3, <1>4 DEF Going
  <1>6. PICK b \in Nat, w \in Nat : b = Len(Unfolded[n][h]) /\ w = Len(Whole) /\ b >= 1 /\ w <= MaxItems
    <2>1. Unfolded[n][h] \in Seq(PageItem) /\ Whole \in Seq(PageItem)
      <3>1. Unfolded[n][h] \in Seq(PageItem)
        BY <1>1, UnfoldedIs
      <3>. QED  BY <3>1, PagesAre
    <2>2. Len(Unfolded[n][h]) >= 1
      BY <1>1, UnfoldedAtLeast
    <2>3. Len(Whole) <= MaxItems
      BY AdmissibleIs
    <2>. QED  BY <2>1, <2>2, <2>3, LenProperties
  <1>7. i <= MaxItems /\ MaxItems \in Nat
    BY <1>1, <1>5, <1>6, HeapLimitsAssumption
  <1>8. PageOnDisk(h, i - 1) /\ m - n = i - 1
    <2>1. m - n = i - 1
      BY <1>1, <1>2
    <2>. QED  BY <1>1, <1>2, <1>5, <2>1, PageIsRight
  <1>9. \A a, c \in 1..i : d[a] = d[c] => a = c
    <2>1. ASSUME NEW a \in 1..i, NEW c \in 1..i, d[a] = d[c] PROVE a = c
      <3>1. m - (a - 1) \in 0..m /\ m - (c - 1) \in 0..m
        BY <1>1
      <3>2. m - (a - 1) = m - (c - 1)
        BY <1>1, <1>4, <2>1, <3>1, OnePlace
      <3>. QED  BY <1>1, <3>2
    <2>. QED  BY <2>1
  <1>10. ~Barred(d) /\ ~Unread(d)
    <2>1. ~(Len(d) > MaxItems)
      BY <1>1, <1>7
    <2>2. \A j \in 1..(Len(d) - 1) : d[j] # d[Len(d)]
      <3>1. \A j \in 1..(i - 1) : j \in 1..i /\ j # i /\ i \in 1..i
        BY <1>1
      <3>. QED  BY <1>1, <1>9, <3>1
    <2>. QED  BY <1>1, <1>3, <1>8, <2>1, <2>2 DEF Barred, Unread
  <1>11. CASE i = m + 1
    <2>1. n = 0 /\ i - 1 = m
      BY <1>1, <1>2, <1>11
    <2>2. RecsAt(0)[h] = ItemAt(h).leaf.rows
      BY <1>1, <1>8, <2>1, RecsAre
    <2>. QED  BY <1>1, <1>3, <1>5, <1>10, <1>11, <2>1, <2>2 DEF Ends
  <1>12. CASE i # m + 1
    <2>1. n \in 1..m /\ i <= m
      BY <1>1, <1>2, <1>12
    <2>2. PICK at : at = Chosen(IndexRows(h), k)
      OBVIOUS
    <2>3. /\ at \in 0..Len(IndexRows(h))
          /\ FirstRecord(RecsAt(n)[h], k)
               = IF at = 0 THEN Absent ELSE FirstRecord(RecsAt(n - 1)[IndexRows(h)[at].child], k)
          /\ at # 0 => /\ IndexRows(h)[at].child \in Hid /\ Within(n - 1, IndexRows(h)[at].child)
                       /\ Len(Unfolded[n - 1][IndexRows(h)[at].child]) + 1 <= Len(Unfolded[n][h])
      BY <1>1, <1>5, <2>1, <2>2, GoesRight, SMTT(30)
    <2>4. CASE at = 0
      BY <1>1, <1>3, <1>5, <1>10, <2>1, <2>2, <2>3, <2>4 DEF Ends, Astray
    <2>5. CASE at # 0
      <3>1. PICK c \in Hid : c = IndexRows(h)[at].child
        BY <2>3, <2>5
      <3>2. PICK e \in Seq(Hid) : /\ Len(e) = i + 1 /\ e[i + 1] = c /\ \A j \in 1..i : e[j] = d[j]
        <4>1. /\ Append(d, c) \in Seq(Hid) /\ Len(Append(d, c)) = Len(d) + 1
              /\ Append(d, c)[Len(d) + 1] = c /\ \A j \in 1..Len(d) : Append(d, c)[j] = d[j]
          BY AppendProperties
        <4>. QED  BY <1>1, <4>1
      <3>3. Leads(e, k)
        <4>1. Len(e) \in 1..(levels + 1) /\ e[1] = root /\ Len(e) - 1 = i
          BY <1>1, <2>1, <3>2
        <4>2. ASSUME NEW j \in 1..i
              PROVE  /\ PageOnDisk(e[j], j - 1) /\ Chosen(IndexRows(e[j]), k) # 0 /\ j <= MaxItems
                     /\ e[j + 1] = IndexRows(e[j])[Chosen(IndexRows(e[j]), k)].child
          <5>1. CASE j = i
            BY <1>1, <1>3, <1>7, <1>8, <2>2, <2>5, <3>1, <3>2, <5>1
          <5>2. CASE j # i
            <6>1. j \in 1..(i - 1) /\ j + 1 \in 1..i
              BY <1>1, <5>2
            <6>2. /\ PageOnDisk(d[j], j - 1) /\ Chosen(IndexRows(d[j]), k) # 0 /\ j <= MaxItems
                  /\ d[j + 1] = IndexRows(d[j])[Chosen(IndexRows(d[j]), k)].child
              BY <1>1, <6>1 DEF Going, Leads
            <6>3. e[j] = d[j] /\ e[j + 1] = d[j + 1]
              BY <3>2, <6>1
            <6>. QED  BY <6>2, <6>3
          <5>. QED  BY <5>1, <5>2
        <4>3. \A a, q \in 1..i : e[a] = e[q] => a = q
          BY <1>9, <3>2
        <4>. QED  BY <4>1, <4>2, <4>3 DEF Leads
      <3>4. m - ((i + 1) - 1) = n - 1
        BY <1>1, <1>2
      <3>5. \A j \in 1..(i + 1) : Within(m - (j - 1), e[j])
        <4>1. \A j \in 1..(i + 1) : j \in 1..i \/ j = i + 1
          BY <1>1
        <4>2. Within(n - 1, c)
          BY <2>3, <2>5, <3>1
        <4>. QED  BY <1>4, <3>2, <3>4, <4>1, <4>2
      <3>6. FirstRecord(Records, k) = FirstRecord(RecsAt(n - 1)[c], k)
        BY <1>5, <2>3, <2>5, <3>1
      <3>7. ((i + 1) - 1) + Len(Unfolded[n - 1][c]) <= Len(Whole)
        <4>1. Len(Unfolded[n - 1][c]) \in Nat
          <5>1. n - 1 \in 0..m
            BY <2>1
          <5>2. Unfolded[n - 1][c] \in Seq(PageItem)
            BY <1>1, <5>1, UnfoldedIs
          <5>. QED  BY <5>2, LenProperties
        <4>2. Len(Unfolded[n - 1][c]) + 1 <= b
          BY <1>6, <2>3, <2>5, <3>1
        <4>. QED  BY <1>1, <1>5, <1>6, <4>1, <4>2, SMTT(30)
      <3>8. Going(e, k)
        BY <1>1, <3>2, <3>3, <3>4, <3>5, <3>6, <3>7 DEF Going
      <3>. QED  BY <1>1, <3>2, <3>8
    <2>. QED  BY <2>4, <2>5
  <1>. QED  BY <1>11, <1>12

(* In a sorted BTH that an iteration accepts a lookup ends with the first  *)
(* record under its key.                                                   *)
LEMMA DescentIsExact ==
    ASSUME TypesOK, Admissible, Sorted, NEW k \in Keys
    PROVE  Descent(k) = FirstRecord(Records, k)
  <1>1. CASE root = NullHid
    <2>1. Descent(k) = Absent
      BY <1>1 DEF Descent
    <2>2. PICK s \in Seq(LeafRecord) : s = Records /\ s = <<>>
      BY <1>1, PagesAre
    <2>3. ToSet(s) = {}
      <3>1. DOMAIN s = {}
        BY <2>2
      <3>. QED  BY <3>1 DEF ToSet
    <2>4. FirstRecord(s, k) = Absent
      BY <2>3, FirstAt DEF Without
    <2>. QED  BY <2>1, <2>2, <2>4
  <1>2. CASE root # NullHid
    <2> DEFINE Found == \E d \in Seq(Hid) : Leads(d, k) /\ Ends(d, k, FirstRecord(Records, k))
               Good == {i \in Nat : Found \/ \E d \in Seq(Hid) : Going(d, k) /\ Len(d) = i + 1}
    <2>1. 0 \in Good
      BY <1>2, GoingStarts
    <2>2. ASSUME NEW i \in Nat, i \in Good PROVE i + 1 \in Good
      <3>1. CASE Found
        BY <3>1
      <3>2. CASE ~Found
        <4>1. PICK d \in Seq(Hid) : Going(d, k) /\ Len(d) = i + 1
          BY <2>2, <3>2
        <4>2. Leads(d, k)
          BY <4>1 DEF Going
        <4>3. \E e \in Seq(Hid) : Going(e, k) /\ Len(e) = Len(d) + 1
          BY <1>2, <3>2, <4>1, <4>2, GoingFurther
        <4>4. i + 1 \in Nat
          OBVIOUS
        <4>. QED  BY <4>1, <4>3, <4>4
      <3>. QED  BY <3>1, <3>2
    <2> HIDE DEF Good
    <2>3. \A i \in Nat : i \in Good
      BY <2>1, <2>2, NatInduct
    <2>4. Found
      <3>1. levels \in Nat
        BY HereIs
      <3>2. levels + 1 \in Good
        BY <2>3, <3>1
      <3>3. ASSUME NEW d \in Seq(Hid), Going(d, k), Len(d) = (levels + 1) + 1 PROVE FALSE
        <4>1. Len(d) <= levels + 1
          BY <3>1, <3>3 DEF Going, Leads
        <4>. QED  BY <3>1, <3>3, <4>1
      <3>. QED  BY <3>2, <3>3 DEF Good
    <2>5. PICK a : a = FirstRecord(Records, k)
      OBVIOUS
    <2>6. PICK d \in Seq(Hid) : Leads(d, k) /\ Ends(d, k, a)
      BY <2>4, <2>5
    <2>7. a = Descent(k)
      BY <1>2, <2>6, DescentFollows
    <2>. QED  BY <2>5, <2>7
  <1>. QED  BY <1>1, <1>2

LEMMA FindIsExact ==
    ASSUME TypesOK, LookInv
    PROVE  FindExact
  <1> SUFFICES ASSUME fpc = "idle", answer # Nothing, asked.kind = "key", Admissible, Sorted
               PROVE  \/ answer = FirstRecord(Records, asked.key)
                      \/ answer = Refused("PstLimitError") /\ Exceeds(itemsSeen, MaxHeapItems)
    BY DEF FindExact
  <1>1. LimitAnswer \/ ItemAnswer \/ KeyAnswer
    BY DEF LookInv
  <1>2. CASE LimitAnswer
    BY <1>2 DEF LimitAnswer
  <1>3. CASE ~LimitAnswer
    <2>1. KeyAnswer
      BY <1>1, <1>3 DEF ItemAnswer
    <2>2. PICK k \in Keys : asked.key = k
      BY <2>1 DEF KeyAnswer
    <2>3. AnswerIsFiles
      BY LookInvGives
    <2>4. answer = Descent(k)
      BY <1>3, <2>2, <2>3 DEF AnswerIsFiles, LimitAnswer
    <2>5. Descent(k) = FirstRecord(Records, k)
      BY DescentIsExact
    <2>. QED  BY <2>2, <2>4, <2>5
  <1>. QED  BY <1>2, <1>3

(* Items, the value under a key and all records in order are what the file *)
(* holds, whoever else reads the heap in between.                          *)
THEOREM HeapReadersAreExact == Spec => []ReadersExact
  <1>1. HeapInv /\ LookInv /\ [Next]_heapvars => LookInv'
    BY LookPreserved
  <1>2. HeapInv /\ LookInv => AnswerIsFiles /\ FindExact
    BY LookInvGives, FindIsExact DEF HeapInv, HeapTypeOK
  <1>3. AnswerIsFiles /\ FindExact /\ IterationComplete => ReadersExact
    BY DEF ReadersExact
  <1>. QED  BY <1>1, <1>2, <1>3, LookInitially, HeapInvariant, IterationIsComplete, PTL DEF Spec

=============================================================================
