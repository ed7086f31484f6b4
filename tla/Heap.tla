--------------------------------- MODULE Heap ---------------------------------
(***************************************************************************)
(* ltp/heap.py and ltp/tree.py: the heap laid over the data blocks of one  *)
(* node, and a BTH in it.  A heap parses a block's page map when an item   *)
(* of the block is first asked for and keeps it; every parse is counted    *)
(* against max_heap_items, and the count is never taken back.              *)
(*                                                                         *)
(* One thread, three users: the iteration of the BTH is a generator that   *)
(* is suspended while its consumer looks keys up in the BTH (find) or      *)
(* reads items (get, for values and cells).  All share the page maps.      *)
(*                                                                         *)
(* A block is abstracted to the items of its page map, or to "bad" when    *)
(* any check of _parse_page_map refuses.  An item is freed, or is what its *)
(* bytes parse to as a BTHHEADER, as an index page and as a leaf page: the *)
(* level a page is met on decides how it is read, and nothing in a page    *)
(* says which it is.                                                       *)
(***************************************************************************)
EXTENDS PstLimits, SequencesExt

CONSTANTS MaxBlockIndex, MaxItemIndex,  \* what an HID has bits for
          Keys, Values,                 \* of the BTH
          Stores,                       \* the nodes and the HID of the BTH's header
          MaxHeapItems, MaxHeapTreeDepth, MaxItems,
          CountBound                    \* no new call once this many items were counted

Hid == [block : 0..MaxBlockIndex, index : 0..MaxItemIndex]
NullHid == [block |-> 0, index |-> 0]

View(Row) == [kind : {"rows"}, rows : Seq(Row)] \cup [kind : {"refused"}]
IndexRecord == [key : Keys, child : Hid]
LeafRecord == [key : Keys, value : Values]
Header == [kind : {"header"}, levels : Nat, root : Hid] \cup [kind : {"refused"}]
Item == [kind : {"freed"}]
   \cup [kind : {"item"}, header : Header, index : View(IndexRecord), leaf : View(LeafRecord)]
Block == [kind : {"bad"}] \cup [kind : {"map"}, items : Seq(Item)]

ASSUME HeapAssumption == /\ MaxBlockIndex \in Nat /\ MaxItemIndex \in Nat \ {0}
                         /\ Keys \subseteq Nat /\ Keys # {} /\ CountBound \in Nat
ASSUME HeapStoresAssumption ==
    \A s \in Stores : /\ s.blocks \in Seq(Block) /\ s.top \in Hid
                      /\ Len(s.blocks) \in 1..(MaxBlockIndex + 1)
ASSUME HeapLimitsAssumption ==
    MaxHeapItems \in Nat \ {0} /\ MaxHeapTreeDepth \in Nat \ {0} /\ MaxItems \in Nat \ {0}

VARIABLES blocks, top,    \* the node's data blocks; the HID of the BTHHEADER
          levels, root,   \* the BTHHEADER, once the BTH is open
          tpc,            \* the BTH: "new", "open" or "refused"
          maps,           \* the blocks whose page map is kept
          itemsSeen,      \* items counted
          ipc,            \* the iteration: "new", "index", "leaf", "done", "refused"
          level,          \* index levels it has read
          row, below,     \* pages of this level still to read, pages of the next
          visited,        \* its VisitedSet
          out,            \* records handed out
          fpc, key,       \* find: "idle" or "descend", and the key
          hid, flevel,    \* the page find is about to read, and its level
          path,           \* its VisitedSet
          asked, answer   \* the last call of find or get, and what it answered

heap == <<maps, itemsSeen>>
tree == <<levels, root, tpc>>
iteration == <<ipc, level, row, below, visited, out>>
lookup == <<fpc, key, hid, flevel, path>>
heapvars == <<blocks, top, tree, heap, iteration, lookup, asked, answer>>

Nothing == [kind |-> NoError]
Refused(class) == [kind |-> class]

Init == /\ \E s \in Stores : blocks = s.blocks /\ top = s.top
        /\ levels = 0 /\ root = NullHid /\ tpc = "new"
        /\ maps = {} /\ itemsSeen = 0
        /\ ipc = "new" /\ level = 0 /\ row = <<>> /\ below = <<>>
        /\ visited = {} /\ out = <<>>
        /\ fpc = "idle" /\ key = (CHOOSE k \in Keys : TRUE)
        /\ hid = NullHid /\ flevel = 0 /\ path = {}
        /\ asked = Nothing /\ answer = Nothing

ReadOnly == UNCHANGED <<blocks, top>>

-----------------------------------------------------------------------------
(* The heap: page_map and get. *)
HasBlock(h) == h.block < Len(blocks)

BlockOf(h) == blocks[h.block + 1]

ItemAt(h) == BlockOf(h).items[h.index]

MapRefusal(h) ==
    IF h.block \in maps THEN NoError
    ELSE IF BlockOf(h).kind = "bad" THEN "PstFormatError"
    ELSE IF Exceeds(itemsSeen + Len(BlockOf(h).items), MaxHeapItems) THEN "PstLimitError"
    ELSE NoError

(* The item is not there, or it is there and freed. *)
Dangling(h) == \/ h.index \notin DOMAIN BlockOf(h).items
               \/ ItemAt(h).kind = "freed"

GetRefusal(h) ==
    IF ~HasBlock(h) THEN "PstFormatError"
    ELSE IF MapRefusal(h) # NoError THEN MapRefusal(h)
    ELSE IF Dangling(h) THEN "PstFormatError"
    ELSE NoError

Parses(h) == HasBlock(h) /\ h.block \notin maps /\ BlockOf(h).kind = "map"

(* Mutant: counts a page map again each time it is used. *)
TouchCountsAgain(h) ==
    /\ itemsSeen' = IF HasBlock(h) /\ BlockOf(h).kind = "map"
                    THEN itemsSeen + Len(BlockOf(h).items) ELSE itemsSeen
    /\ maps' = IF Parses(h) /\ MapRefusal(h) = NoError THEN maps \cup {h.block} ELSE maps

(* What asking for an item leaves behind, whether it is refused or not.    *)
Touch(h) ==
    /\ itemsSeen' = IF Parses(h) THEN itemsSeen + Len(BlockOf(h).items) ELSE itemsSeen
    /\ maps' = IF Parses(h) /\ MapRefusal(h) = NoError THEN maps \cup {h.block} ELSE maps

(* get, for a value or a cell; the generator and find are not running.     *)
Idle == tpc = "open" /\ ipc # "index" /\ fpc = "idle"

Get(h) ==
    /\ Idle /\ itemsSeen <= CountBound
    /\ asked' = [kind |-> "item", item |-> h]
    /\ answer' = IF GetRefusal(h) = NoError THEN [kind |-> "item"] ELSE Refused(GetRefusal(h))
    /\ Touch(h)
    /\ ReadOnly /\ UNCHANGED <<tree, iteration, lookup>>

-----------------------------------------------------------------------------
(* HeapTree.__init__ *)
Open ==
    /\ tpc = "new"
    /\ Touch(top)
    /\ LET h == IF GetRefusal(top) = NoError THEN ItemAt(top).header ELSE [kind |-> "refused"]
       IN IF h.kind = "refused" \/ (h.kind = "header" /\ Exceeds(h.levels, MaxHeapTreeDepth))
          THEN tpc' = "refused" /\ UNCHANGED <<levels, root>>
          ELSE tpc' = "open" /\ levels' = h.levels /\ root' = h.root
    /\ ReadOnly /\ UNCHANGED <<iteration, lookup, asked, answer>>

(* _page: the cycle guard, the item, and its bytes as whole records.       *)
PageView(h, l) == IF l = levels THEN ItemAt(h).leaf ELSE ItemAt(h).index

PageRefusal(h, l, seen) ==
    IF AddRefused(seen, h, MaxItems) THEN "PstLimitError"
    ELSE IF GetRefusal(h) # NoError THEN GetRefusal(h)
    ELSE IF PageView(h, l).kind = "refused" THEN "PstFormatError"
    ELSE NoError

TouchPage(h, seen) == IF AddRefused(seen, h, MaxItems) THEN UNCHANGED heap ELSE Touch(h)

-----------------------------------------------------------------------------
(* __iter__, a level at a time.  The generator is suspended before its     *)
(* first step and after each record it hands out, which is not told apart  *)
(* from after the last record of the page.                                 *)
StartIteration ==
    /\ tpc = "open" /\ fpc = "idle" /\ ipc = "new"
    /\ IF root = NullHid THEN ipc' = "done" /\ UNCHANGED row
       ELSE ipc' = (IF levels = 0 THEN "leaf" ELSE "index") /\ row' = <<root>>
    /\ ReadOnly /\ UNCHANGED <<tree, heap, level, below, visited, out, lookup, asked, answer>>

ChildrenOf(records) == [i \in DOMAIN records |-> records[i].child]

(* Mutant: has no cycle guard. *)
ReadIndexPageUnguarded ==
    /\ fpc = "idle" /\ ipc = "index" /\ row # <<>>
    /\ PageRefusal(Head(row), level, {}) = NoError
    /\ Touch(Head(row))
    /\ below' = below \o ChildrenOf(ItemAt(Head(row)).index.rows)
    /\ row' = Tail(row)
    /\ ReadOnly /\ UNCHANGED <<tree, ipc, level, visited, out, lookup, asked, answer>>

ReadIndexPage ==
    /\ fpc = "idle" /\ ipc = "index" /\ row # <<>>
    /\ PageRefusal(Head(row), level, visited) = NoError
    /\ Touch(Head(row))
    /\ visited' = visited \cup {Head(row)}
    /\ below' = below \o ChildrenOf(ItemAt(Head(row)).index.rows)
    /\ row' = Tail(row)
    /\ ReadOnly /\ UNCHANGED <<tree, ipc, level, out, lookup, asked, answer>>

NextLevel ==
    /\ fpc = "idle" /\ ipc = "index" /\ row = <<>>
    /\ ~Exceeds(Len(below), MaxItems)
    /\ level' = level + 1
    /\ row' = below /\ below' = <<>>
    /\ ipc' = IF level' = levels THEN "leaf" ELSE "index"
    /\ ReadOnly /\ UNCHANGED <<tree, heap, visited, out, lookup, asked, answer>>

RecordsRefused(h) == Exceeds(Len(out) + Len(ItemAt(h).leaf.rows), MaxItems)

ReadLeafPage ==
    /\ fpc = "idle" /\ ipc = "leaf" /\ row # <<>>
    /\ PageRefusal(Head(row), level, visited) = NoError /\ ~RecordsRefused(Head(row))
    /\ Touch(Head(row))
    /\ visited' = visited \cup {Head(row)}
    /\ out' = out \o ItemAt(Head(row)).leaf.rows
    /\ row' = Tail(row)
    /\ ReadOnly /\ UNCHANGED <<tree, ipc, level, below, lookup, asked, answer>>

RefuseIteration ==
    /\ fpc = "idle" /\ ipc \in {"index", "leaf"}
    /\ \/ /\ row # <<>>
          /\ \/ PageRefusal(Head(row), level, visited) # NoError
             \/ /\ ipc = "leaf" /\ PageRefusal(Head(row), level, visited) = NoError
                /\ RecordsRefused(Head(row))
          /\ TouchPage(Head(row), visited)
       \/ /\ row = <<>> /\ ipc = "index" /\ Exceeds(Len(below), MaxItems)
          /\ UNCHANGED heap
    /\ ipc' = "refused"
    /\ ReadOnly /\ UNCHANGED <<tree, level, row, below, visited, out, lookup, asked, answer>>

Exhaust ==
    /\ fpc = "idle" /\ ipc = "leaf" /\ row = <<>>
    /\ ipc' = "done"
    /\ ReadOnly /\ UNCHANGED <<tree, heap, level, row, below, visited, out, lookup, asked, answer>>

-----------------------------------------------------------------------------
(* find: at each index page the record before the first whose key is       *)
(* greater, or none.                                                       *)
Chosen(records, k) ==
    LET greater == {i \in DOMAIN records : records[i].key > k}
    IN IF greater = {} THEN Len(records) ELSE Min(greater) - 1

Absent == [kind |-> "absent"]

FirstRecord(records, k) ==
    LET same == {i \in DOMAIN records : records[i].key = k}
    IN IF same = {} THEN Absent ELSE [kind |-> "value", value |-> records[Min(same)].value]

Find(k) ==
    /\ Idle /\ itemsSeen <= CountBound
    /\ asked' = [kind |-> "key", key |-> k]
    /\ IF root = NullHid THEN answer' = Absent /\ UNCHANGED lookup
       ELSE /\ fpc' = "descend" /\ key' = k /\ hid' = root /\ flevel' = 0 /\ path' = {}
            /\ answer' = Nothing
    /\ ReadOnly /\ UNCHANGED <<tree, heap, iteration>>

(* find returns or raises, and its local variables are gone. *)
Answer(a) == /\ answer' = a
             /\ fpc' = "idle" /\ hid' = NullHid /\ flevel' = 0 /\ path' = {}
             /\ UNCHANGED <<key, asked>>

(* Mutant: find adds to the VisitedSet of the iteration. *)
FindRefusalShared == PageRefusal(hid, flevel, path \cup visited)

FindRefusal == PageRefusal(hid, flevel, path)

FindRefuses ==
    /\ fpc = "descend" /\ FindRefusal # NoError
    /\ Answer(Refused(FindRefusal))
    /\ TouchPage(hid, path)
    /\ ReadOnly /\ UNCHANGED <<tree, iteration>>

Descend ==
    /\ fpc = "descend" /\ flevel < levels /\ FindRefusal = NoError
    /\ Touch(hid)
    /\ LET records == ItemAt(hid).index.rows
           at == Chosen(records, key)
       IN IF at = 0 THEN Answer(Absent)
          ELSE /\ hid' = records[at].child /\ flevel' = flevel + 1 /\ path' = path \cup {hid}
               /\ UNCHANGED <<fpc, key, asked, answer>>
    /\ ReadOnly /\ UNCHANGED <<tree, iteration>>

SearchLeaf ==
    /\ fpc = "descend" /\ flevel = levels /\ FindRefusal = NoError
    /\ Touch(hid)
    /\ Answer(FirstRecord(ItemAt(hid).leaf.rows, key))
    /\ ReadOnly /\ UNCHANGED <<tree, iteration>>

Next == \/ Open \/ (\E h \in Hid : Get(h))
        \/ StartIteration \/ ReadIndexPage \/ NextLevel \/ ReadLeafPage
        \/ RefuseIteration \/ Exhaust
        \/ (\E k \in Keys : Find(k)) \/ FindRefuses \/ Descend \/ SearchLeaf

(* Nothing the properties below say needs a step to be taken. *)
Spec == Init /\ [][Next]_heapvars

-----------------------------------------------------------------------------
(* The state of a heap, its BTH and both walks.  Only page maps that parse *)
(* are kept.                                                               *)
TypesOK ==
    /\ blocks \in Seq(Block) /\ top \in Hid
    /\ levels \in 0..MaxHeapTreeDepth /\ root \in Hid /\ tpc \in {"new", "open", "refused"}
    /\ maps \in SUBSET {b \in 0..(Len(blocks) - 1) : blocks[b + 1].kind = "map"}
    /\ itemsSeen \in Nat
    /\ ipc \in {"new", "index", "leaf", "done", "refused"} /\ level \in 0..levels
    /\ row \in Seq(Hid) /\ below \in Seq(Hid)
    /\ visited \in SUBSET Hid /\ out \in Seq(LeafRecord)
    /\ fpc \in {"idle", "descend"} /\ key \in Keys
    /\ hid \in Hid /\ flevel \in 0..levels /\ path \in SUBSET Hid

KeptItems == SumFunctionOnSet([b \in maps |-> Len(blocks[b + 1].items)], maps)

(* The page maps a heap keeps hold no more items than max_heap_items, and  *)
(* the count in _items_seen is exactly theirs until a page map has been    *)
(* refused for it; from then on it is more, and over the ceiling.          *)
MapsAccounted ==
    /\ KeptItems <= MaxHeapItems /\ KeptItems <= itemsSeen
    /\ ~Exceeds(itemsSeen, MaxHeapItems) => itemsSeen = KeptItems

(* The types of the state, and what the shared page maps and their count   *)
(* have to do with each other.                                             *)
HeapTypeOK == TypesOK /\ MapsAccounted

-----------------------------------------------------------------------------
(* References, from the file alone. *)
ItemOnDisk(h) == HasBlock(h) /\ BlockOf(h).kind = "map" /\ ~Dangling(h)

PageOnDisk(h, l) == ItemOnDisk(h) /\ PageView(h, l).kind = "rows"

IndexRows(h) == ItemAt(h).index.rows

(* The pages a lookup of `k' comes to, with no cycle guard. *)
DescentPath(k) ==
    LET down[l \in 0..levels] ==
            IF l = 0 THEN <<root>>
            ELSE LET p == down[l - 1]
                     h == Last(p)
                 IN IF Len(p) < l \/ ~PageOnDisk(h, l - 1) \/ Chosen(IndexRows(h), k) = 0 THEN p
                    ELSE Append(p, IndexRows(h)[Chosen(IndexRows(h), k)].child)
    IN down[levels]

Descent(k) ==
    LET p == DescentPath(k)
        Trouble(i) == IF i > MaxItems \/ \E j \in 1..(i - 1) : p[j] = p[i] THEN "PstLimitError"
                      ELSE IF ~PageOnDisk(p[i], i - 1) THEN "PstFormatError" ELSE NoError
        troubled == {i \in DOMAIN p : Trouble(i) # NoError}
    IN IF root = NullHid THEN Absent
       ELSE IF troubled # {} THEN Refused(Trouble(Min(troubled)))
       ELSE IF Len(p) <= levels THEN Absent
       ELSE FirstRecord(ItemAt(Last(p)).leaf.rows, k)

ChildrenOnDisk(h) == IF ItemOnDisk(h) /\ ItemAt(h).index.kind = "rows"
                     THEN ChildrenOf(IndexRows(h)) ELSE <<>>

(* The pages of the BTH from `h' at level `l' on, in pre-order:            *)
(* under[n][x] are those from `x' on with `n' levels left.                 *)
Occurrences(h, l) ==
    LET under[n \in 0..levels] ==
            [x \in Hid |->
                <<[hid |-> x, level |-> levels - n]>> \o
                (IF n = 0 THEN <<>>
                 ELSE FlattenSeq([i \in DOMAIN ChildrenOnDisk(x) |->
                                    under[n - 1][ChildrenOnDisk(x)[i]]]))]
    IN under[levels - l][h]

Pages == IF root = NullHid THEN <<>> ELSE Occurrences(root, 0)

RecordsBelow(occ) ==
    FlattenSeq([i \in DOMAIN occ |->
        IF occ[i].level = levels /\ PageOnDisk(occ[i].hid, levels)
        THEN ItemAt(occ[i].hid).leaf.rows ELSE <<>>])

Records == RecordsBelow(Pages)

(* A BTH an iteration accepts. *)
Admissible ==
    LET occ == Pages
    IN /\ \A i \in DOMAIN occ : PageOnDisk(occ[i].hid, occ[i].level)
       /\ IsInjective([i \in DOMAIN occ |-> occ[i].hid])
       /\ Len(occ) <= MaxItems /\ Len(Records) <= MaxItems

(* Pages whose keys ascend, the keys below a record from its key up to the *)
(* next record's: what a writer that sorts its BTH produces.               *)
Ascending(s) == \A i \in 1..(Len(s) - 1) : s[i].key < s[i + 1].key

Sorted ==
    LET occ == Pages
    IN \A i \in DOMAIN occ :
         LET h == occ[i].hid
             rows == IndexRows(h)
             Under(j) == ToSet(RecordsBelow(Occurrences(rows[j].child, occ[i].level + 1)))
         IN IF occ[i].level = levels THEN Ascending(ItemAt(h).leaf.rows)
            ELSE /\ Ascending(rows)
                 /\ \A j \in DOMAIN rows : \A r \in Under(j) :
                      rows[j].key <= r.key /\ (j < Len(rows) => r.key < rows[j + 1].key)

-----------------------------------------------------------------------------
(* Whatever ran before it and whatever is suspended beside it, find and    *)
(* get answer what the file alone gives, or refuse because more items were *)
(* counted than max_heap_items allows: that count, and no other state the  *)
(* users of a heap share, can change an answer.                            *)
AnswerIsFiles ==
    (fpc = "idle" /\ answer # Nothing) =>
        \/ answer = CASE asked.kind = "key" -> Descent(asked.key)
                      [] asked.kind = "item" -> IF ItemOnDisk(asked.item) THEN [kind |-> "item"]
                                                ELSE Refused("PstFormatError")
        \/ answer = Refused("PstLimitError") /\ Exceeds(itemsSeen, MaxHeapItems)

(* In a sorted BTH that an iteration accepts, find gives exactly the value *)
(* the iteration lists under the key, or says that there is none.          *)
FindExact ==
    (fpc = "idle" /\ answer # Nothing /\ asked.kind = "key" /\ Admissible /\ Sorted) =>
        \/ answer = FirstRecord(Records, asked.key)
        \/ answer = Refused("PstLimitError") /\ Exceeds(itemsSeen, MaxHeapItems)

(* Reading level by level gives the records in the tree's own order: an    *)
(* iteration that ends has accepted the BTH and handed out all of them,    *)
(* and one that is refused has a reason in the file, or in the items other *)
(* users made the heap count, and has handed out the first of them.        *)
IterationComplete ==
    /\ ipc = "done" => Admissible /\ out = Records
    /\ ipc = "refused" => /\ ~Admissible \/ Exceeds(itemsSeen, MaxHeapItems)
                          /\ IsPrefix(out, Records)

(* Every way to read a heap, alone or between the steps of another, gives  *)
(* what the file holds: items, the value under a key, all records in order.*)
ReadersExact == AnswerIsFiles /\ FindExact /\ IterationComplete

(* Once an iteration has ended, find is never refused again, not even by a *)
(* heap whose count other users have driven over the ceiling, and a value  *)
(* it gives is one that was handed out.                                    *)
IterationVouches ==
    [][(ipc = "done" /\ fpc = "descend" /\ fpc' = "idle") =>
          \/ answer' = Absent
          \/ answer'.kind = "value" /\ Contains(out, [key |-> key, value |-> answer'.value])]_heapvars

=============================================================================
