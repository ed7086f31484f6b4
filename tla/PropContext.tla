----------------------------- MODULE PropContext -----------------------------
(***************************************************************************)
(* ltp/prop_context.py: the properties of one node.  The records are the   *)
(* leaves of a BTH keyed by property id: an id, a type, and four bytes     *)
(* that are the value itself or say where it lies, in an item of the heap  *)
(* or in a sub-node.  They are read once, whole; values are read each time *)
(* they are asked for.                                                     *)
(*                                                                         *)
(* A context of the file is a record of                                    *)
(*   node      how reading the node's heap ends: NoError or the refusal    *)
(*   isPC      its client signature is bTypePC                             *)
(*   tree      how reading the header of its BTH ends                      *)
(*   shape     that header has 2 byte keys and 6 byte records              *)
(*   records   the leaves in the order of the BTH: [id, type, raw]         *)
(*   then      how walking the BTH ends after them                         *)
(*   items     the heap's items, and nodes the sub-nodes, by HNID: bytes,  *)
(*             or the refusal that reading them ends with                  *)
(*   codepage  the store's code page is one Python has                     *)
(*   meant     the values a writer encoded, by property id                 *)
(* Heap and BTree model how a heap and a BTH come to be read or refused.   *)
(***************************************************************************)
EXTENDS PropTypes, TLC

CONSTANTS MaxPropertyCount,   \* records in one context
          HidTypes            \* an HNID that is a multiple of it is a heap id

(* What every file has: ids are numbers, contents are bytes or a refusal,  *)
(* and a walk that ends early ends with a refusal.                         *)
IsContent(c) == IsRefusal(c) \/ c \in [kind : {"bytes"}, bytes : Seq(Byte)]

IsContext(ctx) ==
    /\ ctx.records \in Seq([id : Nat, type : STRING, raw : Nat])
    /\ ctx.then \in Refusals \cup {NoError} /\ ctx.codepage \in BOOLEAN
    /\ \A h \in DOMAIN ctx.items : IsContent(ctx.items[h])
    /\ \A h \in DOMAIN ctx.nodes : IsContent(ctx.nodes[h])

ASSUME PropertyCountAssumption == MaxPropertyCount \in Nat /\ HidTypes \in Nat \ {0}

(* What an object has not read yet; only what was read whole is kept.      *)
NotYet == [kind |-> "not yet"]

(* Mutant: keeps what it read, a refusal too.                              *)
KeepWhatever(old, found) == found

Keep(old, found) == IF IsRefusal(found) THEN old ELSE found

-----------------------------------------------------------------------------
(* from_node: the heap, its signature, and the shape of its BTH.           *)
OpenRefusal(ctx) ==
    CASE ctx.node # NoError -> ctx.node
      [] ctx.node = NoError /\ ~ctx.isPC -> "PstFormatError"
      [] ctx.node = NoError /\ ctx.isPC /\ ctx.tree # NoError -> ctx.tree
      [] OTHER -> IF ctx.shape THEN NoError ELSE "PstFormatError"

(* One leaf, checked before the next is read.                              *)
RecordRefusal(ctx, i) ==
    IF ctx.records[i].type \notin PropType THEN "PstUnsupportedError"
    ELSE IF \E j \in 1..(i - 1) : ctx.records[j].id = ctx.records[i].id THEN "PstFormatError"
    ELSE IF Exceeds(i, MaxPropertyCount) THEN "PstLimitError"
    ELSE NoError

(* dict(sorted(...)): no two records have the same id here. *)
InIdOrder(records) ==
    LET Place(r) == Cardinality({q \in ToSet(records) : q.id <= r.id})
    IN [k \in DOMAIN records |-> CHOOSE r \in ToSet(records) : Place(r) = k]

Records(ctx) ==
    LET bad == {i \in DOMAIN ctx.records : RecordRefusal(ctx, i) # NoError}
    IN IF bad # {} THEN Refused(RecordRefusal(ctx, Min(bad)))
       ELSE IF ctx.then # NoError THEN Refused(ctx.then)
       ELSE [kind |-> "records", records |-> InIdOrder(ctx.records)]

Ids(records) == {records.records[i].id : i \in DOMAIN records.records}
RecordOf(records, id) ==
    records.records[CHOOSE i \in DOMAIN records.records : records.records[i].id = id]

(* records: read on first use and kept. *)
RecordsIn(ctx, kept) == IF kept.records = NotYet THEN Records(ctx) ELSE kept.records

-----------------------------------------------------------------------------
(* get_hnid: an item of the heap is in memory, a sub-node is read from the *)
(* file, which raises ValueError once it is closed.                        *)
Fetch(ctx, hnid, open) ==
    IF hnid % HidTypes = 0
    THEN IF hnid \in DOMAIN ctx.items THEN ctx.items[hnid] ELSE BadFormat
    ELSE IF hnid \notin DOMAIN ctx.nodes THEN Refused("PstNotFoundError")
    ELSE IF ~open THEN Refused("ValueError")
    ELSE ctx.nodes[hnid]

(* The types whose value is the four bytes, and those that are always in   *)
(* the heap.                                                               *)
InlineWidths == [NULL |-> 0, SHORT |-> 2, LONG |-> 4, FLOAT |-> 4, ERROR |-> 4, BOOLEAN |-> 1]
HeapOnlyTypes == {"DOUBLE", "CURRENCY", "APPTIME", "LONGLONG", "SYSTIME", "GUID", "OBJECT"}

IsNull(record) == record.type \notin DOMAIN InlineWidths /\ record.raw = 0

Inline(record) ==
    LET width == InlineWidths[record.type]
    IN Binary(ToBytes(record.raw % Numbers[width], width))

Data(ctx, record, open) ==
    IF record.type \in DOMAIN InlineWidths THEN Inline(record)
    ELSE IF record.type \in HeapOnlyTypes /\ record.raw % HidTypes # 0 THEN BadFormat
    ELSE Fetch(ctx, record.raw, open)

(* read; no inline type has text in a code page. *)
Value(ctx, record, open) ==
    IF IsNull(record) THEN None
    ELSE Given(Data(ctx, record, open),
               LAMBDA data : decode(record.type, data.bytes, ctx.codepage))

(* get: absent and null are both None. *)
GetValue(ctx, records, id, open) ==
    IF id \in Ids(records) THEN Value(ctx, RecordOf(records, id), open) ELSE None

-----------------------------------------------------------------------------
(* Reference: where a writer leaves a value of its type, in the record or  *)
(* where the record says.                                                  *)
IsStored(ctx, record, value) ==
    LET bytes == encode(record.type, value)
    IN /\ value \in Values(record.type)
       /\ IF record.type \in DOMAIN InlineWidths
          THEN record.raw % Numbers[InlineWidths[record.type]] = LittleEndian(bytes)
          ELSE /\ record.raw # 0 /\ Fetch(ctx, record.raw, TRUE) = Binary(bytes)
               /\ record.type \in HeapOnlyTypes => record.raw % HidTypes = 0

(* The context has a record of each value a writer meant it to have.       *)
HasWhatWasMeant(ctx) ==
    \A id \in DOMAIN ctx.meant :
        /\ ctx.codepage /\ ~IsRefusal(Records(ctx)) /\ id \in Ids(Records(ctx))
        /\ IsStored(ctx, RecordOf(Records(ctx), id), ctx.meant[id])

=============================================================================
