----------------------------- MODULE NamedProps ------------------------------
(***************************************************************************)
(* messaging/named_prop.py: what a property id of 0x8000 or above means in *)
(* this store, a property set and a name or number in it.  The map is a    *)
(* property context whose values are streams: GUIDs, entries (NAMEIDs) and *)
(* strings, and a hash table whose buckets hold copies of the entries.     *)
(*                                                                         *)
(* What the object has built is the record kept: the context's records,    *)
(* the GUIDs, the entries, and two indexes over the same entries, one by   *)
(* property id and one by name.  Each is built on first use and kept only  *)
(* if nothing refuses; tried says which ones a call builds on its way.     *)
(***************************************************************************)
EXTENDS PropContext

CONSTANTS BucketBase,                \* the property id of the first hash bucket
          MaxItems,                  \* GUIDs or NAMEIDs in one stream
          PsMapi, PsPublicStrings,   \* the two property sets that have numbers
          ReplacementUnit,           \* what stands for an unpaired surrogate
          Crc(_),                    \* block.py compute_crc from 0
          ExclusiveOr(_, _)

ASSUME NamedPropsAssumption == BucketBase \in Nat \ {0, 1, 2, 3, 4} /\ MaxItems \in Nat

(* The ids of the streams, and the first named property: half of a u16. *)
BucketCountId == 1
GuidStream == 2
EntryStream == 3
StringStream == 4
NamedBase == Numbers[2] \div 2
MaxBucketCount == Numbers[2] - 1 - BucketBase

KeptByNames == [records |-> NotYet, guids |-> NotYet, entries |-> NotYet,
                byPropId |-> NotYet, byName |-> NotYet]

-----------------------------------------------------------------------------
(* A stream is a property that is there and is binary. *)
Stream(ctx, kept, id, open) ==
    Given(RecordsIn(ctx, kept), LAMBDA records :
        IF id \notin Ids(records) THEN BadFormat
        ELSE Given(Value(ctx, RecordOf(records, id), open), LAMBDA value :
                 IF value.kind = "bytes" THEN value ELSE BadFormat))

(* A stream of whole items of one size, each unpacked by Item. *)
Unpacked(stream, size, Item(_), kind) ==
    Given(stream, LAMBDA s :
        LET count == Len(s.bytes) \div size
            Slice(i) == SubSeq(s.bytes, (i - 1) * size + 1, i * size)
        IN IF Len(s.bytes) % size # 0 THEN BadFormat
           ELSE IF Exceeds(count, MaxItems) THEN Refused("PstLimitError")
           ELSE Given(Tuple([i \in 1..count |-> Item(Slice(i))]), LAMBDA tuple :
                    [kind |-> kind, items |-> tuple.items]))

Guids(ctx, kept, open) ==
    IF kept.guids # NotYet THEN kept.guids
    ELSE Unpacked(Stream(ctx, kept, GuidStream, open), GuidSize, Guid, "guids")

(* NameIdEntry.unpack_from: the guid's number and the string flag share a  *)
(* field.                                                                  *)
NameIdSize == 8
NameId(raw) ==
    LET field == LittleEndian(SubSeq(raw, 5, 6))
        index == LittleEndian(SubSeq(raw, 7, 8))
    IN IF index >= NamedBase THEN BadFormat
       ELSE [kind |-> "entry", name_id |-> LittleEndian(SubSeq(raw, 1, 4)),
             guid |-> field \div 2, is_string |-> field % 2 = 1, prop_id |-> NamedBase + index]

Entries(ctx, kept, open) ==
    IF kept.entries # NotYet THEN kept.entries
    ELSE Unpacked(Stream(ctx, kept, EntryStream, open), NameIdSize, NameId, "entries")

(* string_bytes: a length and that many bytes, inside the stream. *)
StringBytes(ctx, kept, offset, open) ==
    Given(Stream(ctx, kept, StringStream, open), LAMBDA stream :
        LET start == offset + CountSize
            size == LittleEndian(SubSeq(stream.bytes, offset + 1, start))
        IN IF start > Len(stream.bytes) THEN BadFormat
           ELSE IF size % 2 # 0 \/ start + size > Len(stream.bytes) THEN BadFormat
           ELSE Binary(SubSeq(stream.bytes, start + 1, start + size)))

(* lookup_string: an unpaired surrogate is replaced, and nothing refused. *)
Lossy(units) ==
    [i \in DOMAIN units |->
        IF \/ units[i] \in HighSurrogates /\ ~(i < Len(units) /\ units[i + 1] \in LowSurrogates)
           \/ units[i] \in LowSurrogates /\ ~(i > 1 /\ units[i - 1] \in HighSurrogates)
        THEN ReplacementUnit ELSE units[i]]

LookupString(ctx, kept, offset, open) ==
    Given(StringBytes(ctx, kept, offset, open),
          LAMBDA raw : [kind |-> "str", units |-> Lossy(Units(raw.bytes))])

-----------------------------------------------------------------------------
(* guid_of and name_of: what an entry means. *)
FirstStoredGuid == 3
NullGuid == [i \in 1..GuidSize |-> 0]
NamesStoredGuid(entry) == entry.guid >= FirstStoredGuid

GuidOf(ctx, kept, entry, open) ==
    CASE entry.guid = 0 -> Guid(NullGuid)
      [] entry.guid = 1 -> Guid(PsMapi)
      [] entry.guid = 2 -> Guid(PsPublicStrings)
      [] OTHER -> Given(Guids(ctx, kept, open), LAMBDA guids :
                     LET at == entry.guid - FirstStoredGuid + 1
                     IN IF at > Len(guids.items) THEN BadFormat ELSE guids.items[at])

NameOf(ctx, kept, entry, open) ==
    IF entry.is_string THEN LookupString(ctx, kept, entry.name_id, open)
    ELSE [kind |-> "int", int |-> entry.name_id]

Meaning(ctx, kept, entry, open) ==
    Given(GuidOf(ctx, kept, entry, open), LAMBDA guid :
        Given(NameOf(ctx, kept, entry, open), LAMBDA name :
            [kind |-> "named", guid |-> guid.uuid, name |-> name]))

(* _index: by property id, an id that appears twice refuses them all.      *)
ByPropId(ctx, kept, open) ==
    IF kept.byPropId # NotYet THEN kept.byPropId
    ELSE Given(Entries(ctx, kept, open), LAMBDA entries :
        LET At(id) == CHOOSE e \in ToSet(entries.items) : e.prop_id = id
        IN IF \E i, j \in DOMAIN entries.items :
                 i < j /\ entries.items[i].prop_id = entries.items[j].prop_id
           THEN BadFormat
           ELSE [kind |-> "index",
                 of |-> [id \in {e.prop_id : e \in ToSet(entries.items)} |-> At(id)]])

(* The index resolve builds: of two entries that mean the same the first   *)
(* wins, and an entry whose meaning refuses refuses them all.              *)
Meanings(ctx, kept, entries, open) ==
    Tuple([i \in DOMAIN entries.items |-> Meaning(ctx, kept, entries.items[i], open)])

(* Mutant: the last entry wins. *)
EntryOfLast(meanings, n) == Max({i \in DOMAIN meanings : meanings[i] = n})

EntryOf(meanings, n) == Min({i \in DOMAIN meanings : meanings[i] = n})

ByName(ctx, kept, open) ==
    IF kept.byName # NotYet THEN kept.byName
    ELSE Given(Entries(ctx, kept, open), LAMBDA entries :
        Given(Meanings(ctx, kept, entries, open), LAMBDA meanings :
            [kind |-> "index",
             of |-> [n \in ToSet(meanings.items) |->
                        entries.items[EntryOf(meanings.items, n)].prop_id]]))

Lookup(ctx, kept, id, open) ==
    Given(ByPropId(ctx, kept, open), LAMBDA index :
        IF id \notin DOMAIN index.of THEN None ELSE Meaning(ctx, kept, index.of[id], open))

Resolve(ctx, kept, named, open) ==
    Given(ByName(ctx, kept, open), LAMBDA index :
        IF named \notin DOMAIN index.of THEN None ELSE [kind |-> "int", int |-> index.of[named]])

-----------------------------------------------------------------------------
(* The hash table.  bucket_count looks at the entries only if it is zero.  *)
CountRecord(ctx, kept, open) ==
    Given(RecordsIn(ctx, kept), LAMBDA records :
        IF BucketCountId \notin Ids(records) THEN BadFormat
        ELSE IF RecordOf(records, BucketCountId).type # "LONG" THEN BadFormat
        ELSE Value(ctx, RecordOf(records, BucketCountId), open))

CountIsZero(ctx, kept, open) == CountRecord(ctx, kept, open) = [kind |-> "int", int |-> 0]

BucketCount(ctx, kept, open) ==
    Given(CountRecord(ctx, kept, open), LAMBDA count :
        LET stray == \E id \in Ids(RecordsIn(ctx, kept)) : id - BucketBase >= count.int
            Counted == IF stray THEN BadFormat ELSE count
        IN IF count.int \notin 0..MaxBucketCount THEN BadFormat
           ELSE IF count.int # 0 THEN Counted
           ELSE Given(Entries(ctx, kept, open), LAMBDA entries :
                    IF entries.items # <<>> THEN BadFormat ELSE Counted))

(* hash_value, over the guid's number and the string flag. *)
HashValue(entry) == ExclusiveOr(entry.name_id, 2 * entry.guid + (IF entry.is_string THEN 1 ELSE 0))

(* Mutant: without the number of the property set, as upstream has it.     *)
HashEntryNoGuid(ctx, kept, entry, open) ==
    IF ~entry.is_string THEN entry
    ELSE Given(StringBytes(ctx, kept, entry.name_id, open),
               LAMBDA raw : [entry EXCEPT !.name_id = Crc(raw.bytes), !.guid = 0])

(* hash_entry: a string is hashed by its bytes and not by where they are.  *)
HashEntry(ctx, kept, entry, open) ==
    IF ~entry.is_string THEN entry
    ELSE Given(StringBytes(ctx, kept, entry.name_id, open),
               LAMBDA raw : [entry EXCEPT !.name_id = Crc(raw.bytes)])

HashBucket(ctx, kept, entry, open) ==
    Given(HashEntry(ctx, kept, entry, open), LAMBDA hashed :
        Given(BucketCount(ctx, kept, open), LAMBDA count :
            LET bucket == BucketBase + (HashValue(hashed) % count.int)
            IN IF count.int = 0 THEN BadFormat
               ELSE IF bucket \notin Ids(RecordsIn(ctx, kept)) THEN Refused("PstNotFoundError")
               ELSE Unpacked(Stream(ctx, kept, bucket, open), NameIdSize, NameId, "entries")))

-----------------------------------------------------------------------------
(* Reference: the hash table as a writer leaves it ([MS-PST] 2.4.7.5).  A  *)
(* bucket holds copies of NAMEIDs, and each is in the bucket of its id     *)
(* exclusive-or its field; the id of a string is the CRC of its bytes.     *)
IdField(raw) == LittleEndian(SubSeq(raw, 1, 4))
FlagField(raw) == LittleEndian(SubSeq(raw, 5, 6))
IndexField(raw) == LittleEndian(SubSeq(raw, 7, 8))

NameIds(bytes) ==
    {SubSeq(bytes, (i - 1) * NameIdSize + 1, i * NameIdSize) : i \in 1..(Len(bytes) \div NameIdSize)}

(* A string lies at its offset, its size in front of it. *)
SizeAt(strings, offset) == LittleEndian(SubSeq(strings, offset + 1, offset + CountSize))
LiesAt(strings, offset) == /\ offset + CountSize <= Len(strings) /\ SizeAt(strings, offset) % 2 = 0
                           /\ offset + CountSize + SizeAt(strings, offset) <= Len(strings)
StringAt(strings, offset) ==
    SubSeq(strings, offset + CountSize + 1, offset + CountSize + SizeAt(strings, offset))

HashedId(strings, raw) ==
    IF FlagField(raw) % 2 = 1 THEN Crc(StringAt(strings, IdField(raw))) ELSE IdField(raw)

IsCopy(copy, raw, strings) ==
    /\ IdField(copy) = HashedId(strings, raw)
    /\ FlagField(copy) = FlagField(raw) /\ IndexField(copy) = IndexField(raw)

(* Each NAMEID has a copy in its bucket, which holds copies alone.         *)
HoldsCopies(bucket, raw, named, strings) ==
    /\ Len(bucket) % NameIdSize = 0 /\ Len(bucket) \div NameIdSize <= MaxItems
    /\ \E copy \in NameIds(bucket) : IsCopy(copy, raw, strings)
    /\ \A copy \in NameIds(bucket) : \E other \in named : IsCopy(copy, other, strings)

(* No bucket lies beyond the count, which no id of the map may pass.       *)
IsHashed(ctx) ==
    LET meant == ctx.meant
        count == meant[BucketCountId].int
        strings == meant[StringStream].bytes
        named == NameIds(meant[EntryStream].bytes)
        BucketOf(raw) == BucketBase + (ExclusiveOr(HashedId(strings, raw), FlagField(raw)) % count)
    IN /\ {BucketCountId, EntryStream, StringStream} \subseteq DOMAIN meant
       /\ {meant[EntryStream], meant[StringStream]} \subseteq Values("BINARY")
       /\ RecordOf(Records(ctx), BucketCountId).type = "LONG" /\ count \in 1..MaxBucketCount
       /\ \A id \in Ids(Records(ctx)) : id - BucketBase < count
       /\ \A raw \in named :
            /\ FlagField(raw) % 2 = 1 => LiesAt(strings, IdField(raw))
            /\ BucketOf(raw) \in DOMAIN meant /\ meant[BucketOf(raw)] \in Values("BINARY")
            /\ HoldsCopies(meant[BucketOf(raw)].bytes, raw, named, strings)

-----------------------------------------------------------------------------
(* A call on the map: its answer, and what it builds.                      *)
NamesAnswer(ctx, kept, call, open) ==
    CASE call.op = "guids" -> Guids(ctx, kept, open)
      [] call.op = "entries" -> Entries(ctx, kept, open)
      [] call.op = "bucket_count" -> BucketCount(ctx, kept, open)
      [] call.op = "lookup" -> Lookup(ctx, kept, call.id, open)
      [] call.op = "resolve" -> Resolve(ctx, kept, call.named, open)
      [] call.op = "hash_bucket" -> HashBucket(ctx, kept, call.entry, open)

(* The entries resolve looks at: up to the first that refuses. *)
ItemsOf(stream) == IF IsRefusal(stream) THEN <<>> ELSE stream.items

UpToFirst(items, Refuses(_)) ==
    LET bad == {i \in DOMAIN items : Refuses(items[i])}
    IN {items[i] : i \in 1..(IF bad = {} THEN Len(items) ELSE Min(bad))}

Examined(ctx, kept, open) ==
    UpToFirst(ItemsOf(Entries(ctx, kept, open)),
              LAMBDA e : IsRefusal(Meaning(ctx, kept, e, open)))

LookedUp(index, id) ==
    IF IsRefusal(index) \/ id \notin DOMAIN index.of THEN {} ELSE {index.of[id]}

GuidsOfAny(entries) == IF \E e \in entries : NamesStoredGuid(e) THEN {"guids"} ELSE {}

Tried(ctx, kept, call, open) ==
    CASE call.op = "guids" -> {"guids"}
      [] call.op = "entries" -> {"entries"}
      [] call.op = "bucket_count" -> IF CountIsZero(ctx, kept, open) THEN {"entries"} ELSE {}
      [] call.op = "lookup" ->
            {"entries", "byPropId"} \cup GuidsOfAny(LookedUp(ByPropId(ctx, kept, open), call.id))
      [] call.op = "resolve" -> {"entries", "byName"} \cup GuidsOfAny(Examined(ctx, kept, open))
      [] call.op = "hash_bucket" ->
            IF ~IsRefusal(HashEntry(ctx, kept, call.entry, open)) /\ CountIsZero(ctx, kept, open)
            THEN {"entries"} ELSE {}

KeptAfter(ctx, kept, call, open) ==
    LET tried == Tried(ctx, kept, call, open) \cup {"records"}
        Built(part) == CASE part = "records" -> RecordsIn(ctx, kept)
                         [] part = "guids" -> Guids(ctx, kept, open)
                         [] part = "entries" -> Entries(ctx, kept, open)
                         [] part = "byPropId" -> ByPropId(ctx, kept, open)
                         [] part = "byName" -> ByName(ctx, kept, open)
    IN [part \in DOMAIN kept |->
           IF part \in tried THEN Keep(kept[part], Built(part)) ELSE kept[part]]

=============================================================================
