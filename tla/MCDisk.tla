-------------------------------- MODULE MCDisk --------------------------------
(***************************************************************************)
(* Disk with bytes of four values, pages of nine fields for entries, and   *)
(* blocks of up to twenty.  A file has a header, a page, a density list    *)
(* and a block, as a writer stores them; then each of them as no writer    *)
(* does, each with one thing changed, and the file cut short anywhere.     *)
(***************************************************************************)
EXTENDS Disk, Bitwise

Table(values) == [b \in Byte |-> values[b + 1]]
MCPermuted == Table(<<2, 0, 3, 1>>)
MCRestored == Table(<<1, 3, 0, 2>>)
MCSwapped == Table(<<1, 0, 3, 2>>)
MCExclusiveOr(a, b) == a ^^ b
MCCrc(fields) == FoldLeft(LAMBDA crc, f : (5 * crc + (f % 8191) + 1) % 8191, 0, fields)

MCPlaces == {0, 72}
PageIndex == 32
BlockIndex == 72

-----------------------------------------------------------------------------
(* Headers. *)
Unsealed(crypt) ==
    [f \in ToSet(HeaderFields) |->
        CASE f = "magic" -> 1313096225 [] f = "magic_client" -> 19795 [] f = "version" -> 23
          [] f = "client_version" -> 19 [] f \in {"platform_create", "platform_access"} -> 1
          [] f \in {"align", "reserved"} -> 0 [] f = "sentinel" -> 128
          [] f = "crypt_method" -> crypt [] f = "amap_valid" -> 2 [] OTHER -> At(f)]

Sealed(h) == [h EXCEPT !["crc_partial"] = Crc(Covered(h, "free_page_map")),
                       !["crc_full"] = Crc(Covered(h, "next_block"))]

Kinded(image, kind) == ("kind" :> kind) @@ image
HeaderOf(crypt) == Kinded(Sealed(Unsealed(crypt)), "header")

MeansHeader(crypt, amap) ==
    [kind |-> "header", crypt_method |-> crypt, next_page |-> 10, next_block |-> 29, unique |-> 11,
     root |-> [file_eof |-> 13, amap_last |-> 14, amap_free |-> 15, pmap_free |-> 16,
               amap_is_valid |-> amap, node_btree |-> [page |-> 17, index |-> 18],
               block_btree |-> [page |-> 19, index |-> 20]]]

-----------------------------------------------------------------------------
(* Pages: entries of so many fields each, and how many would fit. *)
Padded(fields, n) == <<>> \o [i \in 1..n |-> IF i \in DOMAIN fields THEN fields[i] ELSE 0]
Trailer(type, data) ==
    [page_type |-> type, page_type_repeat |-> type, signature |-> 0, crc |-> Crc(data), id |-> 3]
SealedPage(page, type) == [kind |-> "page", trailer |-> Trailer(type, PageData(page))] @@ page

PageOf(type, level, size, max, records) ==
    SealedPage([area |-> Padded(FlattenSeq([i \in DOMAIN records |-> Padded(records[i], size)]), AreaSize),
                count |-> Len(records), max_entries |-> max, entry_size |-> size,
                level |-> level, padding |-> 0], type)

Is(tree, image, value) == [tree |-> tree, image |-> image, value |-> value]
PageValue(level, entries) == [kind |-> "page", level |-> level, entries |-> entries]

Of(type, index) == NodeFromParts(type, index).raw
Child(key) == [key |-> key, page |-> 5, index |-> 6]
Stored(bid, size) == [block |-> bid, index |-> 8, size |-> size]
Held(type, index, sub, parent) ==
    [node |-> [type |-> type, index |-> index], data |-> 7, sub_node |-> sub, parent |-> parent]

GoodPages ==
    {Is("BBT", PageOf("BBT", 0, 3, 3, <<<<12, 8, 1>>, <<14, 8, 9>>>>),
        PageValue(0, <<Stored(12, 1), Stored(14, 9)>>)),
     Is("BBT", PageOf("BBT", 0, 3, 3, <<<<12, 8, 1>>, <<14, 8, 9>>, <<17, 8, 2>>>>),
        PageValue(0, <<Stored(12, 1), Stored(14, 9), Stored(17, 2)>>)),
     Is("BBT", PageOf("BBT", 0, 4, 2, <<<<12, 8, 1, 9>>, <<14, 8, 9, 9>>>>),
        PageValue(0, <<Stored(12, 1), Stored(14, 9)>>)),
     Is("NBT", PageOf("NBT", 0, 4, 2, <<<<Of(4, 1), 7, 1, 0>>, <<Of(31, 3), 7, 5, Of(2, 1)>>>>),
        PageValue(0, <<Held(4, 1, NoBlock, 0), Held(31, 3, 5, 34)>>)),
     Is("NBT", PageOf("NBT", 0, 9, 1, <<<<Of(4, 1) + 5, 7, 0, 0>>>>),
        PageValue(0, <<Held("PstFormatError", 1, NoBlock, 0)>>)),
     Is("NBT", PageOf("BBT", 2, 3, 3, <<<<Of(4, 1), 5, 6>>>>), PageValue(2, <<Child(36)>>)),
     Is("BBT", PageOf("BBT", 3, 3, 3, <<<<NodeBase, 5, 6>>>>), PageValue(3, <<Child(NodeBase)>>)),
     Is("BBT", PageOf("BBT", 1, 3, 0, <<>>), PageValue(1, <<>>))}

BadPages ==
    {Is("NBT", PageOf("NBT", level, 4, 2, <<<<NodeBase, 7, 0, 0>>>>), BadFormat) : level \in {0, 1}}
    \cup {Is(tree, PageOf(type, level, 4, 2, <<<<1, 2, 3, 4>>>>), BadFormat) :
             tree \in {"BBT", "NBT"}, type \in {"AMAP", "unknown"}, level \in {0, 1}}
    \cup {Is("NBT", PageOf("BBT", 0, 4, 2, <<<<1, 2, 3, 4>>>>), BadFormat),
          Is("NBT", PageOf("NBT", 0, 3, 3, <<<<1, 2, 3>>>>), BadFormat),
          Is("BBT", PageOf("BBT", 4, 3, 3, <<>>), BadFormat),
          Is("BBT", PageOf("BBT", 0, 3, 2, <<<<1, 2, 3>>, <<1, 2, 3>>, <<1, 2, 3>>>>), BadFormat),
          Is("BBT", PageOf("BBT", 0, 4, 3, <<<<1, 2, 3>>, <<1, 2, 3>>, <<1, 2, 3>>>>), BadFormat),
          Is("BBT", PageOf("BBT", 0, 0, 3, <<>>), BadFormat),
          Is("BBT", PageOf("BBT", 1, 10, 1, <<>>), BadFormat)}

AnyPage == PageOf("BBT", 1, 3, 3, <<<<1, 5, 6>>>>)

(* One field of a page changed: an entry's, its header's, its type's. *)
DamagedPages ==
    UNION {{[p EXCEPT !.image.area[i] = @ + 1] : i \in 1..AreaSize}
           \cup {[p EXCEPT !.image.count = @ + 1], [p EXCEPT !.image.count = 0],
                 [p EXCEPT !.image.max_entries = @ + 1], [p EXCEPT !.image.entry_size = @ + 1],
                 [p EXCEPT !.image.level = 1 - @], [p EXCEPT !.image.padding = 1],
                 [p EXCEPT !.image.trailer.page_type = "DL"],
                 [p EXCEPT !.image.trailer.page_type_repeat = "NBT"],
                 [p EXCEPT !.image.trailer.crc = @ + 1]} : p \in {p \in GoodPages : p.image.level < 2}}

-----------------------------------------------------------------------------
(* The density list. *)
SealedList(list) == [kind |-> "list", trailer |-> Trailer("DL", DensityData(list))] @@ list
ListOf(flags, count) ==
    SealedList([flags |-> flags, count |-> count, padding |-> 0, current_page |-> 4,
                area |-> <<>> \o [i \in 1..DensityMax |-> PageBase * i + 1], tail |-> 0])
ListValue(flags, count) ==
    [kind |-> "density list", backfill_complete |-> flags, current_page |-> 4,
     entries |-> [i \in 1..count |-> [page |-> 1, free_slots |-> i]]]

Lists ==
    {<<ListOf(flags, count), ListValue(flags = 1, count)>> : flags \in {0, 1}, count \in {0, 2, DensityMax}}
    \cup {<<ListOf(0, DensityMax + 1), BadFormat>>,
          <<SealedList([ListOf(0, 1) EXCEPT !.padding = 1]), BadFormat>>,
          <<SealedList([ListOf(0, 1) EXCEPT !.tail = 1]), BadFormat>>,
          <<[ListOf(0, 1) EXCEPT !.trailer.page_type = "BBT", !.trailer.page_type_repeat = "BBT"], BadFormat>>,
          <<[ListOf(0, 1) EXCEPT !.area[9] = 0], BadFormat>>}

-----------------------------------------------------------------------------
(* Blocks, each with the size its entry states.  A writer puts the trailer *)
(* at the end of the allocation.                                           *)
DataBid == BlockFromParts(FALSE, 40)
TreeBid == BlockFromParts(TRUE, 3)
Missing == BlockFromParts(TRUE, 9)

TrailerOf(bid, size, fields) ==
    [size |-> size, signature |-> 0, crc |-> Crc(fields), block_id |-> bid]

WithTrailer(bid, fields, offset) ==
    [kind |-> "block", fields |-> fields,
     trailers |-> (offset :> TrailerOf(bid, Len(fields), fields))]

AtEnd(bid, fields) == WithTrailer(bid, fields, block_size(Len(fields)) - BlockTrailerSize)

Block(op, bid, image, size, value) ==
    [op |-> op, bid |-> bid, image |-> image, size |-> size, value |-> value]

Encoded(data, method) ==
    CASE method = 0 -> data [] method = 1 -> encode_permute(data)
      [] method = 2 -> encode_decode_cyclic(data, DataBid)

Bytes == {<<3>>, <<0, 1, 2, 3>>, <<>> \o [i \in 1..20 |-> i % 4]}

DataBlocks(method) ==
    {Block("data tree", bid, AtEnd(bid, Encoded(data, method)), Len(data),
           [kind |-> "data", data |-> data]) : bid \in {DataBid, DataBid + 1}, data \in Bytes}

XBlockFields(bids) == <<1, 1, Len(bids), 9>> \o bids
XBlockValue(bids) == [kind |-> "xblock", level |-> 1, total |-> 9, below |-> bids]
Tree(op, fields, value) == Block(op, TreeBid, AtEnd(TreeBid, fields), Len(fields), value)
XBlockOf(bids, slack) == Tree("data tree", XBlockFields(bids) \o slack, XBlockValue(bids))

Subnodes(level, padding, records) == <<2, level, Len(records), padding>> \o FlattenSeq(records)
SLBlock(records, leaves) == Tree("subnode block", Subnodes(0, 0, records), [kind |-> "slblock", leaves |-> leaves])
SIBlock(records, below) ==
    Tree("subnode block", Subnodes(1, 0, records), [kind |-> "siblock", level |-> 1, below |-> below])

Below(type, index, bid) == [node |-> [type |-> type, index |-> index], next_level |-> bid]
LeafOf(type, index, data, sub) == [node |-> [type |-> type, index |-> index], data |-> data, sub_node |-> sub]

TreeBlocks ==
    {XBlockOf(<<>>, <<>>), XBlockOf(<<12>>, <<>>), XBlockOf(<<12, 14, 12, 12>>, <<>>),
     XBlockOf([i \in 1..16 |-> i], <<>>), XBlockOf(<<12>>, Padded(<<>>, 8)),
     Block("data tree", TreeBid, WithTrailer(TreeBid, XBlockFields(<<>>) \o <<0>>, 5), 5, XBlockValue(<<>>)),
     SLBlock(<<>>, <<>>), SLBlock(<<<<Of(4, 1), 12, 1>>>>, <<LeafOf(4, 1, 12, NoBlock)>>),
     SLBlock(<<<<NodeBase + Of(5, 2), 12, 14>>, <<Of(17, 0), 16, 0>>>>,
             <<LeafOf(5, 2, 12, 14), LeafOf(17, 0, 16, NoBlock)>>),
     SIBlock(<<<<NodeBase + Of(4, 1), 14>>, <<Of(4, 2), 18>>>>, <<Below(4, 1, 14), Below(4, 2, 18)>>)}

Refusing(op, bid, image, size) == Block(op, bid, image, size, BadFormat)

BadBlocks ==
    {Refusing("data tree", TreeBid, AtEnd(bid, <<type, 1, count, 0, 12>>), 5) :
        bid \in {DataBid, TreeBid}, type \in {0, 2}, count \in {1, 2}}
    \cup {Refusing("data tree", TreeBid, AtEnd(TreeBid, <<1, 1, 2, 0, 12>>), 5),
          Refusing("data tree", TreeBid, AtEnd(TreeBid, <<1, 1, 0>>), 3),
          Refusing("data tree", TreeBid, AtEnd(TreeBid, XBlockFields(<<12>>) \o <<0>>), 6),
          Refusing("data tree", TreeBid, AtEnd(TreeBid, XBlockFields(<<>>)), 0),
          Refusing("data tree", TreeBid, AtEnd(TreeBid, XBlockFields(<<>>)), 21),
          Refusing("data tree", DataBid, AtEnd(TreeBid, <<3>>), 1),
          Refusing("data tree", DataBid, AtEnd(DataBid, <<3>>), 2),
          Refusing("data tree", TreeBid, [kind |-> "zeros"], 5),
          Refusing("subnode block", TreeBid, AtEnd(TreeBid, Subnodes(0, 1, <<>>)), 4),
          Refusing("subnode block", TreeBid, AtEnd(TreeBid, Subnodes(1, 0, <<<<1, 2>>, <<3>>>>)), 7),
          Refusing("subnode block", TreeBid, AtEnd(TreeBid, XBlockFields(<<>>)), 4),
          Block("data tree", Missing, AtEnd(TreeBid, <<3>>), 1, Refused("PstNotFoundError"))}

(* One field of a block, of its trailer, or of the entry of the B-tree changed. *)
DamagedBlocks(blocks) ==
    UNION {LET offset == CHOOSE o \in DOMAIN b.image.trailers : TRUE IN
           {[b EXCEPT !.image.fields[i] = (@ + 1) % 256] : i \in DOMAIN b.image.fields}
           \cup {[b EXCEPT !.image.trailers[offset].size = @ + 1],
                 [b EXCEPT !.image.trailers[offset].size = 0],
                 [b EXCEPT !.image.trailers[offset].crc = @ + 1],
                 [b EXCEPT !.image.trailers[offset].block_id = @ + 2],
                 [b EXCEPT !.size = @ + 1], [b EXCEPT !.size = @ - 1]} : b \in blocks}

-----------------------------------------------------------------------------
(* Files. *)
HeaderCall == [op |-> "header"]
ListCall == [op |-> "density list"]
PageCall(tree, index) == [op |-> "page", tree |-> tree, index |-> index]
BlockCall(b) == [op |-> b.op, block |-> b.bid]

FileAt(crypt, p, pageIndex, list, b, blockIndex) ==
    [size |-> MaxFileSize, sound |-> TRUE,
     at |-> 0 :> HeaderOf(crypt) @@ DensityListIndex :> list[1]
            @@ pageIndex :> p.image @@ blockIndex :> b.image,
     pages |-> {pageIndex}, bids |-> {b.bid, DataBid},
     blocks |-> IF b.bid = Missing THEN <<>>
                ELSE SearchKey(b.bid) :> [block |-> b.bid, index |-> blockIndex, size |-> b.size],
     meant |-> HeaderCall :> MeansHeader(crypt, 2) @@ ListCall :> list[2]
               @@ PageCall(p.tree, pageIndex) :> p.value @@ BlockCall(b) :> b.value]

SomeList == <<ListOf(1, 2), ListValue(TRUE, 2)>>
SomePage == CHOOSE p \in GoodPages : p.image.level = 2
SomeBlock == XBlockOf(<<12>>, <<>>)

File(p, list, b) == FileAt(0, p, PageIndex, list, b, BlockIndex)
Plain == File(SomePage, SomeList, SomeBlock)

(* Headers that are not what a reader takes; what is meant is the refusal. *)
HeaderRefused(field, value, class) ==
    [Plain EXCEPT !.at[0] = Kinded(Sealed([@ EXCEPT ![field] = value]), "header"),
                  !.meant[HeaderCall] = Refused(class)]

Headers ==
    {HeaderRefused("version", v, "PstUnsupportedError") : v \in {14, 15, 36, 37}}
    \cup {HeaderRefused(f, 77, "PstFormatError") :
             f \in {"magic", "magic_client", "version", "client_version", "platform_create",
                    "platform_access", "align", "sentinel", "crypt_method", "reserved"}}
    \cup {HeaderRefused("crypt_method", 16, "PstUnsupportedError"),
          [Plain EXCEPT !.at[0] = Kinded(Sealed([@ EXCEPT !["amap_valid"] = 3]), "header"),
                        !.meant[HeaderCall] = MeansHeader(0, 0)],
          [Plain EXCEPT !.at[0] = [@ EXCEPT !["reserved3"] = 99]]}

Damaged(file) == [file EXCEPT !.sound = FALSE]

(* At the end of the largest file, and one past it. *)
LastPage == MaxFileSize - PageSize
LastBlock == MaxFileSize - block_size(5)
Past(file, call) == [file EXCEPT !.meant[call] = BadFormat]

MCDisks ==
    {File(p, SomeList, SomeBlock) : p \in GoodPages \cup BadPages}
    \cup {File(SomePage, list, SomeBlock) : list \in Lists}
    \cup {FileAt(method, SomePage, PageIndex, SomeList, b, BlockIndex) : method \in {1, 2}, b \in TreeBlocks}
    \cup UNION {{FileAt(m, SomePage, PageIndex, SomeList, b, BlockIndex) : b \in DataBlocks(m)} : m \in 0..2}
    \cup {File(SomePage, SomeList, b) : b \in BadBlocks}
    \cup Headers
    \cup {Damaged([Plain EXCEPT !.at[0] = [@ EXCEPT ![f] = @ + 1]]) : f \in ToSet(HeaderFields)}
    \cup {Damaged(File(p, SomeList, SomeBlock)) : p \in DamagedPages}
    \cup {Damaged(File(SomePage, SomeList, b)) : b \in DamagedBlocks(TreeBlocks \cup DataBlocks(0))}
    \cup {Damaged([Plain EXCEPT !.size = n]) : n \in 0..(MaxFileSize - 1)}
    \cup {FileAt(0, SomePage, LastPage, SomeList, SomeBlock, BlockIndex),
          FileAt(0, SomePage, PageIndex, SomeList, SomeBlock, LastBlock),
          Past(FileAt(0, SomePage, LastPage + 1, SomeList, SomeBlock, BlockIndex),
               PageCall("NBT", LastPage + 1)),
          Past(FileAt(0, SomePage, PageIndex, SomeList, SomeBlock, LastBlock + 1), BlockCall(SomeBlock))}

=============================================================================
