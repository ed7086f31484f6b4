--------------------------------- MODULE Disk ---------------------------------
(***************************************************************************)
(* ndb/header.py, root.py, page.py, ids.py, encode.py and the reading half *)
(* of block.py: what the bytes at one place of the file are read as, or    *)
(* why they are refused, and the file object that every read shares.       *)
(*                                                                         *)
(* A length is counted in fields: a field of a header, a page, a trailer   *)
(* or a record is one number.  A data block's fields are its bytes.  What  *)
(* is at an offset of the file is                                          *)
(*   a header   a function from its fields;                                *)
(*   a page     of a B-tree: area, its header and its trailer;             *)
(*   a list     the density list: its header, entries, padding, trailer;   *)
(*   a block    the fields from there on and, by offset, what there is     *)
(*              of a trailer at that offset.                               *)
(* The walks over pages and blocks are BTree's and BlockReader's, which    *)
(* take one as what it parses to: that is what this module gives.          *)
(***************************************************************************)
EXTENDS PstLimits, Integers, SequencesExt

CONSTANTS Disks,          \* the files
          Places,         \* where a caller may leave its file
          ByteBase,       \* values of a byte
          Permuted, Restored, Swapped,   \* the three tables of the encodings
          Crc(_), ExclusiveOr(_, _),
          NodeBase, IndexBase,  \* node ids, and indexes within one type of node
          PageBase,       \* page numbers in an entry of the density list
          AreaSize,       \* the entries of a page
          DensityMax,     \* entries of the density list
          DensityListIndex,   \* where the density list is, if there is one
          MaxLevel,       \* MAX_BTREE_LEVEL
          Alignment, MaxBlockSize,
          MaxFileSize

Byte == 0..(ByteBase - 1)
KeyBase == ByteBase * ByteBase

(* The tables undo each other; an exclusive or of naturals is one. *)
ASSUME BytesAssumption == ByteBase \in Nat \ {0}
ASSUME TablesAssumption ==
    /\ Permuted \in [Byte -> Byte] /\ Restored \in [Byte -> Byte] /\ Swapped \in [Byte -> Byte]
    /\ \A b \in Byte : Restored[Permuted[b]] = b /\ Permuted[Restored[b]] = b /\ Swapped[Swapped[b]] = b
ASSUME KeysAssumption ==
    \A key \in 0..(KeyBase * KeyBase - 1) : ExclusiveOr(key, key \div KeyBase) \in Nat
ASSUME SizesAssumption ==
    /\ AreaSize \in Nat /\ DensityMax \in Nat /\ MaxLevel \in Nat /\ MaxFileSize \in Nat
    /\ Alignment \in Nat \ {0} /\ MaxBlockSize \in Nat /\ MaxBlockSize % Alignment = 0
    /\ DensityListIndex \in Nat
    /\ NodeBase \in Nat \ {0} /\ IndexBase \in Nat \ {0} /\ PageBase \in Nat \ {0}

(* A field of the file, whatever was written there, is a natural. *)
ASSUME DisksAssumption ==
    \A d \in Disks :
        /\ \A i \in DOMAIN d.at :
               /\ d.at[i].kind = "page" =>
                     {d.at[i].count, d.at[i].max_entries, d.at[i].entry_size} \subseteq Nat
               /\ d.at[i].kind = "block" => d.at[i].fields \in Seq(Nat)
        /\ \A key \in DOMAIN d.blocks : d.blocks[key].size \in Nat

VARIABLES disk,      \* the file: its size, what is where, and what a writer meant
          position,  \* of the file object
          header,    \* the header the reader opened the file with
          answer     \* the last call and what it answered

diskvars == <<disk, position, header, answer>>

Refused(class) == [kind |-> class]
BadFormat == Refused("PstFormatError")
NotYet == [kind |-> "not yet"]

-----------------------------------------------------------------------------
(* Identifiers.  A node id is five bits of type and an index; a block id   *)
(* has a reserved bit, cleared for lookups, and says if a block is a tree. *)
NodeTypes == (0..8) \cup (10..19) \cup {31}

Node(raw) == [type |-> IF raw % 32 \in NodeTypes THEN raw % 32 ELSE "PstFormatError",
              index |-> raw \div 32]

NodeFromParts(type, index) ==
    IF type \in NodeTypes /\ index \in 0..(IndexBase - 1)
    THEN [kind |-> "node", raw |-> 32 * index + type] ELSE BadFormat

SearchKey(bid) == bid - (bid % 2)
IsInternal(bid) == (bid \div 2) % 2 = 1
BlockFromParts(internal, index) == 4 * index + (IF internal THEN 2 ELSE 0)

(* A reference to no sub-node tree, and a node without a parent, is zero.  *)
NoBlock == 0
SubNode(bid) == IF SearchKey(bid) = 0 THEN NoBlock ELSE bid

-----------------------------------------------------------------------------
(* The encodings.  Additions wrap at a byte, and the key at two.           *)
Plus(a, b) == IF a + b >= ByteBase THEN a + b - ByteBase ELSE a + b
Minus(a, b) == IF a - b < 0 THEN a - b + ByteBase ELSE a - b

CyclicByte(b, low, high) ==
    Minus(Restored[Minus(Swapped[Plus(Permuted[Plus(b, low)], high)], high)], low)

KeyAt(key, i) == (ExclusiveOr(key, key \div KeyBase) + i - 1) % KeyBase

encode_decode_cyclic(data, key) ==
    [i \in DOMAIN data |->
        CyclicByte(data[i], KeyAt(key, i) % ByteBase, KeyAt(key, i) \div ByteBase)]

decode_permute(data) == [i \in DOMAIN data |-> Restored[data[i]]]
encode_permute(data) == [i \in DOMAIN data |-> Permuted[data[i]]]

CryptMethod == [none |-> 0, permute |-> 1, cyclic |-> 2]

decode_block(data, method, key) ==
    CASE method = CryptMethod.none -> data
      [] method = CryptMethod.permute -> decode_permute(data)
      [] method = CryptMethod.cyclic -> encode_decode_cyclic(data, key)

-----------------------------------------------------------------------------
(* The file.  Each read seeks first, and reads once; what is read has one  *)
(* size whatever it holds.                                                 *)
Reaches(index, size) == index + size <= MaxFileSize
Holds(index, size) == index + size <= disk.size

(* Mutant: the file is read on from where it was left.                     *)
SoughtNot(index) == position

(* file.seek(index): the read that follows takes what is there.            *)
Sought(index) == index

PositionAfter(index, size) ==
    IF index >= disk.size THEN index
    ELSE IF Holds(index, size) THEN index + size ELSE disk.size

Found(index, kind) ==
    IF index \in DOMAIN disk.at /\ disk.at[index].kind = kind
    THEN {disk.at[index]} ELSE {}

-----------------------------------------------------------------------------
(* The header: its fields in their order, and which of them each of its    *)
(* two checksums covers.                                                   *)
HeaderFields ==
    <<"magic", "crc_partial", "magic_client", "version", "client_version",
      "platform_create", "platform_access", "reserved1", "unused_bid", "next_page", "unique",
      "nids", "file_eof", "amap_last", "amap_free", "pmap_free", "nbt_page", "nbt_index",
      "bbt_page", "bbt_index", "amap_valid", "align", "free_map", "free_page_map",
      "free_page_map_end", "sentinel", "crypt_method", "reserved", "next_block",
      "crc_full", "reserved3">>

HeaderSize == Len(HeaderFields)
FirstCovered == "magic_client"
LastOfPartial == "free_page_map"
LastOfFull == "next_block"

At(field) == CHOOSE i \in DOMAIN HeaderFields : HeaderFields[i] = field
Covered(h, last) ==
    [i \in 1..(At(last) - At(FirstCovered) + 1) |-> h[HeaderFields[At(FirstCovered) + i - 1]]]

VersionRefusal(version) ==
    CASE version = 23 -> NoError
      [] version \in {14, 15, 36, 37} -> "PstUnsupportedError"
      [] OTHER -> "PstFormatError"

CryptRefusal(method) ==
    CASE method \in {0, 1, 2} -> NoError
      [] method = 16 -> "PstUnsupportedError"
      [] OTHER -> "PstFormatError"

HeaderRefusal(h) ==
    IF h.magic # 1313096225 \/ h.magic_client # 19795 THEN "PstFormatError"
    ELSE IF VersionRefusal(h.version) # NoError THEN VersionRefusal(h.version)
    ELSE IF \/ h.crc_partial # Crc(Covered(h, LastOfPartial))
            \/ h.crc_full # Crc(Covered(h, LastOfFull))
            \/ h.client_version # 19
            \/ h.platform_create # 1 \/ h.platform_access # 1
            \/ h.align # 0 \/ h.sentinel # 128 THEN "PstFormatError"
    ELSE IF CryptRefusal(h.crypt_method) # NoError THEN CryptRefusal(h.crypt_method)
    ELSE IF h.reserved # 0 THEN "PstFormatError"
    ELSE NoError

(* AmapStatus.from_byte_lenient: what is not known is INVALID.             *)
AmapStatus(byte) == IF byte \in {0, 1, 2} THEN byte ELSE 0

Root(h) == [file_eof |-> h.file_eof, amap_last |-> h.amap_last, amap_free |-> h.amap_free,
            pmap_free |-> h.pmap_free, amap_is_valid |-> AmapStatus(h.amap_valid),
            node_btree |-> [page |-> h.nbt_page, index |-> h.nbt_index],
            block_btree |-> [page |-> h.bbt_page, index |-> h.bbt_index]]

Header(h) ==
    IF HeaderRefusal(h) # NoError THEN Refused(HeaderRefusal(h))
    ELSE [kind |-> "header", crypt_method |-> h.crypt_method, next_page |-> h.next_page,
          next_block |-> h.next_block, unique |-> h.unique, root |-> Root(h)]

-----------------------------------------------------------------------------
(* Pages.                                                                  *)
PageTypes == {"BBT", "NBT", "FMAP", "PMAP", "AMAP", "FPMAP", "DL"}
PageTrailerSize == 5
PageSize == AreaSize + 5 + PageTrailerSize

(* PageTrailer.unpack_from and verify: the type twice, and the checksum of *)
(* all that comes before the trailer.  Its signature and id are not        *)
(* compared with anything.                                                 *)
TrailerHolds(trailer, data) ==
    /\ trailer.page_type = trailer.page_type_repeat
    /\ trailer.page_type \in PageTypes
    /\ trailer.crc = Crc(data)

EntryFields == [BTENTRY |-> 3, BBT |-> 3, NBT |-> 4]
EntryType(page, kind) == IF page.level = 0 THEN kind ELSE "BTENTRY"

(* Mutant: does not look at what the area can hold.                        *)
FitsNoMaximum(page, kind) ==
    page.count <= page.max_entries /\ page.entry_size >= EntryFields[EntryType(page, kind)]

(* An entry may be larger than its structure; the area holds the maximum.  *)
Fits(page, kind) ==
    /\ page.count <= page.max_entries
    /\ page.entry_size >= EntryFields[EntryType(page, kind)]
    /\ page.max_entries <= AreaSize \div page.entry_size

PageData(page) ==
    page.area \o <<page.count, page.max_entries, page.entry_size, page.level, page.padding>>

EntryAt(page, i) == (i - 1) * page.entry_size
FieldsOf(page, kind, i) ==
    SubSeq(PageData(page), EntryAt(page, i) + 1, EntryAt(page, i) + EntryFields[EntryType(page, kind)])

Entry(type, fields) ==
    CASE type = "BTENTRY" -> [key |-> fields[1], page |-> fields[2], index |-> fields[3]]
      [] type = "BBT" -> [block |-> fields[1], index |-> fields[2], size |-> fields[3]]
      [] type = "NBT" -> [node |-> Node(fields[1]), data |-> fields[2],
                          sub_node |-> SubNode(fields[3]), parent |-> fields[4]]

(* BTreePage.parse and _check_intermediate.  Every key of a node B-tree is *)
(* a node id.                                                              *)
PageHolds(page, kind) ==
    /\ Fits(page, kind)
    /\ page.level <= MaxLevel /\ page.padding = 0
    /\ TrailerHolds(page.trailer, PageData(page))
    /\ page.trailer.page_type \in {"BBT", "NBT"}
    /\ page.level = 0 => page.trailer.page_type = kind
    /\ kind = "NBT" => \A i \in 1..page.count : FieldsOf(page, kind, i)[1] < NodeBase

BTreePage(page, kind) ==
    IF PageHolds(page, kind)
    THEN [kind |-> "page", level |-> page.level,
          entries |-> [i \in 1..page.count |->
                          Entry(EntryType(page, kind), FieldsOf(page, kind, i))]]
    ELSE BadFormat

DensityData(list) ==
    <<list.flags, list.count, list.padding, list.current_page>> \o list.area \o <<list.tail>>

DensityListPage(list) ==
    IF /\ list.count <= DensityMax /\ list.padding = 0 /\ list.tail = 0
       /\ TrailerHolds(list.trailer, DensityData(list)) /\ list.trailer.page_type = "DL"
    THEN [kind |-> "density list", backfill_complete |-> list.flags % 2 = 1,
          current_page |-> list.current_page,
          entries |-> [i \in 1..list.count |->
              [page |-> list.area[i] % PageBase, free_slots |-> list.area[i] \div PageBase]]]
    ELSE BadFormat

-----------------------------------------------------------------------------
(* Blocks.  The trailer is the last of an allocation, which is a multiple  *)
(* of the alignment; a size counts the data alone.                         *)
BlockTrailerSize == 4
MaxBlockDataSize == MaxBlockSize - BlockTrailerSize

block_size(size) ==
    ((size + BlockTrailerSize + Alignment - 1) \div Alignment) * Alignment

SizeHolds(size) == size \in 1..MaxBlockDataSize

Fields(block, n) == [i \in 1..n |-> IF i \in DOMAIN block.fields THEN block.fields[i] ELSE 0]

CyclicKey(trailer) == SearchKey(trailer.block_id) % (KeyBase * KeyBase)

(* The trailer at an offset: unpacked, of the kind of block, and with the  *)
(* checksum of the data.                                                   *)
TrailerAt(block, offset, internal, size) ==
    {t \in {block.trailers[o] : o \in {offset} \cap DOMAIN block.trailers} :
        SizeHolds(t.size) /\ IsInternal(t.block_id) = internal /\ t.crc = Crc(Fields(block, size))}

(* _verify_data_block *)
DataBlock(block, size) ==
    LET trailers == {t \in TrailerAt(block, block_size(size) - BlockTrailerSize, FALSE, size) :
                        t.size = size}
    IN IF trailers = {} THEN BadFormat
       ELSE [kind |-> "data",
             data |-> decode_block(Fields(block, size), header.crypt_method,
                                   CyclicKey(CHOOSE t \in trailers : TRUE))]

(* A tree block: its type, level, count of entries and a fourth field,     *)
(* then its entries.                                                       *)
TreeHeaderSize == 4
BlockType == [data_tree |-> 1, subnode_tree |-> 2]

TreeEntrySize(type, level) ==
    CASE type = BlockType.data_tree -> 1
      [] type = BlockType.subnode_tree -> IF level = 0 THEN 3 ELSE 2

Implied(block, type) ==
    TreeHeaderSize + Fields(block, 3)[3] * TreeEntrySize(type, Fields(block, 2)[2])

(* Where the trailer is looked for: after the padding that the entries     *)
(* need, behind what the size says there is.                               *)
TrailerOffset(block, size, type) ==
    size + (block_size(Implied(block, type)) - Implied(block, type) - BlockTrailerSize)

(* _verify_tree_block *)
TreeBlockHolds(block, size, type) ==
    /\ Fields(block, 1)[1] = type
    /\ Implied(block, type) <= size
    /\ TrailerOffset(block, size, type) + BlockTrailerSize <= block_size(size)
    /\ TrailerAt(block, TrailerOffset(block, size, type), TRUE, size) # {}

TreeEntries(block, type) ==
    LET fields == Fields(block, Implied(block, type))
        stride == TreeEntrySize(type, fields[2])
    IN [i \in 1..fields[3] |->
           SubSeq(fields, TreeHeaderSize + (i - 1) * stride + 1, TreeHeaderSize + i * stride)]

XBlock(block, size) ==
    IF TreeBlockHolds(block, size, BlockType.data_tree)
    THEN LET entries == TreeEntries(block, BlockType.data_tree)
         IN [kind |-> "xblock", level |-> block.fields[2], total |-> block.fields[4],
             below |-> [i \in DOMAIN entries |-> entries[i][1]]]
    ELSE BadFormat

(* An entry of a subnode block cuts its node id off where an entry of the  *)
(* node B-tree refuses one that is too long.                               *)
Leaf(entry) == [node |-> Node(entry[1] % NodeBase), data |-> entry[2], sub_node |-> SubNode(entry[3])]
Intermediate(entry) == [node |-> Node(entry[1] % NodeBase), next_level |-> entry[2]]

SubnodeBlock(block, size) ==
    IF TreeBlockHolds(block, size, BlockType.subnode_tree) /\ Fields(block, 4)[4] = 0
    THEN LET entries == TreeEntries(block, BlockType.subnode_tree)
         IN IF block.fields[2] = 0
            THEN [kind |-> "slblock", leaves |-> [i \in DOMAIN entries |-> Leaf(entries[i])]]
            ELSE [kind |-> "siblock", level |-> block.fields[2],
                  below |-> [i \in DOMAIN entries |-> Intermediate(entries[i])]]
    ELSE BadFormat

-----------------------------------------------------------------------------
(* The calls.  What lies past the largest file is refused before a seek,   *)
(* and what is cut short by the end of the file after the read.            *)
Read(index, size, values) ==
    IF ~Reaches(index, size) \/ ~Holds(Sought(index), size) \/ values = {} THEN BadFormat
    ELSE CHOOSE v \in values : TRUE

Answer(call, value, index, size) ==
    /\ answer' = [call |-> call, value |-> value]
    /\ position' = IF Reaches(index, size) THEN PositionAfter(Sought(index), size) ELSE position

DiskInit ==
    /\ disk \in Disks /\ position \in Places /\ header = NotYet
    /\ answer = [call |-> [op |-> "none"], value |-> NotYet]

(* read_header, which opens the store; a file that is too short is read    *)
(* and refused.                                                            *)
ReadHeader ==
    LET value == IF Holds(Sought(0), HeaderSize) /\ Found(Sought(0), "header") # {}
                 THEN Header(CHOOSE h \in Found(Sought(0), "header") : TRUE) ELSE BadFormat
    IN /\ answer' = [call |-> [op |-> "header"], value |-> value]
       /\ position' = PositionAfter(Sought(0), HeaderSize)
       /\ header' = IF value.kind = "header" THEN value ELSE header
       /\ UNCHANGED disk

Opened == header # NotYet

(* _BTree._read: one page, of a tree of a kind. *)
ReadPage(kind, index) ==
    /\ Opened
    /\ LET value == Read(index, PageSize, {BTreePage(p, kind) : p \in Found(Sought(index), "page")})
       IN Answer([op |-> "page", tree |-> kind, index |-> index], value, index, PageSize)
    /\ UNCHANGED <<disk, header>>

(* read_density_list, which needs no header. *)
ReadDensityList ==
    /\ LET value == Read(DensityListIndex, PageSize,
                         {DensityListPage(l) : l \in Found(Sought(DensityListIndex), "list")})
       IN Answer([op |-> "density list"], value, DensityListIndex, PageSize)
    /\ UNCHANGED <<disk, header>>

(* Which of the shapes a block is read as. *)
ParsedBlock(op, entry, block) ==
    IF op = "subnode block" THEN SubnodeBlock(block, entry.size)
    ELSE IF IsInternal(entry.block) THEN XBlock(block, entry.size)
    ELSE DataBlock(block, entry.size)

(* read_data_tree and read_subnode_block: the entry of the block B-tree    *)
(* says where the block is, how big, and by its id which of the two shapes *)
(* of a data tree it has.                                                  *)
Indexed(bid) == SearchKey(bid) \in DOMAIN disk.blocks
BlockEntry(bid) == disk.blocks[SearchKey(bid)]

Unread(call, value) == answer' = [call |-> call, value |-> value] /\ UNCHANGED position

ReadBlock(op, bid) ==
    /\ Opened
    /\ \/ ~Indexed(bid) /\ Unread([op |-> op, block |-> bid], Refused("PstNotFoundError"))
       \/ Indexed(bid) /\ ~SizeHolds(BlockEntry(bid).size) /\ Unread([op |-> op, block |-> bid], BadFormat)
       \/ /\ Indexed(bid) /\ SizeHolds(BlockEntry(bid).size)
          /\ LET entry == BlockEntry(bid)
                 size == block_size(entry.size)
             IN Answer([op |-> op, block |-> bid],
                       Read(entry.index, size,
                            {ParsedBlock(op, entry, b) : b \in Found(Sought(entry.index), "block")}),
                       entry.index, size)
    /\ UNCHANGED <<disk, header>>

(* A caller's file is the caller's to move between two calls. *)
MoveFile ==
    /\ position' \in Places
    /\ UNCHANGED <<disk, header, answer>>

DiskNext ==
    \/ ReadHeader \/ ReadDensityList \/ MoveFile
    \/ \E kind \in {"BBT", "NBT"}, index \in disk.pages : ReadPage(kind, index)
    \/ \E op \in {"data tree", "subnode block"}, bid \in disk.bids : ReadBlock(op, bid)

DiskSpec == DiskInit /\ [][DiskNext]_diskvars

-----------------------------------------------------------------------------
(* What a writer stored is read as it was meant, wherever the file was     *)
(* left, and whatever was read in between.  If something that a checksum   *)
(* or a second copy protects was changed after it was written, or the end  *)
(* of the file is lost, then it is refused and never read as another.      *)
StoredIsRead ==
    answer.call \in DOMAIN disk.meant =>
        \/ answer.value = disk.meant[answer.call]
        \/ ~disk.sound /\ answer.value = BadFormat

(* What is interpreted lies inside what the checksum was taken of, entries *)
(* do not overlap, and neither do the data and the trailer, which is       *)
(* inside what was read, as that is inside the largest file.               *)
EntriesInside(page, kind) ==
    \A i \in 1..page.count :
        LET last == EntryAt(page, i) + EntryFields[EntryType(page, kind)]
        IN last <= AreaSize /\ (i < page.count => last <= EntryAt(page, i + 1))

TreeInside(block, size, type) ==
    /\ TreeHeaderSize <= size /\ Implied(block, type) <= size
    /\ size <= TrailerOffset(block, size, type)
    /\ TrailerOffset(block, size, type) + BlockTrailerSize <= block_size(size)
    /\ block_size(size) <= MaxBlockSize

LiesInside(call, value) ==
    LET entry == BlockEntry(call.block)
        block == disk.at[entry.index]
    IN CASE value.kind = "page" ->
              /\ call.index + PageSize <= MaxFileSize /\ call.index + PageSize <= disk.size
              /\ EntriesInside(disk.at[call.index], call.tree)
         [] value.kind = "data" ->
              /\ entry.size + BlockTrailerSize <= block_size(entry.size)
              /\ entry.index + block_size(entry.size) <= MaxFileSize
         [] value.kind = "xblock" -> TreeInside(block, entry.size, BlockType.data_tree)
         [] value.kind \in {"slblock", "siblock"} ->
              TreeInside(block, entry.size, BlockType.subnode_tree)
         [] OTHER -> TRUE

AcceptedLiesInside == LiesInside(answer.call, answer.value)

=============================================================================
