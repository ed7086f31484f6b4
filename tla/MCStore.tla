------------------------------- MODULE MCStore -------------------------------
(***************************************************************************)
(* Store with bytes of four values, so that a u16 is at most 15 and a u32  *)
(* at most 255.  Files are made the way a writer makes them, from values   *)
(* and names, and then spoiled: a value of every type, in the record, in   *)
(* the heap and in a sub-node; bytes no writer leaves; records no writer   *)
(* leaves; maps of names whose GUIDs, entries, strings or buckets are not  *)
(* what they should be; and stores that refuse to open.                    *)
(***************************************************************************)
EXTENDS Store, Bitwise

Repeat(x, n) == [i \in 1..n |-> x]
Sized(n) == <<n>> \o Repeat(0, 15)

MCSets == {Sized(1), Sized(3)}
MCMapi == Sized(1)
MCPublicStrings == Sized(2)
Crc8(bytes) == FoldLeft(LAMBDA crc, b : (3 * crc + b + 1) % 256, 0, bytes)
BitsDiffer(a, b) == a ^^ b

(* The property ids the accessors use. *)
Tags == [record_key |-> 1, display_name |-> 2, ipm_subtree |-> 3, wastebasket |-> 4,
         folder_name |-> 1, content_count |-> 2, has_subfolders |-> 3,
         message_class |-> 1, subject |-> 2, subject_prefix |-> 2, subject_raw |-> 2,
         normalized_subject |-> 3, delivery_filetime |-> 3, delivery_time |-> 3,
         message_flags |-> 1, search_key |-> 2, body_html |-> 2,
         method_value |-> 1, method |-> 1, filename |-> 2]

-----------------------------------------------------------------------------
(* Values. *)
I(n) == [kind |-> "int", int |-> n]
B(x) == [kind |-> "bool", bool |-> x]
F(bits) == [kind |-> "float", bits |-> bits]
Time(n) == [kind |-> "datetime", microseconds |-> n]
Id(n) == [kind |-> "uuid", uuid |-> Sized(n)]
Obj(n, size) == [kind |-> "object", node |-> n, size |-> size]
U(units) == [kind |-> "str", units |-> units]
S(characters) == [kind |-> "str", characters |-> characters]
T(items) == [kind |-> "tuple", items |-> items]

(* A writer's context: property i has the i-th type and value, and one     *)
(* that does not fit the record is in the heap or in a sub-node.           *)
Sound == [node |-> NoError, isPC |-> TRUE, tree |-> NoError, shape |-> TRUE, then |-> NoError,
          codepage |-> TRUE, present |-> TRUE, subtree |-> NoError,
          said |-> <<>>, meant |-> <<>>, records |-> <<>>, items |-> <<>>, nodes |-> <<>>]

Where(i, inNode) == 4 * i + (IF inNode THEN 1 ELSE 0)

Raw(t, bytes, at) == IF t \in DOMAIN InlineWidths THEN LittleEndian(bytes) ELSE at

(* Properties [id, type, bytes] of a context, in the order of the BTH. *)
Stored(props, inNode) ==
    LET At(i) == Where(props[i].id, inNode)
        Payload == [h \in {At(i) : i \in DOMAIN props} |->
                    Binary(props[CHOOSE i \in DOMAIN props : At(i) = h].bytes)]
    IN [Sound EXCEPT
         !.records = [i \in DOMAIN props |->
             [id |-> props[i].id, type |-> props[i].type,
              raw |-> Raw(props[i].type, props[i].bytes, At(i))]],
         !.items = IF inNode THEN <<>> ELSE Payload,
         !.nodes = IF inNode THEN Payload ELSE <<>>]

Meant(values, inNode) ==
    [Stored([i \in DOMAIN values |->
                [id |-> i, type |-> values[i][1], bytes |-> encode(values[i][1], values[i][2])]], inNode)
        EXCEPT !.meant = [i \in DOMAIN values |-> values[i][2]]]

P(id, type, bytes) == [id |-> id, type |-> type, bytes |-> bytes]
One(type, bytes) == Stored(<<P(2, type, bytes)>>, FALSE)

-----------------------------------------------------------------------------
(* Values of every type, as a writer stores them.                          *)
InHeap ==
    {<<<<"LONG", I(-128)>>, <<"SHORT", I(7)>>, <<"BOOLEAN", B(TRUE)>>, <<"NULL", None>>>>,
     <<<<"ERROR", I(127)>>, <<"FLOAT", F(<<1, 2, 3, 0>>)>>, <<"SYSTIME", Time(20)>>>>,
     <<<<"CURRENCY", I(-1)>>, <<"LONGLONG", I(32767)>>, <<"SYSTIME", Time(0)>>>>,
     <<<<"GUID", Id(3)>>, <<"OBJECT", Obj(5, 255)>>, <<"DOUBLE", F(Repeat(3, 8))>>>>,
     <<<<"UNICODE", U(<<4, 8, 12, 14, 1>>)>>, <<"STRING8", S(<<1, 2>>)>>, <<"BINARY", Binary(<<0>>)>>>>}

InNode ==
    {<<<<"MV_LONG", T(<<I(-1), I(2), I(3)>>)>>, <<"MV_SYSTIME", T(<<Time(1)>>)>>,
       <<"MV_GUID", T(<<Id(1), Id(2)>>)>>>>,
     <<<<"MV_UNICODE", T(<<U(<<>>), U(<<12, 15>>), U(<<1>>)>>)>>, <<"MV_STRING8", T(<<>>)>>,
       <<"MV_BINARY", T(<<Binary(<<1, 0>>), Binary(<<>>)>>)>>>>,
     <<<<"UNICODE", U(<<>>)>>, <<"MV_DOUBLE", T(<<F(Repeat(1, 8))>>)>>, <<"MV_GUID", T(<<>>)>>>>}

(* Bytes that no writer leaves: sizes, ranges, surrogates, what follows a  *)
(* NUL, counts and offsets.                                                *)
Spoiled ==
    {One("LONGLONG", Repeat(0, 7)), One("SYSTIME", encode("CURRENCY", I(210))),
     One("SYSTIME", encode("CURRENCY", I(-10))), One("GUID", Repeat(1, 17)),
     One("UNICODE", <<1, 0, 0, 1, 0, 0, 1>>), One("UNICODE", <<1, 0, 0, 1, 0, 0, 2, 2>>),
     One("UNICODE", <<0, 1, 0, 0>>), One("UNICODE", <<1, 0, 0, 3, 1, 0>>),
     One("UNICODE", <<3, 3>>), One("UNICODE", <<1, 1, 0, 0, 3, 3>>),
     One("STRING8", <<1, 0, 3>>), One("STRING8", <<3, 0>>), One("OBJECT", Repeat(1, 4)),
     One("MV_LONG", Repeat(1, 6)), One("MV_SHORT", Repeat(1, 8)), One("MV_SHORT", <<>>),
     One("MV_SYSTIME", Repeat(3, 7) \o <<0>>), One("MV_GUID", <<1, 0>>),
     One("MV_GUID", <<0, 1, 0, 0>>), One("MV_GUID", <<1, 0, 0, 0>> \o Repeat(0, 15)),
     One("MV_BINARY", <<0, 1, 0, 0>>), One("MV_BINARY", <<1, 0, 0, 0>>),
     One("MV_BINARY", <<1, 0, 0, 0, 0, 2, 0, 0, 3>>), One("MV_BINARY", <<0, 0, 0, 0, 3>>),
     One("MV_BINARY", <<2, 0, 0, 0, 0, 3, 0, 0, 3, 3, 0, 0, 1>>),
     One("MV_BINARY", <<2, 0, 0, 0, 0, 3, 0, 0, 1, 3, 0, 0, 1>>),
     One("MV_UNICODE", <<1, 0, 0, 0, 0, 2, 0, 0, 3, 3>>),
     One("BOOLEAN", <<2, 1, 0, 0>>), One("BOOLEAN", <<1, 2, 0, 0>>), One("NULL", <<1, 0, 0, 0>>)}

NoCodepage ==
    {[One(t, <<>>) EXCEPT !.codepage = FALSE] : t \in {"STRING8", "MV_STRING8", "BINARY"}}

(* Records, and nodes, that are not what a context has.                    *)
Three == Stored(<<P(3, "BINARY", <<1>>), P(1, "LONG", <<3, 0, 0, 0>>), P(2, "SHORT", <<1, 0>>)>>, TRUE)
NodeAt(record) == [Sound EXCEPT !.records = <<record>>, !.nodes = [h \in {5, 9} |->
                      IF h = 5 THEN Binary(encode("CURRENCY", I(70))) ELSE Refused("PstLimitError")]]

Misshapen ==
    {Three, [Three EXCEPT !.then = "PstLimitError"], [Three EXCEPT !.records[3].id = 3],
     [Three EXCEPT !.records[2].type = "unknown"], [Three EXCEPT !.records[1].id = 1],
     Stored([i \in 1..8 |-> P(9 - i, "SHORT", <<1, 0>>)], TRUE),
     Stored([i \in 1..7 |-> P(8 - i, "SHORT", <<1, 0>>)], TRUE),
     [Three EXCEPT !.node = "PstLimitError"], [Three EXCEPT !.isPC = FALSE],
     [Three EXCEPT !.tree = "PstFormatError"], [Three EXCEPT !.shape = FALSE],
     [Three EXCEPT !.subtree = "absent"], [Three EXCEPT !.subtree = "PstLimitError"],
     [Three EXCEPT !.present = FALSE]}
    \cup {NodeAt([id |-> i, type |-> t, raw |-> h]) :
             i \in {2, 3}, t \in {"SYSTIME", "UNICODE"}, h \in {0, 4, 5, 9, 13}}

(* Subjects with and without the two characters before them. *)
Subject(units, said) ==
    [Stored(<<P(2, "UNICODE", encode("UNICODE", U(units)))>>, FALSE)
        EXCEPT !.said = said, !.meant = [i \in {2} |-> U(units)]]
Says(subject, prefix) == [subject |-> [kind |-> "text", text |-> subject],
                          subject_prefix |-> [kind |-> "text", text |-> prefix],
                          normalized_subject |-> [kind |-> "text",
                              text |-> SubSeq(subject, Len(prefix) + 1, Len(subject))]]
Subjects ==
    {Subject(<<7, 1>>, Says(<<<<7>>, <<1>>>>, <<>>)),
     Subject(<<1, 3, 12, 14, 6, 7>>, Says(<<<<12, 14>>, <<6>>, <<7>>>>, <<<<12, 14>>, <<6>>>>)),
     Subject(<<1, 1, 7>>, Says(<<<<7>>>>, <<>>)), Subject(<<1, 4, 7, 8>>, <<>>),
     Subject(<<1>>, <<>>), Subject(<<1, 12, 14, 7>>, <<>>)}

-----------------------------------------------------------------------------
(* Maps of names.  An entry is [id, flag and guid field, index].           *)
Nid(id, field, index) == ToBytes(id, 4) \o ToBytes(field, 2) \o ToBytes(index, 2)
Name(units) == ToBytes(2 * Len(units), 4) \o encode("UNICODE", U(units))

Strings == Name(<<5, 13>>) \o Name(<<6>>)   \* at 0, unpaired, and at 8

(* Numbers in PS_MAPI and in a stored set, and two strings. *)
EntryBytes == <<Nid(9, 2, 1), Nid(9, 6, 0), Nid(0, 5, 2)>>
HashedBytes == <<Nid(9, 2, 1), Nid(9, 6, 0), Nid(Crc8(encode("UNICODE", U(<<5, 13>>))), 5, 2)>>

(* [MS-PST] 2.4.7.5: the id exclusive-or the field, modulo the buckets.    *)
BucketOf(raw) == (LittleEndian(SubSeq(raw, 1, 4)) ^^ LittleEndian(SubSeq(raw, 5, 6))) % 3
Bucket(i) == FlattenSeq(SelectSeq(HashedBytes, LAMBDA raw : BucketOf(raw) = i))

Map(count, guids, entries, strings, inNode) ==
    Stored(<<P(5, "BINARY", Bucket(0)), P(1, "LONG", ToBytes(count, 4)), P(3, "BINARY", FlattenSeq(entries)),
             P(2, "BINARY", guids), P(7, "BINARY", Bucket(2)), P(4, "BINARY", strings),
             P(6, "BINARY", Bucket(1))>>, inNode)

WholeMap == Map(3, Sized(3), EntryBytes, Strings, FALSE)
WrittenMap(inNode) ==
    [Map(3, Sized(3), EntryBytes, Strings, inNode) EXCEPT
        !.meant = <<I(3), Binary(Sized(3)), Binary(FlattenSeq(EntryBytes)), Binary(Strings),
                    Binary(Bucket(0)), Binary(Bucket(1)), Binary(Bucket(2))>>]
Without(map, id) == [map EXCEPT !.records = SelectSeq(@, LAMBDA r : r.id # id)]
Retyped(map, id, type) ==
    [map EXCEPT !.records = [i \in DOMAIN @ |-> IF @[i].id = id THEN [@[i] EXCEPT !.type = type] ELSE @[i]]]

SpoiledMaps ==
    {Map(3, Sized(3), entries, Strings, inNode) : inNode \in BOOLEAN,
        entries \in {<<>>, <<Nid(9, 0, 1), Nid(9, 0, 2)>>, <<Nid(9, 6, 1), Nid(8, 6, 1)>>,
                     <<Nid(9, 6, 3), Nid(4, 8, 2)>>, <<Nid(9, 6, 1), Nid(9, 6, 0), Nid(2, 6, 1)>>,
                     <<Nid(9, 2, 0), Nid(9, 4, 8)>>, <<Nid(1, 0, 1), Nid(12, 1, 2)>>,
                     <<Nid(8, 5, 0), Nid(1, 5, 1)>>, <<Nid(0, 3, 0), Repeat(0, 7)>>,
                     Repeat(Nid(1, 2, 3), 4)}}
    \cup {Map(count, Sized(3), EntryBytes, Strings, FALSE) : count \in {0, 2, 4, 11, 255}}
    \cup {Without(WholeMap, id) : id \in 1..7}
    \cup {Retyped(WholeMap, id, t) : id \in {1, 2, 3, 5}, t \in {"SHORT", "UNICODE"}}
    \cup {Map(3, guids, EntryBytes, Strings, TRUE) : guids \in {<<>>, Repeat(0, 15), Repeat(0, 64)}}
    \cup {Map(3, MCMapi, <<Nid(9, 6, 1), Nid(9, 2, 0)>>, strings, FALSE) :
             strings \in {<<>>, <<1, 0, 0, 0, 1, 0>>}}
    \cup {Without(Without(Without(Map(0, <<>>, <<>>, <<>>, TRUE), 5), 6), 7)}

-----------------------------------------------------------------------------
(* Files: one of the contexts is what the session is about.                *)
Absent == [Sound EXCEPT !.present = FALSE]
Key(n) == Repeat(n, 16)
EntryIdBytes(flags, key) == ToBytes(flags, 4) \o Key(key) \o ToBytes(2, 4)

Plainest == Stored(<<P(1, "BINARY", Key(1))>>, FALSE)
Nothing == [o \in Owners |-> IF o = "store" THEN Plainest ELSE Absent]

FileOf(contexts, owned, hashed) ==
    [header |-> NoError, owned |-> owned, hashed |-> hashed, contexts |-> contexts]

About(owner, ctx) == [Nothing EXCEPT ![owner] = ctx]

Folders == {Stored(<<P(1, "STRING8", <<1>>), P(2, "LONG", <<3, 0, 0, 0>>), P(3, "BOOLEAN", <<1, 0, 0, 0>>)>>, FALSE),
            Stored(<<P(1, "LONG", <<1, 0, 0, 0>>), P(3, "SHORT", <<1, 0>>), P(2, "BOOLEAN", <<1, 0, 0, 0>>)>>, FALSE)}
Attachments == {Stored(<<P(1, "LONG", ToBytes(method, 4)), P(2, "UNICODE", <<2, 0>>)>>, TRUE) : method \in {1, 8}}

Stores ==
    {Stored(<<P(1, "BINARY", key), P(2, "UNICODE", <<1, 0>>), P(3, "BINARY", EntryIdBytes(flags, 1)),
              P(4, "BINARY", EntryIdBytes(0, 2))>>, inNode) :
        key \in {Key(1), Repeat(1, 15)}, flags \in {0, 1}, inNode \in BOOLEAN}
    \cup {Absent, Three, [Three EXCEPT !.records[3].id = 3], [Three EXCEPT !.isPC = FALSE]}

MCFiles ==
    {FileOf(About("message", ctx), TRUE, FALSE) :
        ctx \in {Meant(v, FALSE) : v \in InHeap} \cup {Meant(v, TRUE) : v \in InNode}
                \cup Spoiled \cup NoCodepage \cup Misshapen \cup Subjects}
    \cup {FileOf(About("names", ctx), TRUE, FALSE) : ctx \in SpoiledMaps \cup Misshapen}
    \cup {FileOf(About("names", WrittenMap(inNode)), owned, TRUE) : inNode \in BOOLEAN, owned \in BOOLEAN}
    \cup {FileOf([Nothing EXCEPT !["store"] = ctx, !["folder"] = Three], owned, FALSE) :
             ctx \in Stores, owned \in BOOLEAN}
    \cup {FileOf(About("folder", ctx), TRUE, FALSE) : ctx \in Folders}
    \cup {FileOf([About("attachment", ctx) EXCEPT !["message"] = Three], TRUE, FALSE) : ctx \in Attachments}
    \cup {[FileOf(Nothing, owned, FALSE) EXCEPT !.header = r] :
             owned \in BOOLEAN, r \in {"PstFormatError", "PstUnsupportedError"}}

=============================================================================
