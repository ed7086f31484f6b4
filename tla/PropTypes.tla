------------------------------ MODULE PropTypes ------------------------------
(***************************************************************************)
(* ltp/prop_type.py: what the bytes of a property value mean, by its type. *)
(* A value of a fixed size is a number in little-endian bytes; a value     *)
(* with several items is packed, counted, or counted with a table of       *)
(* offsets, as its type has it.  decode is a function of type and bytes:   *)
(* it yields a value of one Python class, or a refusal.                    *)
(*                                                                         *)
(* A byte has ByteBase values, 256 in the program, and every bound that    *)
(* follows from the width of a field (a count, an offset, a sign) is a     *)
(* power of it.  Floating point numbers are kept as their bytes; UTF-16    *)
(* units and the bytes of a code page stand for their characters.          *)
(***************************************************************************)
EXTENDS PstLimits, Integers, SequencesExt

CONSTANTS ByteBase,
          MaxMvItems,                       \* items in one value
          MaxFileTime,                      \* the last tick a datetime can hold
          HighSurrogates, LowSurrogates,    \* UTF-16 units that must come in pairs
          UndefinedBytes                    \* bytes the code page has no character for

Byte == 0..(ByteBase - 1)

ASSUME ByteAssumption == ByteBase \in Nat \ {0, 1} /\ UndefinedBytes \subseteq Byte
ASSUME MvItemsAssumption == MaxMvItems \in Nat \ {0} /\ MaxFileTime \in Nat
ASSUME SurrogatesAssumption == /\ HighSurrogates \cup LowSurrogates \subseteq Nat
                               /\ HighSurrogates \cap LowSurrogates = {}

-----------------------------------------------------------------------------
(* The types, by how their values are laid out.                            *)
IntegerTypes == {"SHORT", "LONG", "ERROR", "CURRENCY", "LONGLONG"}
FloatTypes == {"FLOAT", "DOUBLE", "APPTIME"}
ScalarSizes == [SHORT |-> 2, LONG |-> 4, ERROR |-> 4, CURRENCY |-> 8, LONGLONG |-> 8,
                FLOAT |-> 4, DOUBLE |-> 8, APPTIME |-> 8, BOOLEAN |-> 1, SYSTIME |-> 8]

(* The scalar a packed array repeats, and the item an offset table names.  *)
MvFixedBase == [MV_SHORT |-> "SHORT", MV_LONG |-> "LONG", MV_FLOAT |-> "FLOAT",
                MV_DOUBLE |-> "DOUBLE", MV_CURRENCY |-> "CURRENCY", MV_APPTIME |-> "APPTIME",
                MV_LONGLONG |-> "LONGLONG", MV_SYSTIME |-> "SYSTIME"]
MvVariableBase == [MV_STRING8 |-> "STRING8", MV_UNICODE |-> "UNICODE", MV_BINARY |-> "BINARY"]

(* from_wire refuses every other code. *)
PropType == DOMAIN ScalarSizes \cup DOMAIN MvFixedBase \cup DOMAIN MvVariableBase
            \cup {"NULL", "GUID", "MV_GUID", "OBJECT", "STRING8", "UNICODE", "BINARY"}

Refused(class) == [kind |-> class]
IsRefusal(v) == v.kind \in Refusals \cup {"ValueError"}
BadFormat == Refused("PstFormatError")
None == [kind |-> "None"]

(* An error propagates: what comes next sees a value that is no refusal.   *)
Given(value, Then(_)) == IF IsRefusal(value) THEN value ELSE Then(value)

-----------------------------------------------------------------------------
(* How many numbers so many bytes can be.                                  *)
Numbers[size \in Nat] == IF size = 0 THEN 1 ELSE ByteBase * Numbers[size - 1]

LittleEndian(bytes) == SumFunction([i \in DOMAIN bytes |-> bytes[i] * Numbers[i - 1]])

Signed(n, size) == IF 2 * n >= Numbers[size] THEN n - Numbers[size] ELSE n

TicksPerMicrosecond == 10
FileTime(ticks) ==
    IF ticks \in 0..MaxFileTime
    THEN [kind |-> "datetime", microseconds |-> ticks \div TicksPerMicrosecond]
    ELSE BadFormat

(* A scalar is exactly its size; a boolean is 0 or 1.                      *)
Scalar(t, data) ==
    LET n == LittleEndian(data) IN
    IF Len(data) # ScalarSizes[t] THEN BadFormat
    ELSE CASE t \in IntegerTypes -> [kind |-> "int", int |-> Signed(n, Len(data))]
           [] t \in FloatTypes -> [kind |-> "float", bits |-> data]
           [] t = "SYSTIME" -> FileTime(Signed(n, Len(data)))
           [] t = "BOOLEAN" -> IF n \in {0, 1} THEN [kind |-> "bool", bool |-> n = 1] ELSE BadFormat

GuidSize == 16
Guid(data) == IF Len(data) = GuidSize THEN [kind |-> "uuid", uuid |-> data] ELSE BadFormat

(* The node id and the size of an object, four bytes each.                 *)
Object(data) ==
    IF Len(data) = 8
    THEN [kind |-> "object", node |-> LittleEndian(SubSeq(data, 1, 4)),
          size |-> LittleEndian(SubSeq(data, 5, 8))]
    ELSE BadFormat

-----------------------------------------------------------------------------
(* Text ends at the first NUL, and what follows it is not looked at.       *)
Units(raw) == [i \in 1..(Len(raw) \div 2) |-> LittleEndian(SubSeq(raw, 2 * i - 1, 2 * i))]

Paired(units) ==
    \A i \in DOMAIN units :
        /\ units[i] \in HighSurrogates => i < Len(units) /\ units[i + 1] \in LowSurrogates
        /\ units[i] \in LowSurrogates => i > 1 /\ units[i - 1] \in HighSurrogates

(* Mutant: ends at any pair of zeros, of two halves of units too.          *)
EndOfUnicodeAnywhere(raw) ==
    LET zeros == {i \in 1..(Len(raw) - 1) : raw[i] = 0 /\ raw[i + 1] = 0}
    IN IF zeros = {} THEN Len(raw) ELSE Min(zeros) - 1

(* bytes.find, again from the next byte on as long as the pair of zeros it *)
(* finds is not one UTF-16 unit.                                           *)
EndOfUnicode(raw) ==
    LET zeros == {i \in 1..(Len(raw) - 1) : raw[i] = 0 /\ raw[i + 1] = 0}
        ends == {i \in zeros : i % 2 = 1}
    IN IF ends = {} THEN Len(raw) ELSE Min(ends) - 1

Unicode(raw) ==
    LET units == Units(SubSeq(raw, 1, EndOfUnicode(raw))) IN
    IF Len(raw) % 2 # 0 \/ ~Paired(units) THEN BadFormat
    ELSE [kind |-> "str", units |-> units]

String8(raw) ==
    LET zeros == {i \in DOMAIN raw : raw[i] = 0}
        text == IF zeros = {} THEN raw ELSE SubSeq(raw, 1, Min(zeros) - 1)
    IN IF ToSet(text) \cap UndefinedBytes # {} THEN BadFormat
       ELSE [kind |-> "str", characters |-> text]

-----------------------------------------------------------------------------
(* Values with several items.  One item that refuses refuses them all.     *)
Tuple(items) ==
    LET bad == {i \in DOMAIN items : IsRefusal(items[i])}
    IN IF bad # {} THEN items[Min(bad)] ELSE [kind |-> "tuple", items |-> items]

MvFixed(t, data) ==
    LET size == ScalarSizes[MvFixedBase[t]]
        Item(i) == SubSeq(data, (i - 1) * size + 1, i * size)
    IN IF Len(data) % size # 0 THEN BadFormat
       ELSE IF Exceeds(Len(data) \div size, MaxMvItems) THEN Refused("PstLimitError")
       ELSE Tuple([i \in 1..(Len(data) \div size) |-> Scalar(MvFixedBase[t], Item(i))])

CountSize == 4
ItemCount(data) == LittleEndian(SubSeq(data, 1, CountSize))

MvGuid(data) ==
    LET Item(i) == SubSeq(data, CountSize + (i - 1) * GuidSize + 1, CountSize + i * GuidSize)
    IN IF Len(data) < CountSize THEN BadFormat
       ELSE IF Exceeds(ItemCount(data), MaxMvItems) THEN Refused("PstLimitError")
       ELSE IF Len(data) # CountSize + GuidSize * ItemCount(data) THEN BadFormat
       ELSE Tuple([i \in 1..ItemCount(data) |-> Guid(Item(i))])

(* The items lie between consecutive offsets, the last to the end of data. *)
OffsetAt(data, i) == LittleEndian(SubSeq(data, CountSize * i + 1, CountSize * (i + 1)))

Slices(data) ==
    LET count == ItemCount(data)
        End(i) == IF i < count THEN OffsetAt(data, i + 1) ELSE Len(data)
    IN IF Len(data) < CountSize THEN BadFormat
       ELSE IF Exceeds(count, MaxMvItems) THEN Refused("PstLimitError")
       ELSE IF Len(data) < CountSize * (count + 1) THEN BadFormat
       ELSE IF count > 0 /\ OffsetAt(data, 1) # CountSize * (count + 1) THEN BadFormat
       ELSE IF \E i \in 1..count : End(i) < OffsetAt(data, i) \/ End(i) > Len(data) THEN BadFormat
       ELSE [kind |-> "slices",
             slices |-> [i \in 1..count |-> SubSeq(data, OffsetAt(data, i) + 1, End(i))]]

(* The layouts with bytes, text or offsets. An unavailable code page       *)
(* refuses text in it before anything else of the value is read.           *)
Binary(data) == [kind |-> "bytes", bytes |-> data]

Single(t, data, codepage) ==
    CASE t = "BINARY" -> Binary(data)
      [] t = "UNICODE" -> Unicode(data)
      [] t = "STRING8" -> IF codepage THEN String8(data) ELSE Refused("PstUnsupportedError")

MvVariable(t, data, codepage) ==
    IF t = "MV_STRING8" /\ ~codepage THEN Refused("PstUnsupportedError")
    ELSE Given(Slices(data), LAMBDA cut :
             Tuple([i \in DOMAIN cut.slices |-> Single(MvVariableBase[t], cut.slices[i], codepage)]))

decode(t, data, codepage) ==
    CASE t \in DOMAIN ScalarSizes -> Scalar(t, data)
      [] t \in DOMAIN MvFixedBase -> MvFixed(t, data)
      [] t \in DOMAIN MvVariableBase -> MvVariable(t, data, codepage)
      [] t = "NULL" -> IF data = <<>> THEN None ELSE BadFormat
      [] t = "GUID" -> Guid(data)
      [] t = "MV_GUID" -> MvGuid(data)
      [] t = "OBJECT" -> Object(data)
      [] OTHER -> Single(t, data, codepage)

-----------------------------------------------------------------------------
(* Reference: the values there are of a type, and what a writer stores for *)
(* one ([MS-PST] 2.3.3.4).  Text has no NUL in it, and offsets fit.        *)
Within(size) == {n \in Int : -Numbers[size] <= 2 * n /\ 2 * n < Numbers[size]}
BytesOf(size) == {bytes \in Seq(Byte) : Len(bytes) = size}
Times == {m \in Nat : /\ TicksPerMicrosecond * m <= MaxFileTime
                      /\ 2 * (TicksPerMicrosecond * m) < Numbers[8]}
Text == {units \in Seq(1..(Numbers[2] - 1)) : Paired(units)}

ScalarValues(t) ==
    CASE t \in IntegerTypes -> [kind : {"int"}, int : Within(ScalarSizes[t])]
      [] t \in FloatTypes -> [kind : {"float"}, bits : BytesOf(ScalarSizes[t])]
      [] t = "SYSTIME" -> [kind : {"datetime"}, microseconds : Times]
      [] t = "BOOLEAN" -> [kind : {"bool"}, bool : BOOLEAN]

SingleValues(t) ==
    CASE t = "BINARY" -> [kind : {"bytes"}, bytes : Seq(Byte)]
      [] t = "UNICODE" -> [kind : {"str"}, units : Text]
      [] t = "STRING8" -> [kind : {"str"}, characters : Seq(Byte \ (UndefinedBytes \cup {0}))]

GuidValues == [kind : {"uuid"}, uuid : BytesOf(GuidSize)]
Handles == 0..(Numbers[4] - 1)

Tuples(values) == [kind : {"tuple"}, items : {items \in Seq(values) : Len(items) <= MaxMvItems}]
ToBytes(n, size) == [i \in 1..size |-> (n \div Numbers[i - 1]) % ByteBase]

Plain(t, v) ==
    CASE v.kind = "int" -> ToBytes(v.int % Numbers[ScalarSizes[t]], ScalarSizes[t])
      [] v.kind = "float" -> v.bits
      [] v.kind = "bool" -> <<IF v.bool THEN 1 ELSE 0>>
      [] v.kind = "datetime" -> ToBytes(v.microseconds * TicksPerMicrosecond, 8)
      [] v.kind = "uuid" -> v.uuid
      [] v.kind = "object" -> ToBytes(v.node, 4) \o ToBytes(v.size, 4)
      [] v.kind = "bytes" -> v.bytes
      [] v.kind = "str" -> IF t = "STRING8" THEN v.characters
                           ELSE FlattenSeq([i \in DOMAIN v.units |-> ToBytes(v.units[i], 2)])

AllPlain(t, items) == [i \in DOMAIN items |-> Plain(t, items[i])]

OffsetOf(parts, i) ==
    CountSize * (Len(parts) + 1) + SumFunction([j \in 1..(i - 1) |-> Len(parts[j])])

WithOffsets(parts) ==
    ToBytes(Len(parts), CountSize)
    \o FlattenSeq([i \in DOMAIN parts |-> ToBytes(OffsetOf(parts, i), CountSize)])
    \o FlattenSeq(parts)

encode(t, v) ==
    CASE v.kind = "None" -> <<>>
      [] t \in DOMAIN MvFixedBase -> FlattenSeq(AllPlain(MvFixedBase[t], v.items))
      [] t = "MV_GUID" -> ToBytes(Len(v.items), CountSize) \o FlattenSeq(AllPlain("GUID", v.items))
      [] t \in DOMAIN MvVariableBase -> WithOffsets(AllPlain(MvVariableBase[t], v.items))
      [] OTHER -> Plain(t, v)

(* The values of a type that fit: a count and offsets have CountSize bytes. *)
OffsetsFit(parts) == \A i \in DOMAIN parts : OffsetOf(parts, i) < Numbers[CountSize]

Values(t) ==
    CASE t \in DOMAIN ScalarSizes -> ScalarValues(t)
      [] t \in DOMAIN MvFixedBase -> Tuples(ScalarValues(MvFixedBase[t]))
      [] t = "MV_GUID" -> {v \in Tuples(GuidValues) : Len(v.items) < Numbers[CountSize]}
      [] t \in DOMAIN MvVariableBase ->
            {v \in Tuples(SingleValues(MvVariableBase[t])) :
                OffsetsFit(AllPlain(MvVariableBase[t], v.items))}
      [] t = "NULL" -> {None}
      [] t = "GUID" -> GuidValues
      [] t = "OBJECT" -> [kind : {"object"}, node : Handles, size : Handles]
      [] OTHER -> SingleValues(t)

=============================================================================
