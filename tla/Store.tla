-------------------------------- MODULE Store --------------------------------
(***************************************************************************)
(* messaging/store.py and the property accessors of message.py, folder.py  *)
(* and attachment.py: one open store, the objects a caller builds over it, *)
(* and what they answer, in any order of calls, before and after the file  *)
(* is closed.                                                              *)
(*                                                                         *)
(* A file has a property context for its store, its named property map, a  *)
(* folder, a message and an attachment of that message; each context says  *)
(* besides what PropContext reads                                          *)
(*   present  its node is in the tree it is looked up in                   *)
(*   subtree  how reading the node's own sub-node tree ends, "absent" when *)
(*            it has none; only a message reads it                         *)
(*   said     the values a writer meant, by the accessor that reads them   *)
(* and a file is hashed when a writer made the hash table of its map.      *)
(* A caller holds, besides the store and the map, one folder, one message, *)
(* or one message and its attachment, and one iteration over the           *)
(* properties of one of them.                                              *)
(***************************************************************************)
EXTENDS NamedProps

CONSTANTS Files,    \* what may be opened
          Tag,      \* the property ids of the accessors a caller uses, by name
          Asked,    \* the property ids asked for by number
          SetsAsked,\* the property sets asked for with a name
          Iterated  \* the objects a caller iterates over

Owners == {"store", "names", "folder", "message", "attachment"}

ASSUME FilesAssumption ==
    \A f \in Files : /\ f.owned \in BOOLEAN /\ f.hashed \in BOOLEAN
                      /\ f.header \in Refusals \cup {NoError}
                      /\ DOMAIN f.contexts = Owners
                      /\ \A o \in Owners : IsContext(f.contexts[o])

VARIABLES file,       \* the file: header, owned, contexts
          handle,     \* "new", "open" or "closed"
          objects,    \* the objects the caller has
          kept,       \* what each object has read and kept
          iteration,  \* the suspended __iter__: of which object, and after how many records
          answer      \* the last call and what it answered

storevars == <<file, handle, objects, kept, iteration, answer>>

Context(owner) == file.contexts[owner]
IsOpen == handle = "open"

NothingKept == [o \in Owners |-> IF o = "names" THEN KeptByNames ELSE [records |-> NotYet]]
NoIteration == [owner |-> "none", at |-> 0]

-----------------------------------------------------------------------------
(* The accessors, by what they take of the value and whether an absent or  *)
(* null property is a refusal.                                             *)
Reads(owner, reads, required) == [owner |-> owner, reads |-> reads, required |-> required]

StoreAccessors == [record_key |-> Reads("store", "key", TRUE),
                   display_name |-> Reads("store", "text", TRUE),
                   ipm_subtree |-> Reads("store", "entry id", TRUE),
                   wastebasket |-> Reads("store", "entry id", FALSE),
                   finder |-> Reads("store", "entry id", FALSE)]

FolderAccessors == [folder_name |-> Reads("folder", "text", TRUE),
                    content_count |-> Reads("folder", "int", TRUE),
                    unread_count |-> Reads("folder", "int", TRUE),
                    has_subfolders |-> Reads("folder", "bool", TRUE)]

MessageAccessors == [message_class |-> Reads("message", "text", TRUE),
                     subject_raw |-> Reads("message", "text", FALSE),
                     subject |-> Reads("message", "subject", FALSE),
                     normalized_subject |-> Reads("message", "text", FALSE),
                     subject_prefix |-> Reads("message", "prefix", FALSE),
                     sender_name |-> Reads("message", "text", FALSE),
                     sender_email |-> Reads("message", "text", FALSE),
                     sender_smtp |-> Reads("message", "text", FALSE),
                     delivery_filetime |-> Reads("message", "ticks", FALSE),
                     delivery_time |-> Reads("message", "time", FALSE),
                     client_submit_filetime |-> Reads("message", "ticks", FALSE),
                     client_submit_time |-> Reads("message", "time", FALSE),
                     creation_time |-> Reads("message", "time", FALSE),
                     last_modification_time |-> Reads("message", "time", FALSE),
                     message_flags |-> Reads("message", "int", TRUE),
                     message_size |-> Reads("message", "int", TRUE),
                     message_status |-> Reads("message", "int", TRUE),
                     search_key |-> Reads("message", "bytes", TRUE),
                     body_text |-> Reads("message", "text", FALSE),
                     body_html |-> Reads("message", "html", FALSE),
                     body_rtf |-> Reads("message", "bytes", FALSE),
                     transport_headers |-> Reads("message", "text", FALSE)]

AttachmentAccessors == [method_value |-> Reads("attachment", "int", TRUE),
                        method |-> Reads("attachment", "method", TRUE),
                        size |-> Reads("attachment", "int", TRUE),
                        rendering_position |-> Reads("attachment", "int", TRUE),
                        filename |-> Reads("attachment", "text", FALSE),
                        long_filename |-> Reads("attachment", "text", FALSE),
                        pathname |-> Reads("attachment", "text", FALSE),
                        mime_tag |-> Reads("attachment", "text", FALSE),
                        content_id |-> Reads("attachment", "text", FALSE)]

Accessors ==
    [n \in DOMAIN StoreAccessors \cup DOMAIN FolderAccessors
           \cup DOMAIN MessageAccessors \cup DOMAIN AttachmentAccessors |->
        CASE n \in DOMAIN StoreAccessors -> StoreAccessors[n]
          [] n \in DOMAIN FolderAccessors -> FolderAccessors[n]
          [] n \in DOMAIN MessageAccessors -> MessageAccessors[n]
          [] n \in DOMAIN AttachmentAccessors -> AttachmentAccessors[n]]

(* The accessors of the subject and of its parts read one property.        *)
ASSUME TagAssumption == /\ DOMAIN Tag \subseteq DOMAIN Accessors /\ Iterated \subseteq Owners
                        /\ Tag["subject_prefix"] = Tag["subject"]
                        /\ Tag["subject_raw"] = Tag["subject"]

-----------------------------------------------------------------------------
(* split_subject.  A str is indexed by character: a pair of surrogates is  *)
(* one.                                                                    *)
Characters(text) ==
    IF "characters" \in DOMAIN text THEN [i \in DOMAIN text.characters |-> <<text.characters[i]>>]
    ELSE LET starts == SetToSortSeq({i \in DOMAIN text.units : text.units[i] \notin LowSurrogates},
                                    LAMBDA i, j : i < j)
             End(k) == IF k < Len(starts) THEN starts[k + 1] - 1 ELSE Len(text.units)
         IN [k \in DOMAIN starts |-> SubSeq(text.units, starts[k], End(k))]

PrefixMarker == <<1>>
Ord(character) == IF Len(character) = 1 THEN character[1] ELSE Numbers[2]

Split(raw) ==
    LET length == Ord(raw[2]) - 1
        body == SubSeq(raw, 3, Len(raw))
    IN IF raw = <<>> \/ Head(raw) # PrefixMarker
       THEN [kind |-> "subject", prefix |-> <<>>, normalized |-> raw]
       ELSE IF Len(raw) < 2 THEN BadFormat
       ELSE IF length < 0 \/ length > Len(body) THEN BadFormat
       ELSE [kind |-> "subject", prefix |-> SubSeq(body, 1, length),
             normalized |-> SubSeq(body, length + 1, Len(body))]

SplitSubject(text) == Split(Characters(text))

(* Reference: a subject with a prefix has two characters before them, that *)
(* there is one and how long it is; one with none need not have them.      *)
Joined(prefix, normalized) == <<PrefixMarker, <<Len(prefix) + 1>>>> \o prefix \o normalized

IsSubject(text, prefix, normalized) ==
    \/ text = Joined(prefix, normalized)
    \/ prefix = <<>> /\ text = normalized /\ (text = <<>> \/ Head(text) # PrefixMarker)

(* What a writer said of the subject, if anything.                         *)
SaysSubject(ctx) ==
    LET subject == ctx.meant[Tag["subject"]]
        prefix == ctx.said["subject_prefix"].text
        normalized == ctx.said["normalized_subject"].text
        Said(text) == [kind |-> "text", text |-> text]
    IN DOMAIN ctx.said # {} =>
          /\ Tag["subject"] \in DOMAIN ctx.meant /\ subject.kind = "str"
          /\ Tag["normalized_subject"] \notin Ids(Records(ctx))
          /\ prefix \in Seq(Seq(Nat)) /\ normalized \in Seq(Seq(Nat))
          /\ IsSubject(Characters(subject), prefix, normalized)
          /\ ctx.said = [subject |-> Said(prefix \o normalized), subject_prefix |-> Said(prefix),
                         normalized_subject |-> Said(normalized)]

(* What a writer meant is in the file.                                     *)
ASSUME WrittenAssumption ==
    \A f \in Files :
        /\ \A o \in Owners : HasWhatWasMeant(f.contexts[o]) /\ SaysSubject(f.contexts[o])
        /\ f.hashed => IsHashed(f.contexts["names"])

(* EntryId.unpack_from: flags that must be zero, the key of the store that *)
(* issued it, a node.                                                      *)
KeySize == 16
EntryId(bytes) ==
    IF Len(bytes) # 4 + KeySize + 4 THEN BadFormat
    ELSE IF LittleEndian(SubSeq(bytes, 1, 4)) # 0 THEN BadFormat
    ELSE [kind |-> "entry id", key |-> SubSeq(bytes, 5, 20),
          node |-> LittleEndian(SubSeq(bytes, 21, 24))]

AttachMethods == 0..7   \* from_wire knows no other

(* What an accessor makes of a value; a value of another class refuses.    *)
Taken(reads, value) ==
    LET text == value.kind = "str"
        bytes == value.kind = "bytes"
    IN CASE reads = "text" /\ text -> value
         [] reads = "subject" /\ text ->
                Given(SplitSubject(value), LAMBDA split :
                    [kind |-> "text", text |-> split.prefix \o split.normalized])
         [] reads = "prefix" /\ text ->
                Given(SplitSubject(value), LAMBDA split : [kind |-> "text", text |-> split.prefix])
         [] reads = "int" /\ value.kind = "int" -> value
         [] reads = "method" /\ value.kind = "int" ->
                IF value.int \in AttachMethods THEN [kind |-> "method", method |-> value.int]
                ELSE Refused("PstUnsupportedError")
         [] reads = "bool" /\ value.kind = "bool" -> value
         [] reads = "bytes" /\ bytes -> value
         [] reads = "html" /\ bytes -> value
         [] reads = "html" /\ text -> [kind |-> "utf-8", text |-> value]
         [] reads = "key" /\ bytes -> IF Len(value.bytes) = KeySize THEN value ELSE BadFormat
         [] reads = "entry id" /\ bytes -> EntryId(value.bytes)
         [] OTHER -> BadFormat

(* _filetime reads the eight bytes itself, from a sub-node too. *)
Ticks(ctx, record, open) ==
    IF record.type # "SYSTIME" THEN BadFormat
    ELSE Given(Fetch(ctx, record.raw, open), LAMBDA data :
             IF Len(data.bytes) # 8 THEN BadFormat
             ELSE [kind |-> "int", int |-> Signed(LittleEndian(data.bytes), 8)])

Access(ctx, records, name, open) ==
    LET accessor == Accessors[name]
        record == RecordOf(records, Tag[name])
        absent == IF accessor.required THEN BadFormat ELSE None
    IN IF Tag[name] \notin Ids(records) THEN absent
       ELSE IF IsNull(record) THEN absent
       ELSE IF accessor.reads = "ticks" THEN Ticks(ctx, record, open)
       ELSE IF accessor.reads = "time"
       THEN Given(Ticks(ctx, record, open), LAMBDA ticks : FileTime(ticks.int))
       ELSE Given(Value(ctx, record, open), LAMBDA value : Taken(accessor.reads, value))

(* normalized_subject: the one the store has, or else the subject's.       *)
NormalizedSubject(ctx, records, open) ==
    Given(Access(ctx, records, "normalized_subject", open), LAMBDA stored :
        IF stored # None THEN stored
        ELSE Given(Access(ctx, records, "subject_raw", open), LAMBDA raw :
                 IF raw = None THEN None
                 ELSE Given(SplitSubject(raw), LAMBDA split :
                          [kind |-> "text", text |-> split.normalized])))

-----------------------------------------------------------------------------
(* Opening.  A node is looked up and read through the file; an attachment  *)
(* is looked up in the sub-nodes its message holds in memory.              *)
Closed(open) == IF open THEN NoError ELSE "ValueError"
Missing(ctx) == IF ctx.present THEN NoError ELSE "PstNotFoundError"
NoSubNodes(ctx) == IF ctx.subtree = "absent" THEN "PstFormatError" ELSE ctx.subtree

FirstOf(refusals) ==
    LET raised == {i \in DOMAIN refusals : refusals[i] # NoError}
    IN IF raised = {} THEN NoError ELSE refusals[Min(raised)]

ObjectRefusal(owner, open) ==
    LET ctx == Context(owner) IN
    CASE owner = "message" ->
            FirstOf(<<Closed(open), Missing(ctx), OpenRefusal(ctx), NoSubNodes(ctx)>>)
      [] owner = "attachment" -> FirstOf(<<Missing(ctx), Closed(open), OpenRefusal(ctx)>>)
      [] OTHER -> FirstOf(<<Closed(open), Missing(ctx), OpenRefusal(ctx)>>)

(* By EntryID, whose key must be this store's; by bare node the key is not *)
(* looked at.  The type of the node is checked before it is looked up.     *)
BareNode == [kind |-> "node"]

KeyRefusal(entry, key) ==
    IF IsRefusal(key) THEN key.kind
    ELSE IF entry.key # key.bytes THEN "PstFormatError" ELSE NoError

EntryRefusal(entry, storeKept, open) ==
    LET ctx == Context("store")
    IN IF entry = BareNode THEN NoError
       ELSE KeyRefusal(entry, Access(ctx, RecordsIn(ctx, storeKept), "record_key", open))

OpenedBy == [open_folder |-> "folder", open_message |-> "message"]

WrongType(call) == IF call.owner = OpenedBy[call.op] THEN NoError ELSE "PstFormatError"

Opened(refusal) == IF refusal = NoError THEN [kind |-> "opened"] ELSE Refused(refusal)

-----------------------------------------------------------------------------
(* What each call answers, of an object that has kept what it has.  A call *)
(* needs the object it is made on.                                         *)
OnContext(ctx, records, call, open) ==
    CASE call.op = "get" -> GetValue(ctx, records, call.id, open)
      [] call.op = "contains" -> [kind |-> "bool", bool |-> call.id \in Ids(records)]
      [] call.op = "len" -> [kind |-> "int", int |-> Len(records.records)]
      [] call.op = "access" ->
            IF call.name = "normalized_subject" THEN NormalizedSubject(ctx, records, open)
            ELSE Access(ctx, records, call.name, open)
      [] call.op = "next" ->
            IF call.at > Len(records.records) THEN [kind |-> "stop"]
            ELSE Given(Value(ctx, records.records[call.at], open), LAMBDA value :
                     [kind |-> "pair", id |-> records.records[call.at].id, value |-> value])

OnContextOps == {"get", "contains", "len", "access", "next"}
NamesOps == {"guids", "entries", "bucket_count", "lookup", "resolve", "hash_bucket"}

Opening(call, keptBy, open) ==
    IF call.op \in DOMAIN OpenedBy
    THEN Opened(FirstOf(<<EntryRefusal(call.entry, keptBy["store"], open), WrongType(call),
                          ObjectRefusal(call.owner, open)>>))
    ELSE Opened(ObjectRefusal(call.owner, open))

Reading(call, keptBy, open) ==
    LET ctx == Context(call.owner)
    IN Given(RecordsIn(ctx, keptBy[call.owner]),
             LAMBDA records : OnContext(ctx, records, call, open))

Answers(call, keptBy, open) ==
    CASE call.op \in OnContextOps -> Reading(call, keptBy, open)
      [] call.op \in NamesOps ->
            NamesAnswer(Context(call.owner), keptBy[call.owner], call, open)
      [] OTHER -> Opening(call, keptBy, open)

(* Mutant: a walk that refuses leaves the records it had found. *)
WithRecordsPartly(ctx, own) ==
    LET refused == {i \in DOMAIN ctx.records : RecordRefusal(ctx, i) # NoError}
        found == [kind |-> "records", records |-> SubSeq(ctx.records, 1, Min(refused) - 1)]
    IN [own EXCEPT !.records = IF refused # {} THEN found ELSE Keep(@, RecordsIn(ctx, own))]

WithRecords(ctx, own) == [own EXCEPT !.records = Keep(@, RecordsIn(ctx, own))]

KeptBy(call, keptBy, open) ==
    LET ctx == Context(call.owner)
        own == keptBy[call.owner]
    IN IF call.op \in NamesOps THEN KeptAfter(ctx, own, call, open) ELSE WithRecords(ctx, own)

-----------------------------------------------------------------------------
(* The calls a caller may make.                                            *)
Ask(op, owner) == [op |-> op, owner |-> owner]

NumberCalls ==
    {[op |-> op, owner |-> o, id |-> i] : op \in {"get", "contains"}, o \in Owners, i \in Asked}
AccessCalls ==
    {[op |-> "access", owner |-> Accessors[n].owner, name |-> n] : n \in DOMAIN Tag}

(* The entries and the names a caller can have: those of the store itself, *)
(* and a name that is nowhere in it.                                       *)
FreshEntries == Entries(Context("names"), KeptByNames, TRUE)
HeldEntries == ToSet(ItemsOf(FreshEntries))
Unnamed == {[kind |-> "named", guid |-> g, name |-> [kind |-> "int", int |-> 0]] : g \in SetsAsked}
NamesHeld == {m \in {Meaning(Context("names"), KeptByNames, e, TRUE) : e \in HeldEntries} :
                 ~IsRefusal(m)} \cup Unnamed

NamesCalls ==
    {Ask(op, "names") : op \in {"guids", "entries", "bucket_count"}}
    \cup {[op |-> "lookup", owner |-> "names", id |-> NamedBase + i] : i \in Asked}
    \cup {[op |-> "resolve", owner |-> "names", named |-> n] : n \in NamesHeld}
    \cup {[op |-> "hash_bucket", owner |-> "names", entry |-> e] : e \in HeldEntries}

ReadCalls ==
    {c \in NumberCalls \cup AccessCalls \cup {Ask("len", o) : o \in Owners} \cup NamesCalls :
        c.owner \in objects}

(* The EntryIDs a caller can have: this store's, and another store's. *)
Keys == {Context("store").items[h] : h \in DOMAIN Context("store").items}
EntriesHeld == {BareNode} \cup {[kind |-> "entry id", key |-> k.bytes] : k \in {k \in Keys : k.kind = "bytes"}}

OpenCalls ==
    {[op |-> op, owner |-> o, entry |-> e] :
        op \in DOMAIN OpenedBy, o \in {"folder", "message"}, e \in EntriesHeld}
    \cup (IF "names" \in objects THEN {} ELSE {Ask("named_properties", "names")})
    \cup (IF "message" \in objects THEN {Ask("attachment", "attachment")} ELSE {})

-----------------------------------------------------------------------------
StoreInit ==
    /\ file \in Files
    /\ handle = "new" /\ objects = {} /\ kept = NothingKept
    /\ iteration = NoIteration
    /\ answer = [call |-> Ask("none", "none"), value |-> None]

(* Store.open, and Store(f) over a file that stays the caller's: the       *)
(* header, the context and its records.  A file opened here is closed      *)
(* before a refusal propagates.                                            *)
OpenStore ==
    /\ handle = "new"
    /\ LET ctx == Context("store")
           records == Records(ctx)
           refusal == FirstOf(<<file.header, ObjectRefusal("store", TRUE),
                                IF IsRefusal(records) THEN records.kind ELSE NoError>>)
       IN /\ handle' = IF refusal # NoError /\ file.owned THEN "closed" ELSE "open"
          /\ objects' = IF refusal = NoError THEN {"store"} ELSE {}
          /\ kept' = IF refusal = NoError THEN [kept EXCEPT !["store"].records = records] ELSE kept
          /\ answer' = [call |-> Ask("open", "store"), value |-> Opened(refusal)]
    /\ UNCHANGED <<file, iteration>>

(* close, which does nothing the second time or to a caller's file.        *)
Close ==
    /\ "store" \in objects
    /\ handle' = IF file.owned THEN "closed" ELSE handle
    /\ answer' = [call |-> Ask("close", "store"), value |-> None]
    /\ UNCHANGED <<file, objects, kept, iteration>>

Read ==
    /\ \E call \in ReadCalls :
         /\ answer' = [call |-> call, value |-> Answers(call, kept, IsOpen)]
         /\ kept' = [kept EXCEPT ![call.owner] = KeptBy(call, kept, IsOpen)]
    /\ UNCHANGED <<file, handle, objects, iteration>>

(* open_folder, open_message, Attachment and named_properties: an object   *)
(* of its own each time, but for the map, which the store keeps.           *)
Holds(owner) ==
    CASE owner = "names" -> objects \cup {"names"}
      [] owner = "attachment" -> objects \cup {"attachment"}
      [] OTHER -> (objects \cap {"store", "names"}) \cup {owner}

OpenObject ==
    /\ "store" \in objects
    /\ \E call \in OpenCalls :
         LET value == Opening(call, kept, IsOpen)
             opened == value = [kind |-> "opened"]
         IN /\ answer' = [call |-> call, value |-> value]
            /\ objects' = IF opened THEN Holds(call.owner) ELSE objects
            /\ kept' = [o \in Owners |->
                  IF o \notin objects' \/ (opened /\ o = call.owner) THEN NothingKept[o] ELSE kept[o]]
            /\ iteration' = IF opened /\ iteration.owner \notin objects' \ {call.owner}
                            THEN NoIteration ELSE iteration
    /\ UNCHANGED <<file, handle>>

(* iter(properties) runs nothing; each next reads one value, and a refusal *)
(* ends the iteration.                                                     *)
Iterate ==
    /\ \E o \in objects \cap Iterated : iteration' = [owner |-> o, at |-> 1]
    /\ iteration = NoIteration
    /\ UNCHANGED <<file, handle, objects, kept, answer>>

Next ==
    /\ iteration # NoIteration
    /\ LET call == [op |-> "next", owner |-> iteration.owner, at |-> iteration.at]
           value == Reading(call, kept, IsOpen)
       IN /\ answer' = [call |-> call, value |-> value]
          /\ kept' = [kept EXCEPT ![call.owner] = WithRecords(Context(call.owner), @)]
          /\ iteration' = IF value.kind = "pair" THEN [iteration EXCEPT !.at = @ + 1]
                                                ELSE NoIteration
    /\ UNCHANGED <<file, handle, objects>>

StoreNext == OpenStore \/ Close \/ Read \/ OpenObject \/ Iterate \/ Next

StoreSpec == StoreInit /\ [][StoreNext]_storevars

-----------------------------------------------------------------------------
(* The type of a session.  Only a file the store opened is ever closed, an *)
(* attachment is held with its message, and what an object keeps was read  *)
(* whole: no refusal, and nothing an earlier object of its kind had read.  *)
StoreTypeOK ==
    /\ handle \in {"new", "open", "closed"} /\ (handle = "closed" => file.owned)
    /\ objects \subseteq Owners /\ (objects # {} => "store" \in objects)
    /\ "attachment" \in objects => "message" \in objects
    /\ ~({"folder", "message"} \subseteq objects)
    /\ iteration.owner \in objects \cup {"none"}
    /\ \A o \in Owners :
         /\ o \notin objects => kept[o] = NothingKept[o]
         /\ \A part \in DOMAIN kept[o] : ~IsRefusal(kept[o][part])
    /\ "store" \in objects => kept["store"].records # NotYet

(* Whatever was asked before, whatever refused or is kept, and whether or  *)
(* not another object read the same node: a call answers what the first    *)
(* call on a new object over the open file would, and only after the file  *)
(* is closed, of what is not in memory, ValueError.  Records once kept are *)
(* all of them, in ascending order, which is the order of an iteration.    *)
Fresh(call) == [open \in BOOLEAN |-> Answers(call, NothingKept, open)]

Agrees(value, fresh) ==
    \/ value = fresh[TRUE]
    \/ handle = "closed" /\ fresh[FALSE] = Refused("ValueError") /\ value = fresh[FALSE]

AnswersAreFiles ==
    /\ answer.call.op \notin {"none", "open", "close"} => Agrees(answer.value, Fresh(answer.call))
    /\ \A o \in objects : kept[o].records # NotYet =>
          LET records == kept[o].records.records IN
          /\ ToSet(records) = ToSet(Context(o).records)
          /\ \A i \in 1..(Len(records) - 1) : records[i].id < records[i + 1].id

(* A value that a writer encoded is read back as it was, by its id and by  *)
(* the accessors; and any value the reader answers, of whatever bytes, is  *)
(* one that a writer's bytes for it are read as.                           *)
Whole(value) == ~IsRefusal(value) /\ value # None

ReadsWhatWasWritten ==
    LET call == answer.call
        ctx == Context(call.owner)
        type == RecordOf(Records(ctx), call.id).type
    IN /\ (call.op = "get" /\ call.id \in DOMAIN ctx.meant) =>
             answer.value \in {ctx.meant[call.id], Refused("ValueError")}
       /\ (call.op = "access" /\ call.name \in DOMAIN ctx.said) =>
             answer.value \in {ctx.said[call.name], Refused("ValueError")}
       /\ (call.op = "get" /\ Whole(answer.value)) =>
             decode(type, encode(type, answer.value), TRUE) = answer.value

(* The two indexes over the entries agree: what resolve finds a name under *)
(* means that name to lookup, and a name that lookup knows is found under  *)
(* the first entry that has it, unless the entries give one id to two      *)
(* names, which lookup refuses and resolve does not notice.                *)
NamesAgree ==
    LET names == Context("names")
        call == answer.call
        Means(id) == Lookup(names, KeptByNames, id, TRUE)
        SameName(e) == Meaning(names, KeptByNames, e, TRUE) = call.named
    IN /\ (call.op = "resolve" /\ answer.value.kind = "int") =>
             /\ Means(answer.value.int) \in {call.named, BadFormat}
             /\ \E i \in DOMAIN FreshEntries.items :
                  /\ SameName(FreshEntries.items[i])
                  /\ FreshEntries.items[i].prop_id = answer.value.int
                  /\ \A j \in DOMAIN FreshEntries.items :
                        j < i => ~SameName(FreshEntries.items[j])
       /\ (call.op = "resolve" /\ answer.value = None) =>
             ~\E e \in HeldEntries : SameName(e)
       /\ (call.op = "lookup" /\ answer.value.kind = "named") =>
             Resolve(names, KeptByNames, answer.value, TRUE) # None

(* In a map that a writer made, the bucket hash_bucket reads for an entry  *)
(* has that entry in it, a name with a string in its hashed form.          *)
BucketsHoldEntries ==
    (answer.call.op = "hash_bucket" /\ file.hashed) =>
        \/ answer.value = Refused("ValueError")
        \/ /\ answer.value.kind = "entries"
           /\ \E e \in ToSet(answer.value.items) : e.prop_id = answer.call.entry.prop_id

=============================================================================
