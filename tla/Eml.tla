---------------------------------- MODULE Eml ----------------------------------
(***************************************************************************)
(* eml.py: to_eml.  A message becomes an .eml: its transport headers, the  *)
(* headers that are missing made from its properties, its bodies, and its  *)
(* attachments, of which some are messages again and are assembled in the  *)
(* same way one level deeper.  Nothing remembers the messages met before:  *)
(* only the depth ends a message that carries itself.                      *)
(*                                                                         *)
(* Each running _assemble is a frame.  A property is absent, a text, a     *)
(* text that the email package refuses as a header ("broken": it has a     *)
(* line separator that is no control character), or refused by the store.  *)
(***************************************************************************)
EXTENDS PstLimits, SequencesExt

CONSTANTS Messages,                 \* the message nodes of a file
          Nids,                     \* their NIDs, unique within one attachment only
          Texts, Domains,           \* of Message-IDs
          Files, Calls,
          StoreDepth,               \* max_embedded_message_depth of the store
          MaxAttachments

(* The headers that may be made, in the order they are, and one that is    *)
(* not among them and may come more than once.                             *)
MadeOrder == <<"From", "To", "Cc", "Bcc", "Subject", "Date", "Message-ID">>
Made == ToSet(MadeOrder)
Names == Made \cup {"Received"}
AlwaysRead == {"From", "To", "Cc", "Bcc"}

Kinds == <<"plain", "rtf", "html">>
Outcome == Refusals \cup {NoError}
Method == {"BY_VALUE", "OLE", "EMBEDDED_MESSAGE", "BY_REFERENCE", "NONE"}
CarriesBytes == {"BY_VALUE", "OLE"}

Attachment ==
    [opens : Outcome, method : Method \cup Refusals,
     name : {"text", "broken"} \cup Refusals,
     data : [kind : {"bytes"}, size : Nat] \cup [kind : Refusals], \* or the reference to a message
     tags : Outcome \cup {"multipart"},    \* content id and MIME type, which may be any
     inline : BOOLEAN,              \* the HTML refers to its content id
     embeds : [node : Messages] \cup [node : Refusals]]

(* A Message-ID: its local part and the domain.  The local part is a text  *)
(* and the NIDs, written as ".%08x", that it ends with; "own" stands for   *)
(* the text that ids made here begin with, and NoLocal is the empty one.   *)
Locals == [base : Texts, path : Seq(Nids)]
NoLocal == [base |-> "empty", path |-> <<>>]
NoId == [local |-> NoLocal, domain |-> "none"]

Message ==
    [nid : Nids, ids : [{"delivered", "stored"} -> [local : Locals, domain : Domains]],
     transport : [kind : {"headers"}, list : Seq([name : Names, broken : BOOLEAN])]
                 \cup [kind : Refusals],
     own : [Made -> {"absent", "text", "broken"} \cup Refusals],
     body : [ToSet(Kinds) -> {"absent", "some"} \cup Refusals],
     table : [kind : {"rows"}, rows : Seq(Attachment)] \cup [kind : Refusals]]

ASSUME EmlFilesAssumption == \A f \in Files : f \in [Messages -> Message]
ASSUME EmlCallsAssumption ==
    \A c \in Calls : c \in [message : Messages, depth : Nat, synthesize : BOOLEAN,
                            maxDepth : Nat \ {0}, maxAllocation : Nat \ {0}]
ASSUME EmlIdsAssumption ==
    /\ {"empty", "own", "pypstreader"} \subseteq Texts
    /\ "synthetic" \in Domains /\ "none" \notin Domains
ASSUME EmlLimitsAssumption == StoreDepth \in Nat \ {0} /\ MaxAttachments \in Nat \ {0}

VARIABLES file, call,               \* the file and the arguments of to_eml
          frames,                   \* the running calls of _assemble, the newest last
          epc,                      \* "running", "done", "refused"
          built,                    \* what to_eml returns
          error

emlvars == <<file, call, frames, epc, built, error>>

Frame(m, depth, synthesize, prefix) ==
    [message |-> m, depth |-> depth, synthesize |-> synthesize, prefix |-> prefix,
     stage |-> "headers", at |-> 0,     \* attachments taken
     passed |-> {}, made |-> {}, id |-> NoId,
     root |-> "single",                 \* what the message itself is, as MIME
     htmlRoot |-> FALSE, hasHtml |-> FALSE,
     inline |-> <<>>, attached |-> <<>>, skipped |-> <<>>]

EmlStarts == /\ frames = <<Frame(call.message, call.depth, call.synthesize, NoLocal)>>
             /\ epc = "running" /\ built = <<>> /\ error = NoError

Init == file \in Files /\ call \in Calls /\ EmlStarts

F == Last(frames)
Rows(m) == file[m].table.rows
Current == Rows(F.message)[F.at + 1]

In(stage) == epc = "running" /\ F.stage = stage

Become(f) == /\ frames' = Append(Front(frames), f)
             /\ UNCHANGED <<file, call, epc, built, error>>

(* Nothing on the way up catches a refusal: it is to_eml's. *)
Refuse(class) == /\ epc' = "refused" /\ error' = class
                 /\ UNCHANGED <<file, call, frames, built>>

-----------------------------------------------------------------------------
(* Headers: passed through, then made.  The sender and the recipients are  *)
(* read even if their headers came through; the rest only if missing.      *)
PassedNames(m) == {h.name : h \in ToSet(file[m].transport.list)}

PassRefusal(m) ==
    IF file[m].transport.kind # "headers" THEN file[m].transport.kind
    ELSE LET list == file[m].transport.list
         IN IF \E i \in DOMAIN list :
                  \/ list[i].broken
                  \/ list[i].name \in Made /\ \E j \in 1..(i - 1) : list[j].name = list[i].name
            THEN "PstFormatError" ELSE NoError

Read(m, n) == n \in AlwaysRead \/ n \notin PassedNames(m)

(* A message without an id of its own is given one. *)
MadeNames(m) ==
    {n \in Made \ PassedNames(m) : file[m].own[n] # "absent" \/ n = "Message-ID"}

MakeRefusal(m) ==
    LET refused == {i \in DOMAIN MadeOrder :
                       Read(m, MadeOrder[i]) /\ file[m].own[MadeOrder[i]] \in Refusals}
    IN IF refused # {} THEN file[m].own[MadeOrder[Min(refused)]]
       ELSE IF \E n \in MadeNames(m) : file[m].own[n] = "broken" THEN "PstFormatError"
       ELSE NoError

HeadersRefusal(m, synthesize) ==
    IF PassRefusal(m) # NoError THEN PassRefusal(m)
    ELSE IF synthesize THEN MakeRefusal(m) ELSE NoError

(* An id that is made for a message without one has its NID behind the     *)
(* prefix, or behind the text of this package if there is no prefix.       *)
InventedLocal(m, prefix) ==
    IF prefix = NoLocal THEN [base |-> "own", path |-> <<file[m].nid>>]
    ELSE [prefix EXCEPT !.path = Append(@, file[m].nid)]

Id(m, made, prefix) ==
    CASE "Message-ID" \in PassedNames(m) -> file[m].ids["delivered"]
      [] "Message-ID" \in made ->
            IF file[m].own["Message-ID"] # "absent" THEN file[m].ids["stored"]
            ELSE [local |-> InventedLocal(m, prefix), domain |-> "synthetic"]
      [] OTHER -> NoId

RefuseHeaders == /\ In("headers")
                 /\ HeadersRefusal(F.message, F.synthesize) # NoError
                 /\ Refuse(HeadersRefusal(F.message, F.synthesize))

WriteHeaders ==
    /\ In("headers") /\ HeadersRefusal(F.message, F.synthesize) = NoError
    /\ LET made == IF F.synthesize THEN MadeNames(F.message) ELSE {}
       IN Become([F EXCEPT !.stage = "bodies", !.passed = PassedNames(F.message),
                           !.made = made, !.id = Id(F.message, made, F.prefix)])

-----------------------------------------------------------------------------
(* Bodies, and then the rows of the attachment table.  With one body the   *)
(* message itself is that body, with several it is multipart/alternative.  *)
Bodies(m) == {k \in ToSet(Kinds) : file[m].body[k] = "some"}

BodiesRefusal(m) ==
    LET refused == {i \in DOMAIN Kinds : file[m].body[Kinds[i]] \in Refusals}
    IN IF refused # {} THEN file[m].body[Kinds[Min(refused)]]
       ELSE IF file[m].table.kind # "rows" THEN file[m].table.kind
       ELSE IF Exceeds(Len(Rows(m)), MaxAttachments) THEN "PstLimitError"
       ELSE NoError

RefuseBodies == /\ In("bodies") /\ BodiesRefusal(F.message) # NoError
                /\ Refuse(BodiesRefusal(F.message))

WriteBodies ==
    /\ In("bodies") /\ BodiesRefusal(F.message) = NoError
    /\ LET b == Bodies(F.message)
       IN Become([F EXCEPT !.stage = "attachments",
                           !.root = IF Cardinality(b) > 1 THEN "alternative" ELSE "single",
                           !.hasHtml = "html" \in b, !.htmlRoot = b = {"html"}])

-----------------------------------------------------------------------------
(* _add_attachments, a turn of its loop.                                   *)
AtAttachment == In("attachments") /\ F.at < Len(Rows(F.message))

GoesInline(f, a) == f.hasHtml /\ a.inline

(* Mutant: only the store's depth is checked. *)
EmbedRefusalStoreOnly(f, a) ==
    IF a.data.kind # "bytes" THEN a.data.kind
    ELSE IF Exceeds(f.depth + 1, StoreDepth) THEN "PstLimitError"
    ELSE IF a.embeds.node \in Refusals THEN a.embeds.node
    ELSE NoError

(* _add_embedded up to the recursion, with Attachment.embedded_message:    *)
(* the call's ceiling, the reference, the store's ceiling, the message.    *)
EmbedRefusal(f, a) ==
    IF Exceeds(f.depth + 1, call.maxDepth) THEN "PstLimitError"
    ELSE IF a.data.kind # "bytes" THEN a.data.kind
    ELSE IF Exceeds(f.depth + 1, StoreDepth) THEN "PstLimitError"
    ELSE IF a.embeds.node \in Refusals THEN a.embeds.node
    ELSE NoError

(* What is wrong with an attachment that is opened, in the order in which  *)
(* it is looked at.  A related part cannot be added to an HTML body that   *)
(* has become the message's multipart/mixed.                               *)
AttachmentRefusal(f, a) ==
    IF a.opens # NoError THEN a.opens
    ELSE IF a.method \in Refusals THEN a.method
    ELSE IF a.name \in Refusals THEN a.name
    ELSE IF a.method = "EMBEDDED_MESSAGE" THEN EmbedRefusal(f, a)
    ELSE IF a.method \notin CarriesBytes
         THEN IF a.name = "broken" THEN "ValueError" ELSE NoError
    ELSE IF a.data.kind # "bytes" THEN a.data.kind
    ELSE IF Exceeds(a.data.size, call.maxAllocation) THEN "PstLimitError"
    ELSE IF a.tags \in Refusals THEN a.tags
    ELSE IF GoesInline(f, a) /\ f.htmlRoot /\ f.root = "mixed" THEN "PstFormatError"
    ELSE NoError

RefuseAttachment == /\ AtAttachment /\ AttachmentRefusal(F, Current) # NoError
                    /\ Refuse(AttachmentRefusal(F, Current))

Accepted(methods) == /\ AtAttachment /\ AttachmentRefusal(F, Current) = NoError
                     /\ Current.method \in methods

(* Mutant: an attachment without bytes leaves no trace. *)
SkipSilently == /\ Accepted(Method \ (CarriesBytes \cup {"EMBEDDED_MESSAGE"}))
                /\ Become([F EXCEPT !.at = @ + 1])

Skip == /\ Accepted(Method \ (CarriesBytes \cup {"EMBEDDED_MESSAGE"}))
        /\ Become([F EXCEPT !.at = @ + 1, !.skipped = Append(@, F.at + 1)])

AttachInline == /\ Accepted(CarriesBytes) /\ GoesInline(F, Current)
                /\ Become([F EXCEPT !.at = @ + 1, !.inline = Append(@, F.at + 1),
                                    !.root = IF F.htmlRoot THEN "related" ELSE @])

AttachData ==
    /\ Accepted(CarriesBytes) /\ ~GoesInline(F, Current)
    /\ Become([F EXCEPT !.at = @ + 1, !.root = "mixed",
                        !.attached = Append(@, [index |-> F.at + 1, eml |-> <<>>])])

(* What an id lends to those made below it: not its domain.                *)
LocalPart(id) == IF id.local = NoLocal THEN [base |-> "pypstreader", path |-> <<>>] ELSE id.local

(* Mutant: the carrier's own prefix is handed on. *)
ChildPrefixInherited(f) == f.prefix

(* _add_embedded, down to the inner _assemble.  Its carrier's id tells the *)
(* ids that are made for it from those made elsewhere.                     *)
ChildPrefix(f) == IF f.id # NoId THEN LocalPart(f.id) ELSE f.prefix

Enter == /\ Accepted({"EMBEDDED_MESSAGE"})
         /\ frames' = Append(frames, Frame(Current.embeds.node, F.depth + 1, TRUE, ChildPrefix(F)))
         /\ UNCHANGED <<file, call, epc, built, error>>

(* Bytes whose MIME type is some multipart are a part that says it has     *)
(* parts: they are text, and the walk over the parts fails on the first.   *)
PartsAreText(m) ==
    \E a \in ToSet(Rows(m)) :
        a.method \in CarriesBytes /\ a.tags = "multipart" /\ a.data.size > 0

Assembled == In("attachments") /\ F.at = Len(Rows(F.message))
Complete == Assembled /\ ~PartsAreText(F.message)

RefuseParts == Assembled /\ PartsAreText(F.message) /\ Refuse("TypeError")

(* Mutant: an embedded message does not make its carrier multipart/mixed.  *)
LeaveAsItWas ==
    /\ Complete /\ Len(frames) > 1
    /\ LET carrier == frames[Len(frames) - 1]
       IN frames' = Append(SubSeq(frames, 1, Len(frames) - 2),
              [carrier EXCEPT !.at = @ + 1,
                              !.attached = Append(@, [index |-> carrier.at + 1, eml |-> <<F>>])])
    /\ UNCHANGED <<file, call, epc, built, error>>

(* The inner message is assembled, and becomes a part of its carrier. *)
Leave ==
    /\ Complete /\ Len(frames) > 1
    /\ LET carrier == frames[Len(frames) - 1]
       IN frames' = Append(SubSeq(frames, 1, Len(frames) - 2),
              [carrier EXCEPT !.at = @ + 1, !.root = "mixed",
                              !.attached = Append(@, [index |-> carrier.at + 1, eml |-> <<F>>])])
    /\ UNCHANGED <<file, call, epc, built, error>>

Return == /\ Complete /\ Len(frames) = 1
          /\ epc' = "done" /\ built' = <<F>>
          /\ UNCHANGED <<file, call, frames, error>>

Next == \/ RefuseHeaders \/ WriteHeaders \/ RefuseBodies \/ WriteBodies
        \/ RefuseAttachment \/ Skip \/ AttachInline \/ AttachData
        \/ RefuseParts \/ Enter \/ Leave \/ Return

Spec == Init /\ [][Next]_emlvars

-----------------------------------------------------------------------------
(* The type of an assembly.  Each frame is at an attachment of the one     *)
(* before it that carries its message, one level deeper, and no embedded   *)
(* message is deeper than the call or the store allows.                    *)
EmlTypeOK ==
    /\ epc \in {"running", "done", "refused"}
    /\ (epc = "refused") = (error # NoError) /\ error \in Outcome \cup {"ValueError", "TypeError"}
    /\ Len(frames) > 0 /\ frames[1].depth = call.depth
    /\ \A i \in DOMAIN frames :
         /\ frames[i].stage \in {"headers", "bodies", "attachments"}
         /\ frames[i].at \in 0..MaxAttachments
    /\ \A i \in DOMAIN frames \ {1} :
         LET carrier == frames[i - 1]
         IN /\ frames[i].depth = carrier.depth + 1
            /\ ~Exceeds(frames[i].depth, call.maxDepth) /\ ~Exceeds(frames[i].depth, StoreDepth)
            /\ carrier.stage = "attachments" /\ carrier.at < Len(Rows(carrier.message))
            /\ Rows(carrier.message)[carrier.at + 1].embeds.node = frames[i].message

(* An .eml and all that it carries. *)
Carried(e) == {e.attached[i].eml[1] : i \in {j \in DOMAIN e.attached : e.attached[j].eml # <<>>}}

Emls(e) == LET level[n \in 0..StoreDepth] ==
                   IF n = 0 THEN {e} ELSE UNION {Carried(x) : x \in level[n - 1]}
           IN UNION {level[n] : n \in 0..StoreDepth}

(* Each attachment of the message is there once, as what it is: a related  *)
(* part, a part, a message or a note that it has no bytes in the store;    *)
(* and the parts come in the order of the table.                           *)
EachOnce(e) ==
    LET rows == Rows(e.message)
        parts == [i \in DOMAIN e.attached |-> e.attached[i].index]
        taken == e.inline \o parts \o e.skipped
        Ascends(s) == \A i \in 1..(Len(s) - 1) : s[i] < s[i + 1]
    IN /\ ToSet(taken) = DOMAIN rows /\ Len(taken) = Len(rows)
       /\ Ascends(e.inline) /\ Ascends(parts) /\ Ascends(e.skipped)
       /\ \A i \in ToSet(e.skipped) : rows[i].method \in {"BY_REFERENCE", "NONE"}
       /\ \A i \in ToSet(e.inline) : rows[i].inline /\ "html" \in Bodies(e.message)
       /\ \A a \in ToSet(e.attached) :
            IF rows[a.index].method = "EMBEDDED_MESSAGE"
            THEN /\ a.eml # <<>>
                 /\ a.eml[1].message = rows[a.index].embeds.node
                 /\ a.eml[1].depth = e.depth + 1
            ELSE a.eml = <<>> /\ rows[a.index].method \in CarriesBytes

(* An .eml has each attachment once at every level.                        *)
AttachmentsOnce == epc = "done" => \A e \in Emls(built[1]) : EachOnce(e)

-----------------------------------------------------------------------------
(* Reference: the first trouble of a message that is so deep, in the order *)
(* of its headers, bodies and attachments, and through what these carry.   *)
IsPart(m, a) == \/ a.method = "EMBEDDED_MESSAGE"
                \/ a.method \in CarriesBytes /\ ~(a.inline /\ "html" \in Bodies(m))

Met(d, m, i) ==
    [depth |-> d, hasHtml |-> "html" \in Bodies(m), htmlRoot |-> Bodies(m) = {"html"},
     root |-> IF \E j \in 1..(i - 1) : IsPart(m, Rows(m)[j]) THEN "mixed" ELSE "other"]

TroubleOf(below, d, m, i) ==
    LET a == Rows(m)[i]
    IN IF AttachmentRefusal(Met(d, m, i), a) # NoError THEN AttachmentRefusal(Met(d, m, i), a)
       ELSE IF a.method = "EMBEDDED_MESSAGE" THEN below[a.embeds.node]
       ELSE NoError

FirstTrouble(below, d, m) ==
    LET troubled == {i \in DOMAIN Rows(m) : TroubleOf(below, d, m, i) # NoError}
    IN IF HeadersRefusal(m, d > call.depth \/ call.synthesize) # NoError
       THEN HeadersRefusal(m, d > call.depth \/ call.synthesize)
       ELSE IF BodiesRefusal(m) # NoError THEN BodiesRefusal(m)
       ELSE IF troubled # {} THEN TroubleOf(below, d, m, Min(troubled))
       ELSE IF PartsAreText(m) THEN "TypeError" ELSE NoError

(* Of every message at every depth, from the deepest upwards; below that   *)
(* no message is embedded.                                                 *)
Trouble ==
    LET first[n \in 0..(StoreDepth + 1)] ==
            [m \in Messages |->
                FirstTrouble(IF n = 0 THEN [x \in Messages |-> NoError] ELSE first[n - 1],
                             call.depth + StoreDepth + 1 - n, m)]
    IN first[StoreDepth + 1][call.message]

(* A message converts if nothing in it, nor in what it carries down to the *)
(* depth allowed, refuses; and if it does not, for the first reason.  One  *)
(* refusal at any depth refuses the whole.                                 *)
VerdictMatchesMessage ==
    /\ epc = "done" => Trouble = NoError
    /\ epc = "refused" => error = Trouble

(* The messages that one message carries have different NIDs; and the ids  *)
(* that came with messages have local parts that differ, whatever their    *)
(* domains, and that look like none made here.                             *)
CarriedNids(m) == {Rows(m)[i].embeds.node :
                     i \in {j \in DOMAIN Rows(m) : Rows(m)[j].method = "EMBEDDED_MESSAGE"}}

SiblingsDiffer ==
    \A m \in Messages : file[m].table.kind = "rows" =>
        \A x, y \in CarriedNids(m) \cap Messages : file[x].nid = file[y].nid => x = y

Given(x) == /\ x.id # NoId
            /\ "Message-ID" \in PassedNames(x.message) \/ file[x.message].own["Message-ID"] # "absent"

GivenTellApart ==
    \A x, y \in Emls(built[1]) :
        Given(x) => /\ LocalPart(x.id).path = <<>> /\ LocalPart(x.id).base # "own"
                    /\ (Given(y) /\ LocalPart(x.id) = LocalPart(y.id)) => x.message = y.message

(* Then the ids of an .eml tell its messages apart, those made here too,   *)
(* also where a NID comes again at another depth.  It takes both: under    *)
(* carriers <1@a> and <1@b>, messages with one NID are given one id.       *)
IdsTellApart ==
    (epc = "done" /\ SiblingsDiffer /\ GivenTellApart) =>
        \A x, y \in Emls(built[1]) :
            (x.id # NoId /\ x.id = y.id) => x.message = y.message

-----------------------------------------------------------------------------
(* What the module says of attachments ("BY_VALUE and OLE become MIME      *)
(* parts"): a message none of whose parts is at fault is not refused.      *)
Faulty(m) ==
    \/ PassRefusal(m) # NoError
    \/ \E n \in Made : file[m].own[n] \notin {"absent", "text"}
    \/ BodiesRefusal(m) # NoError
    \/ \E a \in ToSet(Rows(m)) :
         \/ a.opens # NoError \/ a.method \in Refusals \/ a.name # "text"
         \/ a.data.kind # "bytes" \/ a.tags # NoError
         \/ a.method = "EMBEDDED_MESSAGE" /\ a.embeds.node \in Refusals

BytesBecomeParts ==
    (epc = "refused" /\ error = "PstFormatError") => \E m \in Messages : Faulty(m)

=============================================================================
