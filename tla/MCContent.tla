------------------------------- MODULE MCContent -------------------------------
(***************************************************************************)
(* Content over files of four messages: one with up to three attachments   *)
(* in every order, one that it carries, which may carry a third, the first *)
(* or itself, and a fourth that has a NID and an invented id for its twin; *)
(* and, one at a time, everything that may refuse in headers, bodies and   *)
(* attachments.                                                            *)
(* The RTF values are all streams of up to four tokens over a ring of four *)
(* bytes, the first of them written; output goes around the ring.          *)
(***************************************************************************)
EXTENDS Content

CONSTANTS top, mid, low, twin, p, q, nul, letter

MCMessages == {top, mid, low, twin}
MCNids == {p, q}
MCTexts == {"empty", "own", "pypstreader", "1", "2", "3", "4"}
MCDomains == {"a", "b", "synthetic"}
MCBytes == {nul, letter}
MCInitial == <<nul>>

Compressed == [kind |-> "LZFu", rawSize |-> 1, crcMatches |-> TRUE]
Value(h, s, t) == [header |-> h, bytes |-> s, tokens |-> t]

MCValues ==
    {Value(Compressed, <<>>, t) : t \in UNION {[1..n -> Token] : n \in 0..4}}
    \cup {Value([kind |-> "MELA", rawSize |-> n], <<nul, letter>>, <<>>) : n \in {0, 2, 3, 7}}
    \cup {Value([kind |-> "LZFu", rawSize |-> n, crcMatches |-> c], <<>>, <<>>) :
             n \in {1, 7}, c \in BOOLEAN}
    \cup {Value([kind |-> "refused"], <<>>, <<>>), Value([kind |-> "MELA", rawSize |-> 2], <<letter, nul>>, <<>>)}

HeaderLine(n) == [name |-> n, broken |-> FALSE]
Headers(names) == [kind |-> "headers", list |-> [i \in DOMAIN names |-> HeaderLine(names[i])]]
Local == Headers(<<>>)
Delivered == Headers(<<"Received", "Received", "From", "Message-ID">>)

AllText == [n \in Made |-> IF n = "Message-ID" THEN "absent" ELSE "text"]
BodyOf(kinds) == [k \in ToSet(Kinds) |-> IF k \in kinds THEN "some" ELSE "absent"]

Data == [opens |-> NoError, method |-> "BY_VALUE", name |-> "text",
         data |-> [kind |-> "bytes", size |-> 2], tags |-> NoError,
         inline |-> FALSE, embeds |-> [node |-> "PstFormatError"]]
Inline == [Data EXCEPT !.inline = TRUE]
ByReference == [Data EXCEPT !.method = "BY_REFERENCE"]
Embed(m) == [Data EXCEPT !.method = "EMBEDDED_MESSAGE", !.embeds = [node |-> m]]

Odd == {[Data EXCEPT !.opens = "PstNotFoundError"], [Data EXCEPT !.method = "PstUnsupportedError"],
        [Data EXCEPT !.name = "PstFormatError"], [Data EXCEPT !.name = "broken", !.method = "OLE"],
        [Data EXCEPT !.data.size = 3],
        [Data EXCEPT !.tags = "multipart", !.data.size = 0],
        [Data EXCEPT !.data = [kind |-> "PstLimitError"]], [Data EXCEPT !.tags = "PstFormatError"],
        [Embed(mid) EXCEPT !.data = [kind |-> "PstFormatError"]],
        [Embed(mid) EXCEPT !.embeds = [node |-> "PstNotFoundError"]]}

IdOf(base, path, domain) == [local |-> [base |-> base, path |-> path], domain |-> domain]
Named(text, domain) == [w \in {"delivered", "stored"} |-> IdOf(text, <<>>, domain)]

TableOf(rows) == [kind |-> "rows", rows |-> rows]
MessageOf(nid, transport, own, body, table) ==
    [nid |-> nid, ids |-> Named("1", "a"), transport |-> transport, own |-> own, body |-> body, table |-> table]

Plainly(nid, kinds, rows) == MessageOf(nid, Local, AllText, BodyOf(kinds), TableOf(rows))

(* Refused or unusual in one respect. *)
Peculiar(rows) ==
    {MessageOf(p, t, AllText, BodyOf({"plain"}), TableOf(rows)) :
        t \in {Delivered, Headers(<<"Subject", "Subject">>), [kind |-> "PstFormatError"],
               [kind |-> "headers", list |-> <<[name |-> "Received", broken |-> TRUE]>>]}}
    \cup {MessageOf(p, t, [AllText EXCEPT ![n] = v], BodyOf({"plain"}), TableOf(rows)) :
             t \in {Local, Delivered}, n \in {"From", "To", "Subject", "Message-ID"},
             v \in {"absent", "text", "broken", "PstLimitError"}}
    \cup {MessageOf(p, Local, AllText, [BodyOf({"plain"}) EXCEPT ![k] = "PstLimitError"],
                    TableOf(rows)) : k \in ToSet(Kinds)}
    \cup {MessageOf(p, Local, AllText, BodyOf({"plain"}), [kind |-> "PstFormatError"])}

TopRows == UNION {[1..n -> {Data, Inline, ByReference, Embed(mid)}] : n \in 0..3}
           \cup {<<Embed(mid), Embed(low)>>, <<Data, Data, Data, Data>>}
           \cup {<<Data, o>> : o \in Odd}
           \cup {<<[d EXCEPT !.tags = "multipart"]>> : d \in {Data, Inline}}
           \cup {<<Data, Data, [ByReference EXCEPT !.name = "broken"]>>}
Tops == {Plainly(p, kinds, r) : kinds \in {{}, {"plain"}, {"html"}, {"rtf", "html"}}, r \in TopRows}
        \cup Peculiar(<<Embed(mid)>>)

Mids == {Plainly(n, {"html"}, r) : n \in MCNids,
            r \in {<<>>, <<Data, Inline>>, <<Embed(top)>>, <<Embed(mid)>>, <<Embed(low)>>}}
        \cup Peculiar(<<Embed(low)>>)
Simple == Plainly(q, {"plain"}, <<Data>>)

FileOf(t, m, l) ==
    [x \in Messages |-> CASE x = top -> [t EXCEPT !.ids = Named("1", "a")]
                          [] x = mid -> [m EXCEPT !.ids = Named("2", "a")]
                          [] x = low -> [l EXCEPT !.ids = Named("3", "a")]
                          [] x = twin -> Plainly(p, {"plain"}, <<>>)]

(* Two carriers with ids that came with them, over messages with one NID.  *)
Carrier(n, rows) == MessageOf(n, Delivered, AllText, BodyOf({"plain"}), TableOf(rows))
Twins == FileOf(Carrier(q, <<Embed(mid), Embed(low)>>), Carrier(q, <<Embed(twin)>>),
                Plainly(p, {"plain"}, <<>>))
TwinIds == {IdOf("1", <<>>, "a"), IdOf("1", <<>>, "b"), IdOf("2", <<>>, "a"),
            IdOf("empty", <<>>, "a"), IdOf("pypstreader", <<>>, "b"), IdOf("empty", <<p>>, "a"),
            IdOf("1", <<p>>, "synthetic"), IdOf("own", <<q>>, "synthetic")}
IdFiles == {[Twins EXCEPT ![top].ids["delivered"] = u, ![mid].ids["delivered"] = v] :
               u, v \in TwinIds}

EmlFiles ==
    {FileOf(t, m, Simple) : t \in Tops, m \in {Simple, Plainly(p, {"html"}, <<Embed(top)>>)}}
    \cup {FileOf(Plainly(n, {"plain"}, r), m, l) :
             n \in MCNids, m \in Mids, l \in {Simple, Plainly(p, {}, <<Embed(low)>>)},
             r \in {<<Embed(mid)>>, <<Embed(low), Embed(mid)>>}}
    \cup IdFiles

(* Messages that store an RTF value, with a plain body besides, which may  *)
(* refuse, or that carry themselves.                                       *)
RtfFile(rtf, plain, rows) ==
    FileOf(MessageOf(p, Local, AllText, [BodyOf({}) EXCEPT !["rtf"] = rtf, !["plain"] = plain],
                     TableOf(rows)), Simple, Simple)
RtfFiles == {RtfFile(k, "absent", <<>>) : k \in {"absent", "some", "PstFormatError", "PstLimitError"}}
            \cup {RtfFile("absent", "some", <<Data>>), RtfFile("some", "absent", <<Embed(top)>>),
                  RtfFile("PstLimitError", "PstFormatError", <<>>)}

MCFiles == EmlFiles \cup RtfFiles

MCCalls == [message : {top}, depth : {0, 1}, synthesize : BOOLEAN,
            maxDepth : {1, 3}, maxAllocation : {2}]
MCFollowed ==
    [file : RtfFiles,
     call : {[message |-> top, depth |-> 1, synthesize |-> TRUE, maxDepth |-> 3, maxAllocation |-> 2]}]

=============================================================================
