----------------------------- MODULE StoreProofs -----------------------------
(***************************************************************************)
(* Proofs about an open store, for every file, every bound and every order *)
(* of calls.                                                               *)
(*                                                                         *)
(* What an object keeps is what a new object would read from the open      *)
(* file: that is KeptIsFresh, and a call then answers as it would on a new *)
(* object, or refuses as a new object over the closed file would.  Each    *)
(* operator a call is made of has one lemma that says so.                  *)
(***************************************************************************)
EXTENDS Store, DataLemmas, FiniteSetTheorems

Raised == Refused("ValueError")

(* An answer over the open file is that of a new object; one over the      *)
(* closed file is that, or the refusal a new object over it ends with too. *)
Settled(closed, onOpen, onClosed) ==
    \/ closed = onOpen
    \/ closed = Raised /\ onClosed = Raised

LEMMA RaisedRefuses == IsRefusal(Raised)
  BY DEF Raised, Refused, IsRefusal

LEMMA NotYetIsNoRefusal == ~IsRefusal(NotYet)
  BY DEF NotYet, IsRefusal, Refusals

-----------------------------------------------------------------------------
(* Values: closing the file changes no answer but to ValueError.           *)
LEMMA FetchClosed ==
    ASSUME NEW ctx, NEW hnid
    PROVE  Fetch(ctx, hnid, FALSE) \in {Fetch(ctx, hnid, TRUE), Raised}
  BY DEF Fetch, Raised

LEMMA ValueClosed ==
    ASSUME NEW ctx, NEW record
    PROVE  Value(ctx, record, FALSE) \in {Value(ctx, record, TRUE), Raised}
  <1>1. Data(ctx, record, FALSE) \in {Data(ctx, record, TRUE), Raised}
    BY FetchClosed DEF Data
  <1>. QED  BY <1>1, RaisedRefuses DEF Value, Given

LEMMA TicksClosed ==
    ASSUME NEW ctx, NEW record
    PROVE  Ticks(ctx, record, FALSE) \in {Ticks(ctx, record, TRUE), Raised}
  BY FetchClosed, RaisedRefuses DEF Ticks, Given

LEMMA AccessClosed ==
    ASSUME NEW ctx, NEW records, NEW name
    PROVE  Access(ctx, records, name, FALSE) \in {Access(ctx, records, name, TRUE), Raised}
  <1> DEFINE record == RecordOf(records, Tag[name])
  <1>1. Value(ctx, record, FALSE) \in {Value(ctx, record, TRUE), Raised}
    BY ValueClosed
  <1>2. Ticks(ctx, record, FALSE) \in {Ticks(ctx, record, TRUE), Raised}
    BY TicksClosed
  <1>. QED  BY <1>1, <1>2, RaisedRefuses DEF Access, Given

LEMMA NormalizedSubjectClosed ==
    ASSUME NEW ctx, NEW records
    PROVE  NormalizedSubject(ctx, records, FALSE)
             \in {NormalizedSubject(ctx, records, TRUE), Raised}
  <1>1. \A name : Access(ctx, records, name, FALSE) \in {Access(ctx, records, name, TRUE), Raised}
    BY AccessClosed
  <1>. QED  BY <1>1, RaisedRefuses DEF NormalizedSubject, Given

LEMMA OnContextClosed ==
    ASSUME NEW ctx, NEW records, NEW call, call.op \in OnContextOps
    PROVE  OnContext(ctx, records, call, FALSE) \in {OnContext(ctx, records, call, TRUE), Raised}
  <1>1. \A record : Value(ctx, record, FALSE) \in {Value(ctx, record, TRUE), Raised}
    BY ValueClosed
  <1>2. \A name : Access(ctx, records, name, FALSE) \in {Access(ctx, records, name, TRUE), Raised}
    BY AccessClosed
  <1>3. GetValue(ctx, records, call.id, FALSE) \in {GetValue(ctx, records, call.id, TRUE), Raised}
    BY <1>1 DEF GetValue
  <1>4. NormalizedSubject(ctx, records, FALSE) \in {NormalizedSubject(ctx, records, TRUE), Raised}
    BY NormalizedSubjectClosed
  <1>5. CASE call.op = "next"
    <2>1. Value(ctx, records.records[call.at], FALSE)
            \in {Value(ctx, records.records[call.at], TRUE), Raised}
      BY ValueClosed
    <2>. QED  BY <1>5, <2>1, RaisedRefuses DEF OnContext, Given
  <1>6. CASE call.op # "next"
    BY <1>6, <1>2, <1>3, <1>4 DEF OnContext, OnContextOps
  <1>. QED  BY <1>5, <1>6

-----------------------------------------------------------------------------
(* Names: what the map keeps is what a new map over the open file reads.   *)
NamesAreFresh(ctx, own) ==
    /\ own.records \in {NotYet, Records(ctx)}
    /\ own.guids \in {NotYet, Guids(ctx, KeptByNames, TRUE)}
    /\ own.entries \in {NotYet, Entries(ctx, KeptByNames, TRUE)}
    /\ own.byPropId \in {NotYet, ByPropId(ctx, KeptByNames, TRUE)}
    /\ own.byName \in {NotYet, ByName(ctx, KeptByNames, TRUE)}

LEMMA NewMapIsFresh ==
    ASSUME NEW ctx
    PROVE  /\ NamesAreFresh(ctx, KeptByNames)
           /\ RecordsIn(ctx, KeptByNames) = Records(ctx)
  BY DEF NamesAreFresh, KeptByNames, RecordsIn

LEMMA RecordsFresh ==
    ASSUME NEW ctx, NEW own, NamesAreFresh(ctx, own)
    PROVE  RecordsIn(ctx, own) = Records(ctx)
  BY DEF NamesAreFresh, RecordsIn

LEMMA StreamFresh ==
    ASSUME NEW ctx, NEW own, NamesAreFresh(ctx, own), NEW id
    PROVE  /\ \A open : Stream(ctx, own, id, open) = Stream(ctx, KeptByNames, id, open)
           /\ Stream(ctx, own, id, FALSE) \in {Stream(ctx, own, id, TRUE), Raised}
  <1>1. RecordsIn(ctx, own) = Records(ctx) /\ RecordsIn(ctx, KeptByNames) = Records(ctx)
    BY RecordsFresh, NewMapIsFresh
  <1>2. \A record : Value(ctx, record, FALSE) \in {Value(ctx, record, TRUE), Raised}
    BY ValueClosed
  <1>3. \A open : Stream(ctx, own, id, open) = Stream(ctx, KeptByNames, id, open)
    BY <1>1 DEF Stream
  <1>4. Stream(ctx, own, id, FALSE) \in {Stream(ctx, own, id, TRUE), Raised}
    BY <1>2, RaisedRefuses DEF Stream, Given
  <1>. QED  BY <1>3, <1>4

(* What is unpacked from a stream depends on the stream alone.             *)
GuidsIn(stream) == Unpacked(stream, GuidSize, Guid, "guids")
EntriesIn(stream) == Unpacked(stream, NameIdSize, NameId, "entries")

LEMMA UnpackedRefusal ==
    /\ GuidsIn(Raised) = Raised
    /\ EntriesIn(Raised) = Raised
  BY RaisedRefuses DEF GuidsIn, EntriesIn, Unpacked, Given

LEMMA GuidsSettled ==
    ASSUME NEW ctx, NEW own, NamesAreFresh(ctx, own)
    PROVE  /\ Guids(ctx, own, TRUE) = Guids(ctx, KeptByNames, TRUE)
           /\ Settled(Guids(ctx, own, FALSE), Guids(ctx, KeptByNames, TRUE),
                      Guids(ctx, KeptByNames, FALSE))
  <1> DEFINE stream(o, open) == Stream(ctx, o, GuidStream, open)
  <1>1. \A open : Guids(ctx, KeptByNames, open) = GuidsIn(stream(KeptByNames, open))
    BY DEF Guids, KeptByNames, GuidsIn
  <1>2. CASE own.guids # NotYet
    BY <1>2 DEF NamesAreFresh, Guids, Settled
  <1>3. CASE own.guids = NotYet
    <2>1. \A open : Guids(ctx, own, open) = GuidsIn(stream(own, open))
      BY <1>3 DEF Guids, GuidsIn
    <2>2. \A open : stream(own, open) = stream(KeptByNames, open)
      BY StreamFresh
    <2>3. stream(own, FALSE) \in {stream(own, TRUE), Raised}
      BY StreamFresh
    <2>. QED  BY <1>1, <2>1, <2>2, <2>3, UnpackedRefusal DEF Settled
  <1>. QED  BY <1>2, <1>3

LEMMA EntriesSettled ==
    ASSUME NEW ctx, NEW own, NamesAreFresh(ctx, own)
    PROVE  /\ Entries(ctx, own, TRUE) = Entries(ctx, KeptByNames, TRUE)
           /\ Settled(Entries(ctx, own, FALSE), Entries(ctx, KeptByNames, TRUE),
                      Entries(ctx, KeptByNames, FALSE))
  <1> DEFINE stream(o, open) == Stream(ctx, o, EntryStream, open)
  <1>1. \A open : Entries(ctx, KeptByNames, open) = EntriesIn(stream(KeptByNames, open))
    BY DEF Entries, KeptByNames, EntriesIn
  <1>2. CASE own.entries # NotYet
    BY <1>2 DEF NamesAreFresh, Entries, Settled
  <1>3. CASE own.entries = NotYet
    <2>1. \A open : Entries(ctx, own, open) = EntriesIn(stream(own, open))
      BY <1>3 DEF Entries, EntriesIn
    <2>2. \A open : stream(own, open) = stream(KeptByNames, open)
      BY StreamFresh
    <2>3. stream(own, FALSE) \in {stream(own, TRUE), Raised}
      BY StreamFresh
    <2>. QED  BY <1>1, <2>1, <2>2, <2>3, UnpackedRefusal DEF Settled
  <1>. QED  BY <1>2, <1>3

(* A tuple is its items, or the first of them that refuses.                *)
LEMMA TupleFirst ==
    ASSUME NEW items, DOMAIN items \in SUBSET Nat
    PROVE  \/ /\ \A i \in DOMAIN items : ~IsRefusal(items[i])
              /\ Tuple(items) = [kind |-> "tuple", items |-> items]
              /\ ~IsRefusal(Tuple(items))
           \/ \E i \in DOMAIN items :
                /\ Tuple(items) = items[i] /\ IsRefusal(items[i])
                /\ \A j \in DOMAIN items : j < i => ~IsRefusal(items[j])
  <1> DEFINE bad == {i \in DOMAIN items : IsRefusal(items[i])}
  <1>1. CASE bad = {}
    <2>1. Tuple(items) = [kind |-> "tuple", items |-> items]
      BY <1>1 DEF Tuple
    <2>2. ~IsRefusal([kind |-> "tuple", items |-> items])
      BY DEF IsRefusal, Refusals
    <2>. QED  BY <1>1, <2>1, <2>2
  <1>2. CASE bad # {}
    <2>1. Min(bad) \in bad /\ \A k \in bad : Min(bad) <= k
      BY <1>2, MinProperties
    <2>2. Tuple(items) = items[Min(bad)]
      BY <1>2 DEF Tuple
    <2>3. \A j \in DOMAIN items : j < Min(bad) => ~IsRefusal(items[j])
      BY <2>1
    <2>. QED  BY <2>1, <2>2, <2>3
  <1>. QED  BY <1>1, <1>2

(* Items that are settled one by one are settled as a tuple: the first that *)
(* refuses is the same one, or a ValueError.                               *)
LEMMA TupleSettled ==
    ASSUME NEW D \in SUBSET Nat, NEW closed, NEW onOpen, NEW onClosed,
           closed = [i \in D |-> closed[i]], onOpen = [i \in D |-> onOpen[i]],
           onClosed = [i \in D |-> onClosed[i]],
           \A i \in D : /\ Settled(closed[i], onOpen[i], onClosed[i])
                        /\ onClosed[i] \in {onOpen[i], Raised}
    PROVE  Settled(Tuple(closed), Tuple(onOpen), Tuple(onClosed))
  <1>0. DOMAIN closed = D /\ DOMAIN onOpen = D /\ DOMAIN onClosed = D
    OBVIOUS
  <1> DEFINE differ == {i \in D : closed[i] # onOpen[i]}
             first == Min(differ)
  <1>1. CASE differ = {}
    <2>1. closed = onOpen
      BY <1>1
    <2>. QED  BY <2>1 DEF Settled
  <1>2. CASE differ # {}
    <2>1. /\ first \in D /\ closed[first] # onOpen[first]
          /\ \A j \in D : j < first => closed[j] = onOpen[j]
      BY <1>2, MinProperties, SMTT(30)
    <2>2. closed[first] = Raised /\ onClosed[first] = Raised
      BY <2>1 DEF Settled
    <2>3. PICK i \in D : /\ Tuple(closed) = closed[i] /\ IsRefusal(closed[i])
                         /\ \A j \in D : j < i => ~IsRefusal(closed[j])
      BY <1>0, <2>1, <2>2, TupleFirst, RaisedRefuses
    <2>4. PICK k \in D : /\ Tuple(onClosed) = onClosed[k] /\ IsRefusal(onClosed[k])
                         /\ \A j \in D : j < k => ~IsRefusal(onClosed[j])
      BY <1>0, <2>1, <2>2, TupleFirst, RaisedRefuses
    <2>5. i <= first /\ k <= first
      BY <2>1, <2>2, <2>3, <2>4, RaisedRefuses
    <2>6. CASE i < first
      <3>0. \A j \in D : j < i => j < first
        BY <2>1, <2>6
      <3>1. closed[i] = onOpen[i] /\ \A j \in D : j < i => ~IsRefusal(onOpen[j])
        BY <2>1, <2>3, <2>6, <3>0, Zenon
      <3>2. PICK l \in D : /\ Tuple(onOpen) = onOpen[l] /\ IsRefusal(onOpen[l])
                           /\ \A j \in D : j < l => ~IsRefusal(onOpen[j])
        BY <1>0, <2>3, <3>1, TupleFirst
      <3>3. l = i
        BY <2>3, <3>1, <3>2
      <3>. QED  BY <2>3, <3>1, <3>2, <3>3 DEF Settled
    <2>7. CASE i = first
      <3>1. onClosed[k] = Raised
        <4>1. CASE k = first
          BY <4>1, <2>2
        <4>2. CASE k < first
          BY <4>2, <2>1, <2>3, <2>4, <2>7
        <4>. QED  BY <4>1, <4>2, <2>5, <2>1
      <3>. QED  BY <2>2, <2>3, <2>4, <2>7, <3>1 DEF Settled
    <2>. QED  BY <2>5, <2>6, <2>7, <2>1
  <1>. QED  BY <1>1, <1>2

(* Entries that are not refused are numbered.                              *)
LEMMA EntriesAreNumbered ==
    ASSUME NEW stream, ~IsRefusal(EntriesIn(stream))
    PROVE  DOMAIN EntriesIn(stream).items \in SUBSET Nat
  <1> DEFINE count == Len(stream.bytes) \div NameIdSize
             Slice(i) == SubSeq(stream.bytes, (i - 1) * NameIdSize + 1, i * NameIdSize)
             unpacked == [i \in 1..count |-> NameId(Slice(i))]
  <1>1. ~IsRefusal(stream)
    BY DEF EntriesIn, Unpacked, Given
  <1>2. IsRefusal(BadFormat) /\ IsRefusal(Refused("PstLimitError"))
    BY DEF BadFormat, Refused, IsRefusal, Refusals
  <1>3. EntriesIn(stream) = Given(Tuple(unpacked), LAMBDA tuple :
                                      [kind |-> "entries", items |-> tuple.items])
    BY <1>1, <1>2 DEF EntriesIn, Unpacked, Given
  <1>4. ~IsRefusal(Tuple(unpacked))
    BY <1>3 DEF Given
  <1>5. DOMAIN unpacked = 1..count /\ 1..count \in SUBSET Nat
    OBVIOUS
  <1>6. Tuple(unpacked).items = unpacked
    <2> HIDE DEF unpacked
    <2>. QED  BY <1>4, <1>5, TupleFirst
  <1>7. EntriesIn(stream).items = unpacked
    BY <1>3, <1>4, <1>6 DEF Given
  <1>. QED  BY <1>5, <1>7

LEMMA StringBytesSettled ==
    ASSUME NEW ctx, NEW own, NamesAreFresh(ctx, own), NEW offset
    PROVE  /\ \A open : StringBytes(ctx, own, offset, open) = StringBytes(ctx, KeptByNames, offset, open)
           /\ StringBytes(ctx, own, offset, FALSE) \in {StringBytes(ctx, own, offset, TRUE), Raised}
  <1>1. \A open : Stream(ctx, own, StringStream, open) = Stream(ctx, KeptByNames, StringStream, open)
    BY StreamFresh
  <1>2. Stream(ctx, own, StringStream, FALSE) \in {Stream(ctx, own, StringStream, TRUE), Raised}
    BY StreamFresh
  <1>3. \A open : StringBytes(ctx, own, offset, open) = StringBytes(ctx, KeptByNames, offset, open)
    BY <1>1 DEF StringBytes
  <1>4. StringBytes(ctx, own, offset, FALSE) \in {StringBytes(ctx, own, offset, TRUE), Raised}
    BY <1>2, RaisedRefuses DEF StringBytes, Given
  <1>. QED  BY <1>3, <1>4

LEMMA GuidOfSettled ==
    ASSUME NEW ctx, NEW own, NamesAreFresh(ctx, own), NEW entry
    PROVE  /\ GuidOf(ctx, own, entry, TRUE) = GuidOf(ctx, KeptByNames, entry, TRUE)
           /\ Settled(GuidOf(ctx, own, entry, FALSE), GuidOf(ctx, KeptByNames, entry, TRUE),
                      GuidOf(ctx, KeptByNames, entry, FALSE))
  <1> DEFINE Stored(guids) ==
                 Given(guids, LAMBDA g :
                     LET at == entry.guid - FirstStoredGuid + 1
                     IN IF at > Len(g.items) THEN BadFormat ELSE g.items[at])
  <1>1. CASE entry.guid \in {0, 1, 2}
    <2>1. CASE entry.guid = 0
      BY <2>1 DEF GuidOf, Settled
    <2>2. CASE entry.guid = 1
      BY <2>2 DEF GuidOf, Settled
    <2>3. CASE entry.guid = 2
      BY <2>3 DEF GuidOf, Settled
    <2>. QED  BY <1>1, <2>1, <2>2, <2>3
  <1>2. CASE entry.guid \notin {0, 1, 2}
    <2>1. \A o, open : GuidOf(ctx, o, entry, open) = Stored(Guids(ctx, o, open))
      BY <1>2 DEF GuidOf
    <2>2. Stored(Raised) = Raised
      BY RaisedRefuses DEF Given
    <2> HIDE DEF Stored
    <2>. QED  BY <2>1, <2>2, GuidsSettled DEF Settled
  <1>. QED  BY <1>1, <1>2

LEMMA NameOfSettled ==
    ASSUME NEW ctx, NEW own, NamesAreFresh(ctx, own), NEW entry
    PROVE  /\ \A open : NameOf(ctx, own, entry, open) = NameOf(ctx, KeptByNames, entry, open)
           /\ NameOf(ctx, own, entry, FALSE) \in {NameOf(ctx, own, entry, TRUE), Raised}
  <1> DEFINE raw(o, open) == StringBytes(ctx, o, entry.name_id, open)
  <1>1. \A open : raw(own, open) = raw(KeptByNames, open)
    BY StringBytesSettled
  <1>2. raw(own, FALSE) \in {raw(own, TRUE), Raised}
    BY StringBytesSettled
  <1>3. \A open : NameOf(ctx, own, entry, open) = NameOf(ctx, KeptByNames, entry, open)
    BY <1>1 DEF NameOf, LookupString
  <1>4. NameOf(ctx, own, entry, FALSE) \in {NameOf(ctx, own, entry, TRUE), Raised}
    BY <1>2, RaisedRefuses DEF NameOf, LookupString, Given
  <1>. QED  BY <1>3, <1>4

LEMMA MeaningSettled ==
    ASSUME NEW ctx, NEW own, NamesAreFresh(ctx, own), NEW entry
    PROVE  /\ Meaning(ctx, own, entry, TRUE) = Meaning(ctx, KeptByNames, entry, TRUE)
           /\ Settled(Meaning(ctx, own, entry, FALSE), Meaning(ctx, KeptByNames, entry, TRUE),
                      Meaning(ctx, KeptByNames, entry, FALSE))
  <1> DEFINE Named(guid, name) ==
                 Given(guid, LAMBDA g : Given(name, LAMBDA n :
                     [kind |-> "named", guid |-> g.uuid, name |-> n]))
             guid(o, open) == GuidOf(ctx, o, entry, open)
             name(o, open) == NameOf(ctx, o, entry, open)
  <1>1. \A o, open : Meaning(ctx, o, entry, open) = Named(guid(o, open), name(o, open))
    BY DEF Meaning
  <1>2. /\ \A n : Named(Raised, n) = Raised
        /\ \A g : Named(g, Raised) \in {Raised, g}
        /\ \A g, n : IsRefusal(g) => Named(g, n) = g
        /\ \A g : ~IsRefusal(g) => Named(g, Raised) = Raised
    BY RaisedRefuses DEF Given
  <1>3. /\ guid(own, TRUE) = guid(KeptByNames, TRUE)
        /\ Settled(guid(own, FALSE), guid(KeptByNames, TRUE), guid(KeptByNames, FALSE))
        /\ Settled(guid(KeptByNames, FALSE), guid(KeptByNames, TRUE), guid(KeptByNames, FALSE))
    BY GuidOfSettled, NewMapIsFresh
  <1>4. /\ \A open : name(own, open) = name(KeptByNames, open)
        /\ name(own, FALSE) \in {name(own, TRUE), Raised}
    BY NameOfSettled
  <1> HIDE DEF Named, guid, name
  <1>5. Named(guid(own, TRUE), name(own, TRUE)) = Named(guid(KeptByNames, TRUE), name(KeptByNames, TRUE))
    BY <1>3, <1>4
  <1>6. Settled(Named(guid(own, FALSE), name(own, FALSE)),
                Named(guid(KeptByNames, TRUE), name(KeptByNames, TRUE)),
                Named(guid(KeptByNames, FALSE), name(KeptByNames, FALSE)))
    <2>1. CASE guid(own, FALSE) # guid(KeptByNames, TRUE)
      BY <2>1, <1>2, <1>3 DEF Settled
    <2>2. CASE guid(own, FALSE) = guid(KeptByNames, TRUE) /\ IsRefusal(guid(own, FALSE))
      BY <2>2, <1>2 DEF Settled
    <2>3. CASE /\ guid(own, FALSE) = guid(KeptByNames, TRUE) /\ ~IsRefusal(guid(own, FALSE))
               /\ name(own, FALSE) = name(KeptByNames, TRUE)
      BY <2>3 DEF Settled
    <2>4. CASE /\ guid(own, FALSE) = guid(KeptByNames, TRUE) /\ ~IsRefusal(guid(own, FALSE))
               /\ name(own, FALSE) = Raised /\ name(KeptByNames, FALSE) = Raised
      BY <2>4, <1>2, <1>3 DEF Settled
    <2>. QED  BY <2>1, <2>2, <2>3, <2>4, <1>4
  <1>. QED  BY <1>1, <1>5, <1>6

-----------------------------------------------------------------------------
(* The two indexes, and the calls that look at them.                       *)
LEMMA ByPropIdSettled ==
    ASSUME NEW ctx, NEW own, NamesAreFresh(ctx, own)
    PROVE  /\ ByPropId(ctx, own, TRUE) = ByPropId(ctx, KeptByNames, TRUE)
           /\ Settled(ByPropId(ctx, own, FALSE), ByPropId(ctx, KeptByNames, TRUE),
                      ByPropId(ctx, KeptByNames, FALSE))
  <1> DEFINE Index(entries) ==
                 Given(entries, LAMBDA found :
                     LET At(id) == CHOOSE e \in ToSet(found.items) : e.prop_id = id
                     IN IF \E i, j \in DOMAIN found.items :
                              i < j /\ found.items[i].prop_id = found.items[j].prop_id
                        THEN BadFormat
                        ELSE [kind |-> "index",
                              of |-> [id \in {e.prop_id : e \in ToSet(found.items)} |-> At(id)]])
  <1>1. \A open : ByPropId(ctx, KeptByNames, open) = Index(Entries(ctx, KeptByNames, open))
    BY DEF ByPropId, KeptByNames
  <1>2. CASE own.byPropId # NotYet
    BY <1>2 DEF NamesAreFresh, ByPropId, Settled
  <1>3. CASE own.byPropId = NotYet
    <2>1. \A open : ByPropId(ctx, own, open) = Index(Entries(ctx, own, open))
      BY <1>3 DEF ByPropId
    <2>2. Index(Raised) = Raised
      BY RaisedRefuses DEF Given
    <2> HIDE DEF Index
    <2>. QED  BY <1>1, <2>1, <2>2, EntriesSettled DEF Settled
  <1>. QED  BY <1>2, <1>3

LEMMA MeaningsSettled ==
    ASSUME NEW ctx, NEW own, NamesAreFresh(ctx, own),
           NEW entries, DOMAIN entries.items \in SUBSET Nat
    PROVE  /\ Meanings(ctx, own, entries, TRUE) = Meanings(ctx, KeptByNames, entries, TRUE)
           /\ Settled(Meanings(ctx, own, entries, FALSE), Meanings(ctx, KeptByNames, entries, TRUE),
                      Meanings(ctx, KeptByNames, entries, FALSE))
  <1> DEFINE D == DOMAIN entries.items
             all(o, open) == [i \in D |-> Meaning(ctx, o, entries.items[i], open)]
  <1>1. \A o, open : Meanings(ctx, o, entries, open) = Tuple(all(o, open))
    BY DEF Meanings
  <1>2. all(own, TRUE) = all(KeptByNames, TRUE)
    BY MeaningSettled
  <1>3. \A i \in D : /\ Settled(all(own, FALSE)[i], all(KeptByNames, TRUE)[i], all(KeptByNames, FALSE)[i])
                     /\ all(KeptByNames, FALSE)[i] \in {all(KeptByNames, TRUE)[i], Raised}
    BY MeaningSettled, NewMapIsFresh DEF Settled
  <1>4. \A o, open : all(o, open) = [i \in D |-> all(o, open)[i]]
    OBVIOUS
  <1> HIDE DEF all
  <1>5. Settled(Tuple(all(own, FALSE)), Tuple(all(KeptByNames, TRUE)), Tuple(all(KeptByNames, FALSE)))
    BY <1>3, <1>4, TupleSettled
  <1>. QED  BY <1>1, <1>2, <1>5

(* What follows on a value: a refusal of the value is the answer.          *)
Followed(value, next) == IF IsRefusal(value) THEN value ELSE next

LEMMA FollowedSettled ==
    ASSUME NEW a, NEW aOpen, NEW aClosed, NEW b, NEW bOpen, NEW bClosed,
           Settled(a, aOpen, aClosed), aClosed \in {aOpen, Raised},
           a = aOpen /\ ~IsRefusal(aOpen) =>
               \/ b = bOpen
               \/ b = Raised /\ (aClosed = aOpen => bClosed = Raised)
    PROVE  Settled(Followed(a, b), Followed(aOpen, bOpen), Followed(aClosed, bClosed))
  BY RaisedRefuses DEF Settled, Followed

LEMMA ByNameSettled ==
    ASSUME NEW ctx, NEW own, NamesAreFresh(ctx, own)
    PROVE  /\ ByName(ctx, own, TRUE) = ByName(ctx, KeptByNames, TRUE)
           /\ Settled(ByName(ctx, own, FALSE), ByName(ctx, KeptByNames, TRUE),
                      ByName(ctx, KeptByNames, FALSE))
  <1> DEFINE Index(entries, meanings) ==
                 Given(meanings, LAMBDA found :
                     [kind |-> "index",
                      of |-> [n \in ToSet(found.items) |->
                                 entries.items[EntryOf(found.items, n)].prop_id]])
             entries(o, open) == Entries(ctx, o, open)
             index(o, open) == Index(entries(o, open), Meanings(ctx, o, entries(o, open), open))
  <1>1. \A open : ByName(ctx, KeptByNames, open)
                      = Followed(entries(KeptByNames, open), index(KeptByNames, open))
    BY DEF ByName, KeptByNames, Given, Followed
  <1>2. CASE own.byName # NotYet
    BY <1>2 DEF NamesAreFresh, ByName, Settled
  <1>3. CASE own.byName = NotYet
    <2>1. \A open : ByName(ctx, own, open) = Followed(entries(own, open), index(own, open))
      BY <1>3 DEF ByName, Given, Followed
    <2>2. /\ entries(own, TRUE) = entries(KeptByNames, TRUE)
          /\ Settled(entries(own, FALSE), entries(KeptByNames, TRUE), entries(KeptByNames, FALSE))
          /\ entries(KeptByNames, FALSE) \in {entries(KeptByNames, TRUE), Raised}
      BY EntriesSettled, NewMapIsFresh DEF Settled
    <2>3. ASSUME ~IsRefusal(entries(KeptByNames, TRUE))
          PROVE  /\ Meanings(ctx, own, entries(KeptByNames, TRUE), TRUE)
                      = Meanings(ctx, KeptByNames, entries(KeptByNames, TRUE), TRUE)
                 /\ Settled(Meanings(ctx, own, entries(KeptByNames, TRUE), FALSE),
                            Meanings(ctx, KeptByNames, entries(KeptByNames, TRUE), TRUE),
                            Meanings(ctx, KeptByNames, entries(KeptByNames, TRUE), FALSE))
      <3>1. entries(KeptByNames, TRUE) = EntriesIn(Stream(ctx, KeptByNames, EntryStream, TRUE))
        BY DEF Entries, KeptByNames, EntriesIn
      <3>2. DOMAIN entries(KeptByNames, TRUE).items \in SUBSET Nat
        BY <2>3, <3>1, EntriesAreNumbered
      <3>. QED  BY <3>2, MeaningsSettled
    <2>4. \A e : Index(e, Raised) = Raised
      BY RaisedRefuses DEF Given
    <2> HIDE DEF Index, entries
    <2>5. CASE IsRefusal(entries(KeptByNames, TRUE))
      <3> HIDE DEF index
      <3>. QED  BY <1>1, <2>1, <2>2, <2>5, RaisedRefuses DEF Followed, Settled
    <2>6. CASE ~IsRefusal(entries(KeptByNames, TRUE))
      <3>1. index(own, TRUE) = index(KeptByNames, TRUE)
        BY <2>2, <2>3, <2>6
      <3>2. entries(own, FALSE) = entries(KeptByNames, TRUE) =>
              \/ index(own, FALSE) = index(KeptByNames, TRUE)
              \/ /\ index(own, FALSE) = Raised
                 /\ entries(KeptByNames, FALSE) = entries(KeptByNames, TRUE) =>
                        index(KeptByNames, FALSE) = Raised
        BY <2>3, <2>4, <2>6 DEF Settled
      <3> HIDE DEF index
      <3>3. Settled(Followed(entries(own, FALSE), index(own, FALSE)),
                    Followed(entries(KeptByNames, TRUE), index(KeptByNames, TRUE)),
                    Followed(entries(KeptByNames, FALSE), index(KeptByNames, FALSE)))
        BY <2>2, <3>2, FollowedSettled
      <3>. QED  BY <1>1, <2>1, <2>2, <3>1, <3>3
    <2>. QED  BY <2>5, <2>6
  <1>. QED  BY <1>2, <1>3

LEMMA LookupSettled ==
    ASSUME NEW ctx, NEW own, NamesAreFresh(ctx, own), NEW id
    PROVE  /\ Lookup(ctx, own, id, TRUE) = Lookup(ctx, KeptByNames, id, TRUE)
           /\ Settled(Lookup(ctx, own, id, FALSE), Lookup(ctx, KeptByNames, id, TRUE),
                      Lookup(ctx, KeptByNames, id, FALSE))
  <1> DEFINE index(o, open) == ByPropId(ctx, o, open)
             Meant(i, o, open) == IF id \notin DOMAIN i.of THEN None
                                  ELSE Meaning(ctx, o, i.of[id], open)
             meant(o, open) == Meant(index(o, open), o, open)
  <1>1. \A o, open : Lookup(ctx, o, id, open) = Followed(index(o, open), meant(o, open))
    BY DEF Lookup, Given, Followed
  <1>2. /\ index(own, TRUE) = index(KeptByNames, TRUE)
        /\ Settled(index(own, FALSE), index(KeptByNames, TRUE), index(KeptByNames, FALSE))
        /\ index(KeptByNames, FALSE) \in {index(KeptByNames, TRUE), Raised}
    BY ByPropIdSettled, NewMapIsFresh DEF Settled
  <1>3. \A e : /\ Meaning(ctx, own, e, TRUE) = Meaning(ctx, KeptByNames, e, TRUE)
               /\ Settled(Meaning(ctx, own, e, FALSE), Meaning(ctx, KeptByNames, e, TRUE),
                          Meaning(ctx, KeptByNames, e, FALSE))
    BY MeaningSettled
  <1>4. \A i : /\ Meant(i, own, TRUE) = Meant(i, KeptByNames, TRUE)
               /\ Settled(Meant(i, own, FALSE), Meant(i, KeptByNames, TRUE),
                          Meant(i, KeptByNames, FALSE))
    BY <1>3 DEF Settled
  <1> HIDE DEF index, Meant
  <1>5. Settled(Followed(index(own, FALSE), meant(own, FALSE)),
                Followed(index(KeptByNames, TRUE), meant(KeptByNames, TRUE)),
                Followed(index(KeptByNames, FALSE), meant(KeptByNames, FALSE)))
    <2>1. index(own, FALSE) = index(KeptByNames, TRUE) =>
            \/ meant(own, FALSE) = meant(KeptByNames, TRUE)
            \/ /\ meant(own, FALSE) = Raised
               /\ index(KeptByNames, FALSE) = index(KeptByNames, TRUE) =>
                      meant(KeptByNames, FALSE) = Raised
      BY <1>4 DEF Settled
    <2> HIDE DEF meant
    <2>. QED  BY <1>2, <2>1, FollowedSettled
  <1>. QED  BY <1>1, <1>2, <1>4, <1>5

LEMMA ResolveSettled ==
    ASSUME NEW ctx, NEW own, NamesAreFresh(ctx, own), NEW named
    PROVE  /\ Resolve(ctx, own, named, TRUE) = Resolve(ctx, KeptByNames, named, TRUE)
           /\ Settled(Resolve(ctx, own, named, FALSE), Resolve(ctx, KeptByNames, named, TRUE),
                      Resolve(ctx, KeptByNames, named, FALSE))
  <1> DEFINE index(o, open) == ByName(ctx, o, open)
             Found(i) == Given(i, LAMBDA found :
                             IF named \notin DOMAIN found.of THEN None
                             ELSE [kind |-> "int", int |-> found.of[named]])
  <1>1. \A o, open : Resolve(ctx, o, named, open) = Found(index(o, open))
    BY DEF Resolve
  <1>2. Found(Raised) = Raised
    BY RaisedRefuses DEF Given
  <1> HIDE DEF Found
  <1>. QED  BY <1>1, <1>2, ByNameSettled DEF Settled

-----------------------------------------------------------------------------
(* The hash table.                                                         *)
LEMMA BucketCountSettled ==
    ASSUME NEW ctx, NEW own, NamesAreFresh(ctx, own)
    PROVE  /\ \A open : CountRecord(ctx, own, open) = CountRecord(ctx, KeptByNames, open)
           /\ CountRecord(ctx, own, FALSE) \in {CountRecord(ctx, own, TRUE), Raised}
           /\ BucketCount(ctx, own, TRUE) = BucketCount(ctx, KeptByNames, TRUE)
           /\ Settled(BucketCount(ctx, own, FALSE), BucketCount(ctx, KeptByNames, TRUE),
                      BucketCount(ctx, KeptByNames, FALSE))
  <1> DEFINE count(o, open) == CountRecord(ctx, o, open)
             entries(o, open) == Entries(ctx, o, open)
             Stray(c) == \E id \in Ids(Records(ctx)) : id - BucketBase >= c.int
             Counted(c) == IF Stray(c) THEN BadFormat ELSE c
             Checked(c, e) == IF c.int \notin 0..MaxBucketCount THEN BadFormat
                              ELSE IF c.int # 0 THEN Counted(c)
                              ELSE Given(e, LAMBDA found :
                                       IF found.items # <<>> THEN BadFormat ELSE Counted(c))
             checked(o, open) == Checked(count(o, open), entries(o, open))
  <1>1. RecordsIn(ctx, own) = Records(ctx) /\ RecordsIn(ctx, KeptByNames) = Records(ctx)
    BY RecordsFresh, NewMapIsFresh
  <1>2. \A open : count(own, open) = count(KeptByNames, open)
    BY <1>1 DEF CountRecord
  <1>3. count(own, FALSE) \in {count(own, TRUE), Raised}
    <2>1. \A record : Value(ctx, record, FALSE) \in {Value(ctx, record, TRUE), Raised}
      BY ValueClosed
    <2>. QED  BY <2>1 DEF CountRecord, Given
  <1>4. /\ \A open : BucketCount(ctx, own, open) = Followed(count(own, open), checked(own, open))
        /\ \A open : BucketCount(ctx, KeptByNames, open)
                        = Followed(count(KeptByNames, open), checked(KeptByNames, open))
    BY <1>1 DEF BucketCount, Given, Followed
  <1>5. /\ entries(own, TRUE) = entries(KeptByNames, TRUE)
        /\ Settled(entries(own, FALSE), entries(KeptByNames, TRUE), entries(KeptByNames, FALSE))
    BY EntriesSettled
  <1>6. \A c, e : \/ Checked(c, e) = Checked(c, Raised)
                  \/ Checked(c, Raised) = Raised
    BY RaisedRefuses DEF Given
  <1> HIDE DEF count, entries, Checked
  <1>7. checked(own, TRUE) = checked(KeptByNames, TRUE)
    BY <1>2, <1>5
  <1>8. count(own, FALSE) = count(KeptByNames, TRUE) =>
           \/ checked(own, FALSE) = checked(KeptByNames, TRUE)
           \/ /\ checked(own, FALSE) = Raised
              /\ count(KeptByNames, FALSE) = count(KeptByNames, TRUE) =>
                     checked(KeptByNames, FALSE) = Raised
    BY <1>2, <1>5, <1>6 DEF Settled
  <1> HIDE DEF checked
  <1>9. Settled(Followed(count(own, FALSE), checked(own, FALSE)),
                Followed(count(KeptByNames, TRUE), checked(KeptByNames, TRUE)),
                Followed(count(KeptByNames, FALSE), checked(KeptByNames, FALSE)))
    <2>1. Settled(count(own, FALSE), count(KeptByNames, TRUE), count(KeptByNames, FALSE))
      BY <1>2, <1>3 DEF Settled
    <2>2. count(KeptByNames, FALSE) \in {count(KeptByNames, TRUE), Raised}
      BY <1>2, <1>3
    <2>. QED  BY <1>8, <2>1, <2>2, FollowedSettled
  <1>10. BucketCount(ctx, own, TRUE) = BucketCount(ctx, KeptByNames, TRUE)
    BY <1>2, <1>4, <1>7
  <1>11. Settled(BucketCount(ctx, own, FALSE), BucketCount(ctx, KeptByNames, TRUE),
                 BucketCount(ctx, KeptByNames, FALSE))
    BY <1>4, <1>9
  <1>. QED  BY <1>2, <1>3, <1>10, <1>11 DEF count

LEMMA HashEntrySettled ==
    ASSUME NEW ctx, NEW own, NamesAreFresh(ctx, own), NEW entry
    PROVE  /\ \A open : HashEntry(ctx, own, entry, open) = HashEntry(ctx, KeptByNames, entry, open)
           /\ HashEntry(ctx, own, entry, FALSE) \in {HashEntry(ctx, own, entry, TRUE), Raised}
  <1> DEFINE raw(o, open) == StringBytes(ctx, o, entry.name_id, open)
  <1>1. \A open : raw(own, open) = raw(KeptByNames, open)
    BY StringBytesSettled
  <1>2. raw(own, FALSE) \in {raw(own, TRUE), Raised}
    BY StringBytesSettled
  <1>3. \A open : HashEntry(ctx, own, entry, open) = HashEntry(ctx, KeptByNames, entry, open)
    BY <1>1 DEF HashEntry
  <1>4. HashEntry(ctx, own, entry, FALSE) \in {HashEntry(ctx, own, entry, TRUE), Raised}
    BY <1>2, RaisedRefuses DEF HashEntry, Given
  <1>. QED  BY <1>3, <1>4

LEMMA HashBucketSettled ==
    ASSUME NEW ctx, NEW own, NamesAreFresh(ctx, own), NEW entry
    PROVE  /\ HashBucket(ctx, own, entry, TRUE) = HashBucket(ctx, KeptByNames, entry, TRUE)
           /\ Settled(HashBucket(ctx, own, entry, FALSE), HashBucket(ctx, KeptByNames, entry, TRUE),
                      HashBucket(ctx, KeptByNames, entry, FALSE))
  <1> DEFINE hashed(o, open) == HashEntry(ctx, o, entry, open)
             count(o, open) == BucketCount(ctx, o, open)
             Bucket(h, c) == BucketBase + (HashValue(h) % c.int)
             stream(o, h, c, open) == Stream(ctx, o, Bucket(h, c), open)
             Found(h, c, s) == IF c.int = 0 THEN BadFormat
                               ELSE IF Bucket(h, c) \notin Ids(Records(ctx))
                                    THEN Refused("PstNotFoundError")
                               ELSE EntriesIn(s)
             found(o, open) == Found(hashed(o, open), count(o, open),
                                     stream(o, hashed(o, open), count(o, open), open))
             counted(o, open) == Followed(count(o, open), found(o, open))
  <1>1. RecordsIn(ctx, own) = Records(ctx) /\ RecordsIn(ctx, KeptByNames) = Records(ctx)
    BY RecordsFresh, NewMapIsFresh
  <1>2. /\ \A open : HashBucket(ctx, own, entry, open) = Followed(hashed(own, open), counted(own, open))
        /\ \A open : HashBucket(ctx, KeptByNames, entry, open)
                        = Followed(hashed(KeptByNames, open), counted(KeptByNames, open))
    BY <1>1 DEF HashBucket, Given, Followed, EntriesIn
  <1>3. /\ \A open : hashed(own, open) = hashed(KeptByNames, open)
        /\ hashed(own, FALSE) \in {hashed(own, TRUE), Raised}
    BY HashEntrySettled
  <1>4. /\ count(own, TRUE) = count(KeptByNames, TRUE)
        /\ Settled(count(own, FALSE), count(KeptByNames, TRUE), count(KeptByNames, FALSE))
        /\ count(KeptByNames, FALSE) \in {count(KeptByNames, TRUE), Raised}
    BY BucketCountSettled, NewMapIsFresh DEF Settled
  <1>5. \A h, c : /\ \A open : stream(own, h, c, open) = stream(KeptByNames, h, c, open)
                  /\ stream(own, h, c, FALSE) \in {stream(own, h, c, TRUE), Raised}
    BY StreamFresh
  <1>6. \A h, c, s : \/ Found(h, c, s) = Found(h, c, Raised)
                     \/ Found(h, c, Raised) = Raised
    BY UnpackedRefusal
  <1> HIDE DEF hashed, count, stream, Found
  <1>7. found(own, TRUE) = found(KeptByNames, TRUE)
    BY <1>3, <1>4, <1>5, ZenonT(60)
  <1>8. hashed(own, FALSE) = hashed(KeptByNames, TRUE) /\ count(own, FALSE) = count(KeptByNames, TRUE) =>
           \/ found(own, FALSE) = found(KeptByNames, TRUE)
           \/ /\ found(own, FALSE) = Raised
              /\ count(KeptByNames, FALSE) = count(KeptByNames, TRUE) =>
                     found(KeptByNames, FALSE) = Raised
    <2>0. SUFFICES ASSUME hashed(own, FALSE) = hashed(KeptByNames, TRUE),
                          count(own, FALSE) = count(KeptByNames, TRUE)
                   PROVE  \/ found(own, FALSE) = found(KeptByNames, TRUE)
                          \/ /\ found(own, FALSE) = Raised
                             /\ count(KeptByNames, FALSE) = count(KeptByNames, TRUE) =>
                                    found(KeptByNames, FALSE) = Raised
      OBVIOUS
    <2> DEFINE h == hashed(KeptByNames, TRUE)
               c == count(KeptByNames, TRUE)
    <2>1. found(own, FALSE) = Found(h, c, stream(own, h, c, FALSE))
      BY <2>0
    <2>2. found(KeptByNames, TRUE) = Found(h, c, stream(KeptByNames, h, c, TRUE))
      OBVIOUS
    <2>3. count(KeptByNames, FALSE) = c =>
              found(KeptByNames, FALSE) = Found(h, c, stream(own, h, c, FALSE))
      <3>1. hashed(KeptByNames, FALSE) = h
        BY <2>0, <1>3
      <3>. QED  BY <1>5, <3>1, ZenonT(60)
    <2>4. stream(own, h, c, FALSE) \in {stream(KeptByNames, h, c, TRUE), Raised}
      BY <1>5
    <2> HIDE DEF found, h, c
    <2>. QED  BY <2>1, <2>2, <2>3, <2>4, <1>6 DEF c
  <1> HIDE DEF found
  <1>9. hashed(own, FALSE) = hashed(KeptByNames, TRUE) =>
           Settled(counted(own, FALSE), counted(KeptByNames, TRUE), counted(KeptByNames, FALSE))
    BY <1>4, <1>8, FollowedSettled
  <1>10. counted(own, TRUE) = counted(KeptByNames, TRUE)
    BY <1>4, <1>7
  <1> HIDE DEF counted
  <1>11. Settled(Followed(hashed(own, FALSE), counted(own, FALSE)),
                 Followed(hashed(KeptByNames, TRUE), counted(KeptByNames, TRUE)),
                 Followed(hashed(KeptByNames, FALSE), counted(KeptByNames, FALSE)))
    <2>1. Settled(hashed(own, FALSE), hashed(KeptByNames, TRUE), hashed(KeptByNames, FALSE))
      BY <1>3 DEF Settled
    <2>2. hashed(KeptByNames, FALSE) \in {hashed(KeptByNames, TRUE), Raised}
      BY <1>3
    <2>3. hashed(own, FALSE) = hashed(KeptByNames, TRUE) =>
             \/ counted(own, FALSE) = counted(KeptByNames, TRUE)
             \/ counted(own, FALSE) = Raised /\ counted(KeptByNames, FALSE) = Raised
      BY <1>9 DEF Settled
    <2>. QED  BY <2>1, <2>2, <2>3, FollowedSettled
  <1>. QED  BY <1>2, <1>3, <1>10, <1>11

(* Every call on the map.                                                  *)
LEMMA NamesAnswerSettled ==
    ASSUME NEW ctx, NEW own, NamesAreFresh(ctx, own), NEW call, call.op \in NamesOps
    PROVE  /\ NamesAnswer(ctx, own, call, TRUE) = NamesAnswer(ctx, KeptByNames, call, TRUE)
           /\ Settled(NamesAnswer(ctx, own, call, FALSE), NamesAnswer(ctx, KeptByNames, call, TRUE),
                      NamesAnswer(ctx, KeptByNames, call, FALSE))
  <1>1. CASE call.op = "guids"
    BY <1>1, GuidsSettled DEF NamesAnswer
  <1>2. CASE call.op = "entries"
    BY <1>2, EntriesSettled DEF NamesAnswer
  <1>3. CASE call.op = "bucket_count"
    BY <1>3, BucketCountSettled DEF NamesAnswer
  <1>4. CASE call.op = "lookup"
    BY <1>4, LookupSettled DEF NamesAnswer
  <1>5. CASE call.op = "resolve"
    <2>1. \A o, open : NamesAnswer(ctx, o, call, open) = Resolve(ctx, o, call.named, open)
      BY <1>5 DEF NamesAnswer
    <2>. QED  BY <2>1, ResolveSettled
  <1>6. CASE call.op = "hash_bucket"
    BY <1>6, HashBucketSettled DEF NamesAnswer
  <1>. QED  BY <1>1, <1>2, <1>3, <1>4, <1>5, <1>6 DEF NamesOps

-----------------------------------------------------------------------------
(* What is kept.  A refusal keeps what was there; anything else is what a  *)
(* new object over the open file would have built.                         *)
LEMMA KeepSettled ==
    ASSUME NEW old, NEW found, NEW onOpen, NEW onClosed,
           found = onOpen \/ Settled(found, onOpen, onClosed),
           old \in {NotYet, onOpen}
    PROVE  Keep(old, found) \in {NotYet, onOpen}
  BY RaisedRefuses DEF Keep, Settled

LEMMA KeepNoRefusal ==
    ASSUME NEW old, NEW found, ~IsRefusal(old)
    PROVE  ~IsRefusal(Keep(old, found))
  BY DEF Keep

LEMMA KeptAfterFresh ==
    ASSUME NEW ctx, NEW own, NamesAreFresh(ctx, own), NEW call, NEW open \in BOOLEAN,
           DOMAIN own = DOMAIN KeptByNames
    PROVE  /\ DOMAIN KeptAfter(ctx, own, call, open) = DOMAIN KeptByNames
           /\ NamesAreFresh(ctx, KeptAfter(ctx, own, call, open))
           /\ (\A part \in DOMAIN own : ~IsRefusal(own[part])) =>
                \A part \in DOMAIN own : ~IsRefusal(KeptAfter(ctx, own, call, open)[part])
  <1> DEFINE tried == Tried(ctx, own, call, open) \cup {"records"}
             after == KeptAfter(ctx, own, call, open)
             kept1(part, built) == IF part \in tried THEN Keep(own[part], built) ELSE own[part]
  <1>0. DOMAIN KeptByNames = {"records", "guids", "entries", "byPropId", "byName"}
    BY DEF KeptByNames
  <1>1. /\ DOMAIN after = DOMAIN own
        /\ after.records = kept1("records", RecordsIn(ctx, own))
        /\ after.guids = kept1("guids", Guids(ctx, own, open))
        /\ after.entries = kept1("entries", Entries(ctx, own, open))
        /\ after.byPropId = kept1("byPropId", ByPropId(ctx, own, open))
        /\ after.byName = kept1("byName", ByName(ctx, own, open))
    <2> HIDE DEF tried
    <2>. QED  BY <1>0 DEF KeptAfter, tried
  <1>2. \A part \in DOMAIN own : \E built : after[part] = kept1(part, built)
    <2> HIDE DEF tried, after
    <2>1. \A part, built : kept1(part, built) = kept1(part, built)
      OBVIOUS
    <2>. QED  BY <1>0, <1>1
  <1> HIDE DEF after, tried
  <1>3. after.records \in {NotYet, Records(ctx)}
    BY <1>1, RecordsFresh, KeepSettled DEF NamesAreFresh
  <1>4. after.guids \in {NotYet, Guids(ctx, KeptByNames, TRUE)}
    BY <1>1, GuidsSettled, KeepSettled DEF NamesAreFresh
  <1>5. after.entries \in {NotYet, Entries(ctx, KeptByNames, TRUE)}
    BY <1>1, EntriesSettled, KeepSettled DEF NamesAreFresh
  <1>6. after.byPropId \in {NotYet, ByPropId(ctx, KeptByNames, TRUE)}
    BY <1>1, ByPropIdSettled, KeepSettled DEF NamesAreFresh
  <1>7. after.byName \in {NotYet, ByName(ctx, KeptByNames, TRUE)}
    BY <1>1, ByNameSettled, KeepSettled DEF NamesAreFresh
  <1>8. NamesAreFresh(ctx, after)
    BY <1>3, <1>4, <1>5, <1>6, <1>7 DEF NamesAreFresh
  <1>9. (\A part \in DOMAIN own : ~IsRefusal(own[part])) =>
            \A part \in DOMAIN own : ~IsRefusal(after[part])
    BY <1>2, KeepNoRefusal
  <1>. QED  BY <1>1, <1>8, <1>9 DEF after

-----------------------------------------------------------------------------
(* Opening.                                                                *)
LEMMA FirstOfThree ==
    ASSUME NEW a, NEW b, NEW c
    PROVE  FirstOf(<<a, b, c>>) = IF a # NoError THEN a ELSE IF b # NoError THEN b ELSE c
  <1> DEFINE s == <<a, b, c>>
             raised == {i \in DOMAIN s : s[i] # NoError}
  <1>1. DOMAIN s = {1, 2, 3} /\ s[1] = a /\ s[2] = b /\ s[3] = c
    OBVIOUS
  <1>2. FirstOf(s) = IF raised = {} THEN NoError ELSE s[Min(raised)]
    BY DEF FirstOf
  <1> HIDE DEF s
  <1>3. CASE raised = {}
    BY <1>1, <1>2, <1>3 DEF s
  <1>4. CASE raised # {}
    <2>1. Min(raised) \in raised /\ \A k \in raised : Min(raised) <= k
      BY <1>1, <1>4, MinProperties
    <2>. QED  BY <1>1, <1>2, <1>4, <2>1 DEF s
  <1>. QED  BY <1>3, <1>4

LEMMA FirstOfFour ==
    ASSUME NEW a, NEW b, NEW c, NEW d
    PROVE  FirstOf(<<a, b, c, d>>)
             = IF a # NoError THEN a ELSE IF b # NoError THEN b ELSE IF c # NoError THEN c ELSE d
  <1> DEFINE s == <<a, b, c, d>>
             raised == {i \in DOMAIN s : s[i] # NoError}
  <1>1. DOMAIN s = {1, 2, 3, 4} /\ s[1] = a /\ s[2] = b /\ s[3] = c /\ s[4] = d
    OBVIOUS
  <1>2. FirstOf(s) = IF raised = {} THEN NoError ELSE s[Min(raised)]
    BY DEF FirstOf
  <1> HIDE DEF s
  <1>3. CASE raised = {}
    BY <1>1, <1>2, <1>3 DEF s
  <1>4. CASE raised # {}
    <2>1. Min(raised) \in raised /\ \A k \in raised : Min(raised) <= k
      BY <1>1, <1>4, MinProperties
    <2>. QED  BY <1>1, <1>2, <1>4, <2>1 DEF s
  <1>. QED  BY <1>3, <1>4

LEMMA ObjectRefusalClosed ==
    ASSUME NEW owner
    PROVE  ObjectRefusal(owner, FALSE) \in {ObjectRefusal(owner, TRUE), "ValueError"}
  <1>1. Closed(FALSE) = "ValueError" /\ Closed(TRUE) = NoError /\ "ValueError" # NoError
    BY DEF Closed, NoError
  <1> DEFINE ctx == Context(owner)
             missing == Missing(ctx)
             refused == OpenRefusal(ctx)
             bare == NoSubNodes(ctx)
  <1>2. CASE owner = "message"
    <2>1. \A open : ObjectRefusal(owner, open) = FirstOf(<<Closed(open), missing, refused, bare>>)
      BY <1>2 DEF ObjectRefusal
    <2> HIDE DEF missing, refused, bare
    <2>2. FirstOf(<<"ValueError", missing, refused, bare>>) = "ValueError"
      BY <1>1, FirstOfFour
    <2>. QED  BY <1>1, <2>1, <2>2, Zenon
  <1>3. CASE owner = "attachment"
    <2>1. \A open : ObjectRefusal(owner, open) = FirstOf(<<missing, Closed(open), refused>>)
      BY <1>3 DEF ObjectRefusal
    <2> HIDE DEF missing, refused
    <2>2. FirstOf(<<missing, Closed(FALSE), refused>>)
            \in {FirstOf(<<missing, Closed(TRUE), refused>>), "ValueError"}
      <3>1. FirstOf(<<missing, Closed(FALSE), refused>>)
              = IF missing # NoError THEN missing ELSE "ValueError"
        BY <1>1, FirstOfThree
      <3>2. missing # NoError => FirstOf(<<missing, Closed(TRUE), refused>>) = missing
        BY FirstOfThree
      <3>. QED  BY <3>1, <3>2
    <2>. QED  BY <2>1, <2>2
  <1>4. CASE owner \notin {"message", "attachment"}
    <2>1. \A open : ObjectRefusal(owner, open) = FirstOf(<<Closed(open), missing, refused>>)
      BY <1>4 DEF ObjectRefusal
    <2> HIDE DEF missing, refused
    <2>2. FirstOf(<<"ValueError", missing, refused>>) = "ValueError"
      BY <1>1, FirstOfThree
    <2>. QED  BY <1>1, <2>1, <2>2, Zenon
  <1>. QED  BY <1>2, <1>3, <1>4

LEMMA OpeningClosed ==
    ASSUME NEW call, NEW keptBy,
           RecordsIn(Context("store"), keptBy["store"]) = Records(Context("store"))
    PROVE  /\ Opening(call, keptBy, TRUE) = Opening(call, NothingKept, TRUE)
           /\ Opening(call, keptBy, FALSE) = Opening(call, NothingKept, FALSE)
           /\ Opening(call, keptBy, FALSE) \in {Opening(call, keptBy, TRUE), Raised}
  <1> DEFINE ctx == Context("store")
             entry(o, open) == EntryRefusal(call.entry, o["store"], open)
             object(open) == ObjectRefusal(call.owner, open)
  <1>1. /\ RecordsIn(ctx, keptBy["store"]) = Records(ctx)
        /\ RecordsIn(ctx, NothingKept["store"]) = Records(ctx)
    BY DEF RecordsIn, NothingKept, Owners
  <1>2. \A open : entry(keptBy, open) = entry(NothingKept, open)
    BY <1>1 DEF EntryRefusal
  <1>3. entry(keptBy, FALSE) \in {entry(keptBy, TRUE), "ValueError"}
    <2>1. Access(ctx, Records(ctx), "record_key", FALSE)
            \in {Access(ctx, Records(ctx), "record_key", TRUE), Raised}
      BY AccessClosed
    <2>2. Raised.kind = "ValueError"
      BY DEF Raised, Refused
    <2>. QED  BY <1>1, <2>1, <2>2, RaisedRefuses DEF EntryRefusal, KeyRefusal
  <1>4. object(FALSE) \in {object(TRUE), "ValueError"}
    BY ObjectRefusalClosed
  <1>5. Opened("ValueError") = Raised /\ "ValueError" # NoError
    BY DEF Opened, Raised, NoError
  <1> HIDE DEF entry, object
  <1>6. CASE call.op \in DOMAIN OpenedBy
    <2>1. \A o, open : Opening(call, o, open)
                         = Opened(FirstOf(<<entry(o, open), WrongType(call), object(open)>>))
      BY <1>6 DEF Opening, entry, object
    <2>2. FirstOf(<<entry(keptBy, FALSE), WrongType(call), object(FALSE)>>)
            \in {FirstOf(<<entry(keptBy, TRUE), WrongType(call), object(TRUE)>>), "ValueError"}
      <3> DEFINE first(open) ==
                     IF entry(keptBy, open) # NoError THEN entry(keptBy, open)
                     ELSE IF WrongType(call) # NoError THEN WrongType(call) ELSE object(open)
      <3>1. \A open : FirstOf(<<entry(keptBy, open), WrongType(call), object(open)>>) = first(open)
        BY FirstOfThree
      <3>2. first(FALSE) \in {first(TRUE), "ValueError"}
        BY <1>3, <1>4, <1>5
      <3>. QED  BY <3>1, <3>2
    <2>. QED  BY <1>2, <1>5, <2>1, <2>2
  <1>7. CASE call.op \notin DOMAIN OpenedBy
    <2>1. \A o, open : Opening(call, o, open) = Opened(object(open))
      BY <1>7 DEF Opening, object
    <2>. QED  BY <1>4, <1>5, <2>1
  <1>. QED  BY <1>6, <1>7

-----------------------------------------------------------------------------
(* The invariant: the file stays, and whatever an object keeps is what a   *)
(* new object over the open file would read.                               *)
KeptIsFresh ==
    /\ file \in Files
    /\ DOMAIN kept = Owners
    /\ \A o \in Owners : /\ DOMAIN kept[o] = DOMAIN NothingKept[o]
                         /\ kept[o].records \in {NotYet, Records(Context(o))}
    /\ NamesAreFresh(Context("names"), kept["names"])

SessionInv ==
    /\ objects # {} => handle # "new"
    /\ \/ iteration = NoIteration
       \/ iteration \in [owner : objects, at : Nat]

StoreInv == StoreTypeOK /\ KeptIsFresh /\ SessionInv

LEMMA NothingKeptParts ==
    /\ NothingKept["names"] = KeptByNames
    /\ DOMAIN NothingKept = Owners
    /\ \A o \in Owners : /\ "records" \in DOMAIN NothingKept[o]
                         /\ NothingKept[o].records = NotYet
                         /\ \A part \in DOMAIN NothingKept[o] : NothingKept[o][part] = NotYet
  BY DEF NothingKept, Owners, KeptByNames

LEMMA CallShapes ==
    /\ \A c \in ReadCalls : /\ c.owner \in objects
                            /\ c.op \in OnContextOps \cup NamesOps
                            /\ c.op \in NamesOps => c.owner = "names"
    /\ \A c \in OpenCalls : /\ c.owner \in {"folder", "message", "names", "attachment"}
                            /\ c.op \notin OnContextOps \cup NamesOps
                            /\ c.owner = "attachment" => "message" \in objects
  <1>1. ASSUME NEW c \in ReadCalls
        PROVE  /\ c.owner \in objects
               /\ c.op \in OnContextOps \cup NamesOps
               /\ c.op \in NamesOps => c.owner = "names"
    <2>1. c.owner \in objects
      BY <1>1 DEF ReadCalls
    <2>2. CASE c \in NumberCalls
      BY <2>1, <2>2 DEF NumberCalls, OnContextOps, NamesOps
    <2>3. CASE c \in AccessCalls
      BY <2>1, <2>3 DEF AccessCalls, OnContextOps, NamesOps
    <2>4. CASE c \in {Ask("len", o) : o \in Owners}
      BY <2>1, <2>4 DEF Ask, OnContextOps, NamesOps
    <2>5. CASE c \in NamesCalls
      BY <2>1, <2>5 DEF NamesCalls, Ask, OnContextOps, NamesOps
    <2>. QED  BY <1>1, <2>2, <2>3, <2>4, <2>5 DEF ReadCalls
  <1>2. ASSUME NEW c \in OpenCalls
        PROVE  /\ c.owner \in {"folder", "message", "names", "attachment"}
               /\ c.op \notin OnContextOps \cup NamesOps
               /\ c.owner = "attachment" => "message" \in objects
    <2>1. \/ c.op \in DOMAIN OpenedBy /\ c.owner \in {"folder", "message"}
          \/ c = Ask("named_properties", "names")
          \/ c = Ask("attachment", "attachment") /\ "message" \in objects
      BY <1>2 DEF OpenCalls
    <2>2. DOMAIN OpenedBy = {"open_folder", "open_message"}
      BY DEF OpenedBy
    <2>. QED  BY <2>1, <2>2 DEF Ask, OnContextOps, NamesOps
  <1>. QED  BY <1>1, <1>2

(* A call on an object answers as it would on a new one.                   *)
LEMMA AnswersSettled ==
    ASSUME KeptIsFresh, NEW call, call.owner \in Owners,
           call.op \in NamesOps => call.owner = "names"
    PROVE  /\ Answers(call, kept, TRUE) = Answers(call, NothingKept, TRUE)
           /\ Settled(Answers(call, kept, FALSE), Answers(call, NothingKept, TRUE),
                      Answers(call, NothingKept, FALSE))
  <1>0. OnContextOps \cap NamesOps = {}
    BY DEF OnContextOps, NamesOps
  <1>1. CASE call.op \in OnContextOps
    <2> DEFINE ctx == Context(call.owner)
               read(open) == Given(Records(ctx), LAMBDA records : OnContext(ctx, records, call, open))
    <2>1. /\ RecordsIn(ctx, kept[call.owner]) = Records(ctx)
          /\ RecordsIn(ctx, NothingKept[call.owner]) = Records(ctx)
      BY NothingKeptParts DEF KeptIsFresh, RecordsIn
    <2>2. \A open : /\ Answers(call, kept, open) = read(open)
                    /\ Answers(call, NothingKept, open) = read(open)
      BY <1>0, <1>1, <2>1 DEF Answers, Reading
    <2>3. read(FALSE) \in {read(TRUE), Raised}
      BY <1>1, OnContextClosed DEF Given
    <2> HIDE DEF read
    <2>. QED  BY <2>2, <2>3 DEF Settled
  <1>2. CASE call.op \in NamesOps
    <2> DEFINE ctx == Context("names")
    <2>1. \A open : /\ Answers(call, kept, open) = NamesAnswer(ctx, kept["names"], call, open)
                    /\ Answers(call, NothingKept, open) = NamesAnswer(ctx, KeptByNames, call, open)
      BY <1>0, <1>2, NothingKeptParts DEF Answers
    <2>. QED  BY <1>2, <2>1, NamesAnswerSettled DEF KeptIsFresh
  <1>3. CASE call.op \notin OnContextOps \cup NamesOps
    <2>1. \A o, open : Answers(call, o, open) = Opening(call, o, open)
      BY <1>3 DEF Answers
    <2>2. RecordsIn(Context("store"), kept["store"]) = Records(Context("store"))
      BY DEF KeptIsFresh, Owners, RecordsIn
    <2>3. /\ Opening(call, kept, TRUE) = Opening(call, NothingKept, TRUE)
          /\ Opening(call, kept, FALSE) = Opening(call, NothingKept, FALSE)
          /\ Opening(call, kept, FALSE) \in {Opening(call, kept, TRUE), Raised}
      BY <2>2, OpeningClosed
    <2>. QED  BY <2>1, <2>3 DEF Settled
  <1>. QED  BY <1>1, <1>2, <1>3

(* Records that are not refused are the context's own, in their order.     *)
LEMMA RecordsRead ==
    ASSUME NEW ctx, IsContext(ctx), ~IsRefusal(Records(ctx))
    PROVE  /\ Records(ctx) = [kind |-> "records", records |-> InIdOrder(ctx.records)]
           /\ \A i \in DOMAIN ctx.records : RecordRefusal(ctx, i) = NoError
           /\ Records(ctx) # NotYet
  <1> DEFINE bad == {i \in DOMAIN ctx.records : RecordRefusal(ctx, i) # NoError}
  <1>1. CASE bad # {}
    <2>1. bad \in SUBSET Nat
      BY DEF IsContext
    <2>2. Min(bad) \in bad
      BY <1>1, <2>1, MinProperties
    <2>3. RecordRefusal(ctx, Min(bad)) \in Refusals
      BY <2>2 DEF RecordRefusal, Refusals
    <2>4. Records(ctx) = Refused(RecordRefusal(ctx, Min(bad)))
      BY <1>1 DEF Records
    <2>. QED  BY <2>3, <2>4 DEF Refused, IsRefusal
  <1>2. CASE bad = {} /\ ctx.then # NoError
    <2>1. Records(ctx) = Refused(ctx.then)
      BY <1>2 DEF Records
    <2>. QED  BY <1>2, <2>1 DEF Refused, IsRefusal, IsContext
  <1>3. CASE bad = {} /\ ctx.then = NoError
    BY <1>3 DEF Records, NotYet
  <1>. QED  BY <1>1, <1>2, <1>3

(* What a call leaves its object with.                                     *)
LEMMA KeptBySound ==
    ASSUME KeptIsFresh, NEW o \in Owners, NEW own,
           own = kept[o] \/ own = NothingKept[o],
           \A part \in DOMAIN own : ~IsRefusal(own[part])
    PROVE  LET after == WithRecords(Context(o), own)
           IN /\ DOMAIN after = DOMAIN NothingKept[o]
              /\ after.records \in {NotYet, Records(Context(o))}
              /\ o = "names" => NamesAreFresh(Context(o), after)
              /\ \A part \in DOMAIN after : ~IsRefusal(after[part])
              /\ own.records # NotYet => after.records # NotYet
  <1> DEFINE ctx == Context(o)
             after == WithRecords(ctx, own)
             found == Keep(own.records, Records(ctx))
  <1>1. /\ DOMAIN own = DOMAIN NothingKept[o] /\ "records" \in DOMAIN own
        /\ own.records \in {NotYet, Records(ctx)}
    BY NothingKeptParts DEF KeptIsFresh
  <1>2. RecordsIn(ctx, own) = Records(ctx)
    BY <1>1 DEF RecordsIn
  <1>3. after = [own EXCEPT !.records = found]
    BY <1>2 DEF WithRecords
  <1>4. found \in {NotYet, Records(ctx)}
    BY <1>1 DEF Keep
  <1>5. ~IsRefusal(found)
    BY <1>1 DEF Keep
  <1>6. own.records # NotYet => found # NotYet
    BY <1>1 DEF Keep
  <1> HIDE DEF found, ctx
  <1>7. o = "names" => NamesAreFresh(ctx, own)
    BY NothingKeptParts, NewMapIsFresh DEF KeptIsFresh, ctx
  <1>8. o = "names" => NamesAreFresh(ctx, after)
    <2>1. CASE o # "names"
      BY <2>1
    <2>2. CASE o = "names"
      <3>1. DOMAIN own = {"records", "guids", "entries", "byPropId", "byName"}
        BY <1>1, <2>2, NothingKeptParts DEF KeptByNames
      <3>2. /\ after.records = found /\ after.guids = own.guids /\ after.entries = own.entries
            /\ after.byPropId = own.byPropId /\ after.byName = own.byName
        BY <1>3, <3>1
      <3> HIDE DEF after
      <3>. QED  BY <1>4, <1>7, <2>2, <3>2 DEF NamesAreFresh
    <2>. QED  BY <2>1, <2>2
  <1>. QED  BY <1>1, <1>3, <1>4, <1>5, <1>6, <1>8 DEF ctx

LEMMA KeptByCall ==
    ASSUME KeptIsFresh, NEW call, call.owner \in Owners, NEW open \in BOOLEAN,
           call.op \in NamesOps => call.owner = "names",
           \A part \in DOMAIN kept[call.owner] : ~IsRefusal(kept[call.owner][part])
    PROVE  LET o == call.owner
               after == KeptBy(call, kept, open)
           IN /\ DOMAIN after = DOMAIN NothingKept[o]
              /\ after.records \in {NotYet, Records(Context(o))}
              /\ o = "names" => NamesAreFresh(Context(o), after)
              /\ \A part \in DOMAIN after : ~IsRefusal(after[part])
              /\ o = "store" /\ kept[o].records # NotYet => after.records # NotYet
  <1>1. CASE call.op \in NamesOps
    <2> DEFINE after == KeptAfter(Context("names"), kept["names"], call, open)
    <2>1. KeptBy(call, kept, open) = after /\ call.owner = "names"
      BY <1>1 DEF KeptBy
    <2>2. NothingKept["names"] = KeptByNames /\ "names" \in Owners
      BY NothingKeptParts DEF Owners
    <2>3. DOMAIN kept["names"] = DOMAIN KeptByNames
      BY <2>2 DEF KeptIsFresh
    <2>4. /\ DOMAIN after = DOMAIN KeptByNames
          /\ NamesAreFresh(Context("names"), after)
          /\ \A part \in DOMAIN kept["names"] : ~IsRefusal(after[part])
      BY <2>1, <2>3, KeptAfterFresh DEF KeptIsFresh
    <2> HIDE DEF after
    <2>5. after.records \in {NotYet, Records(Context("names"))}
      BY <2>4 DEF NamesAreFresh
    <2>. QED  BY <2>1, <2>2, <2>3, <2>4, <2>5
  <1>2. CASE call.op \notin NamesOps
    BY <1>2, KeptBySound DEF KeptBy
  <1>. QED  BY <1>1, <1>2

(* The parts of the invariant that are about what is kept, of one object.  *)
KeptOf(o, own, present) ==
    /\ DOMAIN own = DOMAIN NothingKept[o]
    /\ own.records \in {NotYet, Records(Context(o))}
    /\ o = "names" => NamesAreFresh(Context(o), own)
    /\ \A part \in DOMAIN own : ~IsRefusal(own[part])
    /\ ~present => own = NothingKept[o]

LEMMA NothingKeptOf ==
    ASSUME NEW o \in Owners, NEW present
    PROVE  KeptOf(o, NothingKept[o], present)
  BY NothingKeptParts, NewMapIsFresh, NotYetIsNoRefusal DEF KeptOf

LEMMA KeptParts ==
    ASSUME file \in Files
    PROVE  /\ StoreInv => \A o \in Owners : KeptOf(o, kept[o], o \in objects)
           /\ DOMAIN kept = Owners /\ (\A o \in Owners : KeptOf(o, kept[o], o \in objects)) =>
                 /\ KeptIsFresh
                 /\ \A o \in Owners :
                       /\ o \notin objects => kept[o] = NothingKept[o]
                       /\ \A part \in DOMAIN kept[o] : ~IsRefusal(kept[o][part])
  BY DEF StoreInv, StoreTypeOK, KeptIsFresh, KeptOf, Owners

(* The type of a session, and that all it keeps is fresh.                  *)
THEOREM SessionInvariant == StoreSpec => []StoreInv
  <1>1. StoreInit => StoreInv
    <2>1. SUFFICES ASSUME StoreInit PROVE StoreInv
      OBVIOUS
    <2>2. \A o \in Owners : KeptOf(o, kept[o], o \in objects)
      BY <2>1, NothingKeptOf DEF StoreInit
    <2>3. /\ KeptIsFresh
          /\ \A o \in Owners :
                /\ o \notin objects => kept[o] = NothingKept[o]
                /\ \A part \in DOMAIN kept[o] : ~IsRefusal(kept[o][part])
      BY <2>1, <2>2, KeptParts, NothingKeptParts DEF StoreInit
    <2>. QED  BY <2>1, <2>3 DEF StoreInv, StoreTypeOK, SessionInv, StoreInit, NoIteration
  <1>2. StoreInv /\ [StoreNext]_storevars => StoreInv'
    <2>0. SUFFICES ASSUME StoreInv, [StoreNext]_storevars PROVE StoreInv'
      OBVIOUS
    <2>1. CASE UNCHANGED storevars
      BY <2>0, <2>1 DEF storevars, StoreInv, StoreTypeOK, KeptIsFresh, SessionInv, Context
    <2>a. file \in Files /\ DOMAIN kept = Owners /\ \A o \in Owners : KeptOf(o, kept[o], o \in objects)
      BY <2>0, KeptParts DEF StoreInv, KeptIsFresh
    <2>b. ASSUME file' = file, DOMAIN kept' = Owners,
                 \A o \in Owners : KeptOf(o, kept'[o], o \in objects')
          PROVE  /\ KeptIsFresh'
                 /\ \A o \in Owners :
                       /\ o \notin objects' => kept'[o] = NothingKept[o]
                       /\ \A part \in DOMAIN kept'[o] : ~IsRefusal(kept'[o][part])
      BY <2>a, <2>b DEF KeptIsFresh, KeptOf, Context, Owners
    <2>2. CASE OpenStore
      <3> DEFINE ctx == Context("store")
                 records == Records(ctx)
                 refused == IF IsRefusal(records) THEN records.kind ELSE NoError
                 refusal == FirstOf(<<file.header, ObjectRefusal("store", TRUE), refused>>)
      <3>1. /\ handle = "new" /\ file' = file /\ iteration' = iteration
            /\ handle' = IF refusal # NoError /\ file.owned THEN "closed" ELSE "open"
            /\ objects' = IF refusal = NoError THEN {"store"} ELSE {}
            /\ kept' = IF refusal = NoError THEN [kept EXCEPT !["store"].records = records] ELSE kept
        BY <2>2 DEF OpenStore
      <3>2. objects = {} /\ iteration = NoIteration
        BY <2>0, <3>1 DEF StoreInv, SessionInv
      <3>3. IsContext(ctx)
        BY <2>a, FilesAssumption DEF Context, Owners
      <3>4. refusal = NoError => ~IsRefusal(records)
        <4>1. refusal = NoError => refused = NoError
          <5> HIDE DEF refused
          <5>. QED  BY FirstOfThree
        <4>2. IsRefusal(records) => records.kind # NoError
          BY DEF IsRefusal, Refusals, NoError
        <4>. QED  BY <4>1, <4>2
      <3> DEFINE after == [kept["store"] EXCEPT !.records = records]
      <3>5. ASSUME refusal = NoError
            PROVE  KeptOf("store", after, TRUE) /\ after.records # NotYet
        <4>1. "store" \in Owners /\ "store" # "names"
          BY DEF Owners
        <4>2. KeptOf("store", kept["store"], "store" \in objects)
          BY <2>a, <4>1
        <4>3. records # NotYet /\ ~IsRefusal(records)
          BY <3>3, <3>4, <3>5, RecordsRead
        <4> HIDE DEF records, ctx
        <4>4. "records" \in DOMAIN kept["store"]
          BY <4>1, <4>2, NothingKeptParts DEF KeptOf
        <4>. QED  BY <4>1, <4>2, <4>3, <4>4 DEF KeptOf, records, ctx
      <3> HIDE DEF refusal, after
      <3>6. DOMAIN kept' = Owners /\ \A o \in Owners : KeptOf(o, kept'[o], o \in objects')
        <4>1. CASE refusal = NoError
          <5>1. kept' = [kept EXCEPT !["store"] = after] /\ objects' = {"store"}
            BY <3>1, <4>1 DEF after
          <5>. QED  BY <2>a, <3>2, <3>5, <4>1, <5>1 DEF KeptOf
        <4>2. CASE refusal # NoError
          BY <2>a, <3>1, <3>2, <4>2
        <4>. QED  BY <4>1, <4>2
      <3>7. "store" \in objects' => kept'["store"].records # NotYet
        <4>1. CASE refusal = NoError
          <5>1. kept' = [kept EXCEPT !["store"] = after]
            BY <3>1, <4>1 DEF after
          <5>2. kept'["store"] = after
            BY <2>a, <5>1 DEF Owners
          <5>. QED  BY <3>5, <4>1, <5>2
        <4>2. CASE refusal # NoError
          BY <3>1, <4>2
        <4>. QED  BY <4>1, <4>2
      <3>8. /\ handle' \in {"open", "closed"} /\ (handle' = "closed" => file'.owned)
            /\ objects' \in {{}, {"store"}} /\ iteration' = NoIteration
        BY <3>1, <3>2
      <3>. QED  BY <2>b, <3>1, <3>6, <3>7, <3>8
                DEF StoreInv, StoreTypeOK, SessionInv, NoIteration, Owners
    <2>3. CASE Close
      <3>1. file' = file /\ kept' = kept /\ objects' = objects /\ iteration' = iteration
        BY <2>3 DEF Close
      <3>2. handle' \in {handle, "closed"} /\ (handle' = "closed" => file.owned \/ handle = "closed")
        BY <2>3 DEF Close
      <3>. QED  BY <2>0, <3>1, <3>2 DEF StoreInv, StoreTypeOK, KeptIsFresh, SessionInv, Context
    <2>4. CASE Read
      <3>1. PICK call \in ReadCalls : kept' = [kept EXCEPT ![call.owner] = KeptBy(call, kept, IsOpen)]
        BY <2>4 DEF Read
      <3>2. UNCHANGED <<file, handle, objects, iteration>>
        BY <2>4 DEF Read
      <3>3. /\ call.owner \in objects /\ call.owner \in Owners
            /\ call.op \in NamesOps => call.owner = "names"
        BY <2>0, <3>1, CallShapes DEF StoreInv, StoreTypeOK
      <3> DEFINE after == KeptBy(call, kept, IsOpen)
      <3>4. /\ DOMAIN after = DOMAIN NothingKept[call.owner]
            /\ after.records \in {NotYet, Records(Context(call.owner))}
            /\ call.owner = "names" => NamesAreFresh(Context(call.owner), after)
            /\ \A part \in DOMAIN after : ~IsRefusal(after[part])
            /\ call.owner = "store" /\ kept[call.owner].records # NotYet => after.records # NotYet
        <4>1. IsOpen \in BOOLEAN
          BY DEF IsOpen
        <4>. QED  BY <2>0, <2>a, <3>3, <4>1, KeptByCall DEF StoreInv, KeptOf
      <3>5. KeptOf(call.owner, after, call.owner \in objects)
        BY <3>3, <3>4 DEF KeptOf
      <3> HIDE DEF after
      <3>6. DOMAIN kept' = Owners /\ \A o \in Owners : KeptOf(o, kept'[o], o \in objects')
        BY <2>a, <3>1, <3>2, <3>3, <3>5 DEF after
      <3>7. "store" \in objects => kept'["store"].records # NotYet
        BY <2>0, <2>a, <3>1, <3>4 DEF StoreInv, StoreTypeOK, Owners, after
      <3>. QED  BY <2>0, <2>b, <3>2, <3>6, <3>7 DEF StoreInv, StoreTypeOK, SessionInv
    <2>5. CASE OpenObject
      <3>1. PICK call \in OpenCalls : \E opened \in BOOLEAN :
               /\ objects' = IF opened THEN Holds(call.owner) ELSE objects
               /\ kept' = [o \in Owners |->
                     IF o \notin objects' \/ (opened /\ o = call.owner)
                     THEN NothingKept[o] ELSE kept[o]]
               /\ iteration' = IF opened /\ iteration.owner \notin objects' \ {call.owner}
                               THEN NoIteration ELSE iteration
        BY <2>5 DEF OpenObject
      <3>2. "store" \in objects /\ UNCHANGED <<file, handle>>
        BY <2>5 DEF OpenObject
      <3>3. /\ call.owner \in {"folder", "message", "names", "attachment"}
            /\ call.owner = "attachment" => "message" \in objects
        BY <3>1, CallShapes
      <3>4. /\ objects' \subseteq Owners /\ "store" \in objects'
            /\ "attachment" \in objects' => "message" \in objects'
            /\ ~({"folder", "message"} \subseteq objects')
        BY <2>0, <3>1, <3>2, <3>3 DEF StoreInv, StoreTypeOK, Holds, Owners
      <3>5. ASSUME NEW o \in Owners
            PROVE  KeptOf(o, kept'[o], o \in objects')
        <4>1. CASE kept'[o] = NothingKept[o]
          BY <4>1, NothingKeptOf
        <4>2. CASE o \in objects' /\ kept'[o] = kept[o]
          BY <2>a, <4>2 DEF KeptOf
        <4>. QED  BY <3>1, <4>1, <4>2
      <3>6. DOMAIN kept' = Owners
        BY <3>1
      <3>7. kept'["store"] = kept["store"]
        BY <3>1, <3>3, <3>4 DEF Owners
      <3>8. iteration' = NoIteration \/ iteration' \in [owner : objects', at : Nat]
        <4>1. CASE iteration' = NoIteration
          BY <4>1
        <4>2. CASE iteration' # NoIteration
          <5>1. iteration' = iteration /\ iteration \in [owner : objects, at : Nat]
            BY <2>0, <3>1, <4>2 DEF StoreInv, SessionInv
          <5>2. iteration.owner \in objects'
            BY <3>1, <4>2, <5>1
          <5>. QED  BY <5>1, <5>2
        <4>. QED  BY <4>1, <4>2
      <3>9. iteration'.owner \in objects' \cup {"none"}
        BY <3>8 DEF NoIteration
      <3>10. "store" \in objects' => kept'["store"].records # NotYet
        BY <2>0, <3>2, <3>7 DEF StoreInv, StoreTypeOK
      <3>11. handle' \in {"new", "open", "closed"} /\ (handle' = "closed" => file'.owned) /\ handle' # "new"
        BY <2>0, <3>2 DEF StoreInv, StoreTypeOK, SessionInv
      <3>12. /\ KeptIsFresh'
             /\ \A o \in Owners :
                   /\ o \notin objects' => kept'[o] = NothingKept[o]
                   /\ \A part \in DOMAIN kept'[o] : ~IsRefusal(kept'[o][part])
        BY <2>b, <3>2, <3>5, <3>6
      <3>. QED  BY <3>4, <3>8, <3>9, <3>10, <3>11, <3>12 DEF StoreInv, StoreTypeOK, SessionInv
    <2>6. CASE Iterate
      <3>1. file' = file /\ kept' = kept /\ objects' = objects /\ handle' = handle
        BY <2>6 DEF Iterate
      <3>2. iteration' \in [owner : objects, at : Nat]
        BY <2>6 DEF Iterate
      <3>. QED  BY <2>0, <3>1, <3>2 DEF StoreInv, StoreTypeOK, KeptIsFresh, SessionInv, Context
    <2>7. CASE Next
      <3> DEFINE o1 == iteration.owner
                 after == WithRecords(Context(o1), kept[o1])
      <3>1. /\ iteration # NoIteration /\ UNCHANGED <<file, handle, objects>>
            /\ kept' = [kept EXCEPT ![o1] = after]
            /\ iteration' \in {[iteration EXCEPT !.at = @ + 1], NoIteration}
        BY <2>7 DEF Next
      <3>2. o1 \in objects /\ o1 \in Owners
        BY <2>0, <3>1 DEF StoreInv, SessionInv, StoreTypeOK
      <3>3. iteration' = NoIteration \/ iteration' \in [owner : objects, at : Nat]
        BY <2>0, <3>1 DEF StoreInv, SessionInv
      <3>4. /\ DOMAIN after = DOMAIN NothingKept[o1]
            /\ after.records \in {NotYet, Records(Context(o1))}
            /\ o1 = "names" => NamesAreFresh(Context(o1), after)
            /\ \A part \in DOMAIN after : ~IsRefusal(after[part])
            /\ kept[o1].records # NotYet => after.records # NotYet
        <4>1. KeptIsFresh /\ \A part \in DOMAIN kept[o1] : ~IsRefusal(kept[o1][part])
          BY <2>0, <3>2 DEF StoreInv, StoreTypeOK
        <4>. QED  BY <3>2, <4>1, KeptBySound
      <3>5. KeptOf(o1, after, o1 \in objects)
        BY <3>2, <3>4 DEF KeptOf
      <3>6. "store" \in objects => kept["store"].records # NotYet
        BY <2>0 DEF StoreInv, StoreTypeOK
      <3> HIDE DEF after, o1
      <3>7. DOMAIN kept' = Owners /\ \A o \in Owners : KeptOf(o, kept'[o], o \in objects')
        BY <2>a, <3>1, <3>2, <3>5
      <3>8. "store" \in objects' => kept'["store"].records # NotYet
        BY <2>a, <3>1, <3>4, <3>6 DEF Owners
      <3>9. iteration'.owner \in objects' \cup {"none"}
        BY <3>1, <3>3 DEF NoIteration
      <3>. QED  BY <2>0, <2>b, <3>1, <3>3, <3>7, <3>8, <3>9 DEF StoreInv, StoreTypeOK, SessionInv
    <2>. QED  BY <2>0, <2>1, <2>2, <2>3, <2>4, <2>5, <2>6, <2>7 DEF StoreNext
  <1>. QED  BY <1>1, <1>2, PTL DEF StoreSpec

(* The type of a session, for every set of files, tags and ids asked for.  *)
THEOREM StoreTypeCorrect == StoreSpec => []StoreTypeOK
  <1>1. StoreInv => StoreTypeOK
    BY DEF StoreInv
  <1>. QED  BY <1>1, SessionInvariant, PTL

-----------------------------------------------------------------------------
(* dict(sorted(...)): records whose ids differ come out as they are, in    *)
(* ascending order.  A record's place is the number of ids up to its own,  *)
(* which takes every value from 1 to the number of records.                *)
RecordType == [id : Nat, type : STRING, raw : Nat]

LEMMA OrderedById ==
    ASSUME NEW records \in Seq(RecordType),
           \A i, j \in DOMAIN records : records[i].id = records[j].id => i = j
    PROVE  LET sorted == InIdOrder(records)
           IN /\ ToSet(sorted) = ToSet(records)
              /\ \A i \in 1..(Len(sorted) - 1) : sorted[i].id < sorted[i + 1].id
  <1> DEFINE S == ToSet(records)
             n == Len(records)
             upTo(r) == {q \in S : q.id <= r.id}
             Place(r) == Cardinality(upTo(r))
             place == [r \in S |-> Place(r)]
             sorted == InIdOrder(records)
  <1>1. n \in Nat /\ DOMAIN records = 1..n /\ IsFiniteSet(1..n) /\ Cardinality(1..n) = n
    <2>1. n \in Nat /\ DOMAIN records = 1..n
      BY LenProperties
    <2> HIDE DEF n
    <2>2. n \in Int /\ (1 > n => n = 0)
      BY <2>1
    <2>. QED  BY <2>1, <2>2, FS_Interval
  <1>2. \A i \in 1..n : records[i] \in RecordType
    BY <1>1, ElementOfSeq
  <1>3. \A r \in S : r.id \in Nat
    BY <1>1, <1>2 DEF ToSet, RecordType
  <1>4. IsFiniteSet(S) /\ Cardinality(S) = n
    <2>1. [i \in 1..n |-> records[i]] \in Bijection(1..n, S)
      BY <1>1 DEF ToSet, Bijection, Injection, Surjection, IsInjective
    <2>2. ExistsBijection(1..n, S)
      BY <2>1 DEF ExistsBijection
    <2>. QED  BY <1>1, <2>2, FS_Bijection
  <1>5. \A r, q \in S : r.id = q.id => r = q
    BY <1>1 DEF ToSet
  <1> HIDE DEF S, n
  <1>6. \A r \in S : IsFiniteSet(upTo(r)) /\ Place(r) \in Nat /\ Place(r) \in 1..n
    <2>1. SUFFICES ASSUME NEW r \in S
                   PROVE  IsFiniteSet(upTo(r)) /\ Place(r) \in Nat /\ Place(r) \in 1..n
      OBVIOUS
    <2>2. upTo(r) \in SUBSET S /\ {r} \in SUBSET upTo(r)
      BY <1>3
    <2>3. IsFiniteSet(upTo(r)) /\ Place(r) <= n
      BY <1>4, <2>2, FS_Subset
    <2>4. Cardinality({r}) = 1 /\ Cardinality({r}) <= Place(r) /\ Place(r) \in Nat
      BY <2>2, <2>3, FS_Subset, FS_Singleton, FS_CardinalityType
    <2>. QED  BY <1>1, <2>3, <2>4
  <1>7. \A r, q \in S : r.id < q.id => Place(r) < Place(q)
    <2>1. SUFFICES ASSUME NEW r \in S, NEW q \in S, r.id < q.id PROVE Place(r) < Place(q)
      OBVIOUS
    <2>2. upTo(r) \in SUBSET upTo(q) /\ q \in upTo(q) /\ q \notin upTo(r)
      BY <1>3, <2>1
    <2>3. Place(r) <= Place(q) /\ Place(r) # Place(q)
      BY <1>6, <2>2, FS_Subset
    <2>4. Place(r) \in Nat /\ Place(q) \in Nat
      BY <1>6
    <2> HIDE DEF Place
    <2>. QED  BY <2>3, <2>4
  <1> HIDE DEF Place
  <1>8. \A r, q \in S : Place(r) = Place(q) => r = q
    <2>1. SUFFICES ASSUME NEW r \in S, NEW q \in S, r # q PROVE Place(r) # Place(q)
      OBVIOUS
    <2>2. r.id < q.id \/ q.id < r.id
      BY <1>3, <1>5, <2>1
    <2>3. Place(r) < Place(q) \/ Place(q) < Place(r)
      BY <1>7, <2>2
    <2>4. Place(r) \in Nat /\ Place(q) \in Nat
      BY <1>6
    <2>. QED  BY <2>3, <2>4
  <1>9. \A k \in 1..n : \E r \in S : Place(r) = k
    <2>1. place \in Injection(S, 1..n)
      BY <1>6, <1>8 DEF Injection, IsInjective
    <2>2. place \in Surjection(S, 1..n)
      BY <1>1, <1>4, <2>1, FS_Injection
    <2>. QED  BY <2>2 DEF Surjection
  <1>10. sorted = [k \in 1..n |-> CHOOSE r \in S : Place(r) = k]
    BY <1>1 DEF InIdOrder, S, Place
  <1>11. \A k \in 1..n : sorted[k] \in S /\ Place(sorted[k]) = k
    BY <1>9, <1>10
  <1>12. DOMAIN sorted = 1..n /\ Len(sorted) = n
    BY <1>1, <1>10
  <1> HIDE DEF sorted
  <1>13. ToSet(sorted) = S
    <2>1. \A r \in S : sorted[Place(r)] = r
      BY <1>6, <1>8, <1>11
    <2>. QED  BY <1>6, <1>11, <1>12, <2>1, ZenonT(60) DEF ToSet
  <1>14. ASSUME NEW i \in 1..(n - 1) PROVE sorted[i].id < sorted[i + 1].id
    <2>1. i \in 1..n /\ i + 1 \in 1..n /\ i \in Nat
      BY <1>1
    <2>2. /\ sorted[i] \in S /\ sorted[i + 1] \in S
          /\ Place(sorted[i]) = i /\ Place(sorted[i + 1]) = i + 1
      BY <1>11, <2>1
    <2>3. sorted[i] # sorted[i + 1] /\ ~(sorted[i + 1].id < sorted[i].id)
      BY <1>7, <2>1, <2>2
    <2>. QED  BY <1>3, <1>5, <2>2, <2>3
  <1>. QED  BY <1>12, <1>13, <1>14 DEF sorted, S

-----------------------------------------------------------------------------
(* Answers.  What a new object would answer depends on the file alone, so  *)
(* an answer that agrees with it goes on agreeing until the next call.     *)
AnswerAgrees ==
    answer.call.op \notin {"none", "open", "close"} => Agrees(answer.value, Fresh(answer.call))

LEMMA FreshStays ==
    ASSUME file' = file, NEW call, answer'.call = call
    PROVE  Fresh(answer.call)' = Fresh(call)
  BY DEF Fresh, Answers, Reading, Opening, EntryRefusal, ObjectRefusal, Context, Given, Opened

LEMMA AgreesNext ==
    ASSUME file' = file, NEW call, NEW value,
           answer' = [call |-> call, value |-> value],
           \/ value = Fresh(call)[TRUE]
           \/ handle' = "closed" /\ Fresh(call)[FALSE] = Raised /\ value = Raised
    PROVE  AnswerAgrees'
  <1>1. answer'.call = call /\ answer'.value = value
    OBVIOUS
  <1>2. Fresh(answer.call)' = Fresh(call)
    BY <1>1, FreshStays
  <1>. QED  BY <1>1, <1>2 DEF AnswerAgrees, Agrees, Raised

LEMMA CallAgrees ==
    ASSUME StoreInv, objects # {}, file' = file, handle' = handle,
           NEW call, call.owner \in Owners, call.op \in NamesOps => call.owner = "names",
           answer' = [call |-> call, value |-> Answers(call, kept, IsOpen)]
    PROVE  AnswerAgrees'
  <1>1. KeptIsFresh /\ handle \in {"open", "closed"}
    BY DEF StoreInv, StoreTypeOK, SessionInv
  <1>2. /\ Answers(call, kept, TRUE) = Answers(call, NothingKept, TRUE)
        /\ Settled(Answers(call, kept, FALSE), Answers(call, NothingKept, TRUE),
                   Answers(call, NothingKept, FALSE))
    BY <1>1, AnswersSettled
  <1>3. /\ Fresh(call)[TRUE] = Answers(call, NothingKept, TRUE)
        /\ Fresh(call)[FALSE] = Answers(call, NothingKept, FALSE)
    BY DEF Fresh
  <1>4. CASE handle = "open"
    <2>1. IsOpen = TRUE
      BY <1>4 DEF IsOpen
    <2>2. Answers(call, kept, IsOpen) = Fresh(call)[TRUE]
      BY <1>2, <1>3, <2>1
    <2>. QED  BY <2>2, AgreesNext
  <1>5. CASE handle = "closed"
    <2>1. IsOpen = FALSE
      BY <1>5 DEF IsOpen
    <2>2. Settled(Answers(call, kept, IsOpen), Fresh(call)[TRUE], Fresh(call)[FALSE])
      BY <1>2, <1>3, <2>1
    <2>. QED  BY <1>5, <2>2, AgreesNext DEF Settled
  <1>. QED  BY <1>1, <1>4, <1>5

LEMMA KeptInOrder ==
    ASSUME StoreInv, NEW o \in objects, kept[o].records # NotYet
    PROVE  LET records == kept[o].records.records
           IN /\ ToSet(records) = ToSet(Context(o).records)
              /\ \A i \in 1..(Len(records) - 1) : records[i].id < records[i + 1].id
  <1> DEFINE ctx == Context(o)
  <1>1. o \in Owners /\ IsContext(ctx)
    BY FilesAssumption DEF StoreInv, StoreTypeOK, KeptIsFresh, Context
  <1>2. kept[o].records = Records(ctx) /\ ~IsRefusal(Records(ctx))
    <2>1. "records" \in DOMAIN kept[o] /\ kept[o].records \in {NotYet, Records(ctx)}
      BY <1>1, NothingKeptParts DEF StoreInv, KeptIsFresh
    <2>. QED  BY <1>1, <2>1 DEF StoreInv, StoreTypeOK
  <1>3. /\ kept[o].records.records = InIdOrder(ctx.records)
        /\ \A i \in DOMAIN ctx.records : RecordRefusal(ctx, i) = NoError
    BY <1>1, <1>2, RecordsRead
  <1>4. ctx.records \in Seq(RecordType)
    BY <1>1 DEF IsContext, RecordType
  <1>5. \A i, j \in DOMAIN ctx.records : ctx.records[i].id = ctx.records[j].id => i = j
    <2>1. DOMAIN ctx.records = 1..Len(ctx.records) /\ Len(ctx.records) \in Nat
      BY <1>4, LenProperties
    <2>2. \A i \in DOMAIN ctx.records : \A j \in 1..(i - 1) :
             ctx.records[j].id # ctx.records[i].id
      BY <1>3 DEF RecordRefusal, NoError
    <2>3. \A i, j \in DOMAIN ctx.records : i # j => j \in 1..(i - 1) \/ i \in 1..(j - 1)
      BY <2>1
    <2>. QED  BY <2>2, <2>3
  <1> HIDE DEF ctx
  <1>. QED  BY <1>3, <1>4, <1>5, OrderedById DEF ctx

(* What a call answers does not depend on what was asked before, on what   *)
(* refused or is kept, or on which object asks, for every file and every   *)
(* order of calls; and records kept are the node's own, in ascending order.*)
THEOREM AnswersFresh == StoreSpec => []AnswersAreFiles
  <1>1. StoreInit => AnswerAgrees
    BY DEF StoreInit, AnswerAgrees, Ask
  <1>2. StoreInv /\ AnswerAgrees /\ [StoreNext]_storevars => AnswerAgrees'
    <2>0. SUFFICES ASSUME StoreInv, AnswerAgrees, [StoreNext]_storevars PROVE AnswerAgrees'
      OBVIOUS
    <2>1. CASE file' = file /\ handle' = handle /\ answer' = answer
      <3>1. PICK call : call = answer.call
        OBVIOUS
      <3>2. Fresh(answer.call)' = Fresh(call)
        BY <2>1, <3>1, FreshStays
      <3>. QED  BY <2>0, <2>1, <3>1, <3>2 DEF AnswerAgrees, Agrees
    <2>2. CASE OpenStore \/ Close
      <3>1. answer'.call.op \in {"open", "close"}
        BY <2>2 DEF OpenStore, Close, Ask
      <3>. QED  BY <3>1 DEF AnswerAgrees
    <2>3. CASE Read
      <3>1. PICK call \in ReadCalls :
               answer' = [call |-> call, value |-> Answers(call, kept, IsOpen)]
        BY <2>3 DEF Read
      <3>2. file' = file /\ handle' = handle
        BY <2>3 DEF Read
      <3>3. /\ call.owner \in objects /\ call.owner \in Owners
            /\ call.op \in NamesOps => call.owner = "names"
        BY <2>0, CallShapes DEF StoreInv, StoreTypeOK
      <3>. QED  BY <2>0, <3>1, <3>2, <3>3, CallAgrees
    <2>4. CASE OpenObject
      <3>1. PICK call \in OpenCalls :
               answer' = [call |-> call, value |-> Opening(call, kept, IsOpen)]
        BY <2>4 DEF OpenObject
      <3>2. file' = file /\ handle' = handle /\ "store" \in objects
        BY <2>4 DEF OpenObject
      <3>3. call.owner \in Owners /\ call.op \notin OnContextOps \cup NamesOps
        BY CallShapes DEF Owners
      <3>4. Answers(call, kept, IsOpen) = Opening(call, kept, IsOpen)
        BY <3>3 DEF Answers
      <3>. QED  BY <2>0, <3>1, <3>2, <3>3, <3>4, CallAgrees
    <2>5. CASE Next
      <3>1. PICK call : call = [op |-> "next", owner |-> iteration.owner, at |-> iteration.at]
        OBVIOUS
      <3>2. /\ iteration # NoIteration /\ file' = file /\ handle' = handle
            /\ answer' = [call |-> call, value |-> Reading(call, kept, IsOpen)]
        BY <2>5, <3>1 DEF Next
      <3>3. call.owner \in objects /\ call.owner \in Owners
        BY <2>0, <3>1, <3>2 DEF StoreInv, StoreTypeOK, SessionInv
      <3>4. call.op \in OnContextOps /\ call.op \notin NamesOps
        BY <3>1 DEF OnContextOps, NamesOps
      <3>5. Answers(call, kept, IsOpen) = Reading(call, kept, IsOpen)
        BY <3>4 DEF Answers
      <3>. QED  BY <2>0, <3>2, <3>3, <3>4, <3>5, CallAgrees
    <2>6. CASE Iterate
      BY <2>1, <2>6 DEF Iterate
    <2>7. CASE UNCHANGED storevars
      BY <2>1, <2>7 DEF storevars
    <2>. QED  BY <2>0, <2>2, <2>3, <2>4, <2>5, <2>6, <2>7 DEF StoreNext
  <1>3. StoreInv /\ AnswerAgrees => AnswersAreFiles
    BY KeptInOrder DEF AnswersAreFiles, AnswerAgrees
  <1>. QED  BY <1>1, <1>2, <1>3, SessionInvariant, PTL DEF StoreSpec

-----------------------------------------------------------------------------
(* The two indexes over the entries.  An index is built when the entries   *)
(* are not refused and, for names, when none of their meanings is.         *)
LEMMA NamesIndexed ==
    ASSUME NEW ctx, NEW named, ~IsRefusal(Resolve(ctx, KeptByNames, named, TRUE))
    PROVE  LET entries == Entries(ctx, KeptByNames, TRUE)
               At(i) == Meaning(ctx, KeptByNames, entries.items[i], TRUE)
               found == {i \in DOMAIN entries.items : At(i) = named}
           IN /\ ~IsRefusal(entries) /\ DOMAIN entries.items \in SUBSET Nat
              /\ Resolve(ctx, KeptByNames, named, TRUE)
                    = IF found = {} THEN None
                      ELSE [kind |-> "int", int |-> entries.items[Min(found)].prop_id]
  <1> DEFINE entries == Entries(ctx, KeptByNames, TRUE)
             D == DOMAIN entries.items
             At(i) == Meaning(ctx, KeptByNames, entries.items[i], TRUE)
             all == [i \in D |-> At(i)]
             found == {i \in D : At(i) = named}
             meanings == Meanings(ctx, KeptByNames, entries, TRUE)
             byName == [kind |-> "index",
                        of |-> [n \in ToSet(meanings.items) |->
                                   entries.items[EntryOf(meanings.items, n)].prop_id]]
  <1>1. ~IsRefusal(ByName(ctx, KeptByNames, TRUE))
    BY DEF Resolve, Given
  <1>2. ByName(ctx, KeptByNames, TRUE) = Followed(entries, Followed(meanings, byName))
    BY DEF ByName, KeptByNames, Given, Followed
  <1>3. ~IsRefusal(entries) /\ ~IsRefusal(meanings) /\ ByName(ctx, KeptByNames, TRUE) = byName
    BY <1>1, <1>2 DEF Followed
  <1>4. D \in SUBSET Nat
    <2>1. entries = EntriesIn(Stream(ctx, KeptByNames, EntryStream, TRUE))
      BY DEF Entries, KeptByNames, EntriesIn
    <2>. QED  BY <1>3, <2>1, EntriesAreNumbered
  <1>5. meanings.items = all
    <2>1. meanings = Tuple(all)
      BY DEF Meanings
    <2>2. DOMAIN all \in SUBSET Nat
      BY <1>4
    <2> HIDE DEF all, meanings
    <2>3. ~IsRefusal(Tuple(all))
      BY <1>3, <2>1
    <2>4. Tuple(all) = [kind |-> "tuple", items |-> all]
      BY <2>2, <2>3, TupleFirst
    <2>. QED  BY <2>1, <2>4
  <1>6. Resolve(ctx, KeptByNames, named, TRUE)
          = IF named \notin DOMAIN byName.of THEN None
            ELSE [kind |-> "int", int |-> byName.of[named]]
    BY <1>1, <1>3 DEF Resolve, Given
  <1>7. DOMAIN byName.of = ToSet(all)
    BY <1>5
  <1>8. named \in ToSet(all) <=> found # {}
    BY DEF ToSet
  <1>9. named \in ToSet(all) => byName.of[named] = entries.items[Min(found)].prop_id
    <2>1. {i \in DOMAIN all : all[i] = named} = found
      OBVIOUS
    <2>2. EntryOf(all, named) = Min(found)
      BY <2>1 DEF EntryOf
    <2>. QED  BY <1>5, <2>2
  <1> HIDE DEF byName, all, found
  <1>10. Resolve(ctx, KeptByNames, named, TRUE)
           = IF found = {} THEN None
             ELSE [kind |-> "int", int |-> entries.items[Min(found)].prop_id]
    BY <1>6, <1>7, <1>8, <1>9
  <1>. QED  BY <1>3, <1>4, <1>10 DEF found

LEMMA IdsIndexed ==
    ASSUME NEW ctx, NEW id
    PROVE  LET entries == Entries(ctx, KeptByNames, TRUE)
               At(i) == Meaning(ctx, KeptByNames, entries.items[i], TRUE)
               value == Lookup(ctx, KeptByNames, id, TRUE)
           IN ~IsRefusal(entries) /\ DOMAIN entries.items \in SUBSET Nat =>
              \/ value = BadFormat
              \/ /\ value = None
                 /\ \A i \in DOMAIN entries.items : entries.items[i].prop_id # id
              \/ \E i \in DOMAIN entries.items :
                   /\ entries.items[i].prop_id = id /\ value = At(i)
                   /\ \A j \in DOMAIN entries.items : entries.items[j].prop_id = id => j = i
  <1> DEFINE entries == Entries(ctx, KeptByNames, TRUE)
             D == DOMAIN entries.items
             IdOf(i) == entries.items[i].prop_id
             At(i) == Meaning(ctx, KeptByNames, entries.items[i], TRUE)
             value == Lookup(ctx, KeptByNames, id, TRUE)
             twice == \E i, j \in D : i < j /\ IdOf(i) = IdOf(j)
             Entry(n) == CHOOSE e \in ToSet(entries.items) : e.prop_id = n
             byId == [n \in {e.prop_id : e \in ToSet(entries.items)} |-> Entry(n)]
  <1>1. SUFFICES ASSUME ~IsRefusal(entries), D \in SUBSET Nat
                 PROVE  \/ value = BadFormat
                        \/ value = None /\ \A i \in D : IdOf(i) # id
                        \/ \E i \in D : /\ IdOf(i) = id /\ value = At(i)
                                       /\ \A j \in D : IdOf(j) = id => j = i
    OBVIOUS
  <1>2. IsRefusal(BadFormat) /\ ~IsRefusal([kind |-> "index", of |-> byId])
    BY DEF BadFormat, Refused, IsRefusal, Refusals
  <1>3. ByPropId(ctx, KeptByNames, TRUE) = IF twice THEN BadFormat ELSE [kind |-> "index", of |-> byId]
    BY <1>1 DEF ByPropId, KeptByNames, Given
  <1>4. CASE twice
    BY <1>2, <1>3, <1>4 DEF Lookup, Given
  <1>5. ~twice => value = IF id \notin DOMAIN byId THEN None
                          ELSE Meaning(ctx, KeptByNames, byId[id], TRUE)
    <2> DEFINE index == ByPropId(ctx, KeptByNames, TRUE)
    <2>1. ~twice => ~IsRefusal(index) /\ index.of = byId
      <3> HIDE DEF byId, twice
      <3>1. ~twice => index = [kind |-> "index", of |-> byId]
        BY <1>3
      <3> HIDE DEF index
      <3>. QED  BY <1>2, <3>1
    <2>2. value = Followed(index, IF id \notin DOMAIN index.of THEN None
                                  ELSE Meaning(ctx, KeptByNames, index.of[id], TRUE))
      BY DEF Lookup, Given, Followed
    <2> HIDE DEF index, byId, twice, value
    <2>. QED  BY <2>1, <2>2 DEF Followed
  <1>6. CASE ~twice /\ \A i \in D : IdOf(i) # id
    <2>1. id \notin DOMAIN byId
      BY <1>6 DEF ToSet
    <2>2. value = None
      BY <1>6, <1>5, <2>1
    <2>. QED  BY <1>6, <2>2
  <1>7. ASSUME ~twice, NEW i \in D, IdOf(i) = id
        PROVE  value = At(i) /\ \A j \in D : IdOf(j) = id => j = i
    <2>1. \A j \in D : IdOf(j) = id => j = i
      <3>1. \A j \in D : j # i => i < j \/ j < i
        <4> HIDE DEF entries
        <4>1. \A j \in D : j \in Nat
          BY <1>1
        <4>. QED  BY <1>7, <4>1
      <3>. QED  BY <1>7, <3>1
    <2>2. entries.items[i] \in ToSet(entries.items)
      BY DEF ToSet
    <2>3. id \in DOMAIN byId /\ byId[id] = Entry(id)
      BY <1>7, <2>2
    <2>4. Entry(id) \in ToSet(entries.items) /\ Entry(id).prop_id = id
      BY <1>7, <2>2
    <2>5. Entry(id) = entries.items[i]
      <3> HIDE DEF Entry
      <3>. QED  BY <2>1, <2>4 DEF ToSet
    <2> HIDE DEF twice, Entry, byId
    <2>6. value = Meaning(ctx, KeptByNames, entries.items[i], TRUE)
      BY <1>7, <1>5, <2>3, <2>5
    <2>. QED  BY <2>1, <2>6
  <1>. QED  BY <1>4, <1>6, <1>7

(* Only the map is asked about names.                                      *)
NamesAsked == answer.call.op \in NamesOps => answer.call.owner = "names"

(* What resolve finds a name under means that name to lookup, unless two   *)
(* names have that id, and a name lookup knows is found under its first    *)
(* entry: for every file, bound and order of calls.                        *)
THEOREM NamesAgreeAlways == StoreSpec => []NamesAgree
  <1>1. StoreInit => NamesAsked
    BY DEF StoreInit, NamesAsked, Ask, NamesOps
  <1>2. StoreInv /\ NamesAsked /\ [StoreNext]_storevars => NamesAsked'
    <2>0. SUFFICES ASSUME NamesAsked, [StoreNext]_storevars PROVE NamesAsked'
      OBVIOUS
    <2>1. CASE OpenStore \/ Close
      BY <2>1 DEF OpenStore, Close, Ask, NamesAsked, NamesOps
    <2>2. CASE Read
      BY <2>2, CallShapes DEF Read, NamesAsked
    <2>3. CASE OpenObject
      BY <2>3, CallShapes DEF OpenObject, NamesAsked
    <2>4. CASE Next
      BY <2>4 DEF Next, NamesAsked, NamesOps
    <2>5. CASE Iterate \/ UNCHANGED storevars
      BY <2>0, <2>5 DEF Iterate, storevars, NamesAsked
    <2>. QED  BY <2>0, <2>1, <2>2, <2>3, <2>4, <2>5 DEF StoreNext
  <1>3. AnswersAreFiles /\ NamesAsked => NamesAgree
    <2> SUFFICES ASSUME AnswersAreFiles, NamesAsked PROVE NamesAgree
      OBVIOUS
    <2> DEFINE names == Context("names")
               call == answer.call
               value == answer.value
               entries == Entries(names, KeptByNames, TRUE)
               At(i) == Meaning(names, KeptByNames, entries.items[i], TRUE)
               Found(n) == {i \in DOMAIN entries.items : At(i) = n}
    <2>1. /\ ~IsRefusal(None) /\ Raised # None
          /\ \A n : [kind |-> "int", int |-> n] # None
          /\ value.kind \in {"int", "named"} =>
                ~IsRefusal(value) /\ value # None /\ value # Raised /\ value # BadFormat
      BY DEF None, Raised, BadFormat, Refused, IsRefusal, Refusals
    <2>2. ASSUME call.op \in NamesOps
          PROVE  value \in {NamesAnswer(names, KeptByNames, call, TRUE), Raised}
      <3>1. value \in {Fresh(call)[TRUE], Raised}
        BY <2>2 DEF AnswersAreFiles, Agrees, NamesOps, Raised
      <3>2. call.op \notin OnContextOps /\ call.owner = "names"
        BY <2>2 DEF NamesAsked, NamesOps, OnContextOps
      <3>3. Fresh(call)[TRUE] = NamesAnswer(names, KeptByNames, call, TRUE)
        BY <2>2, <3>2, NothingKeptParts DEF Fresh, Answers
      <3>. QED  BY <3>1, <3>3
    <2>3. call.op = "resolve" => value \in {Resolve(names, KeptByNames, call.named, TRUE), Raised}
      BY <2>2 DEF NamesOps, NamesAnswer
    <2>4. call.op = "lookup" => value \in {Lookup(names, KeptByNames, call.id, TRUE), Raised}
      BY <2>2 DEF NamesOps, NamesAnswer
    <2>5. ASSUME NEW n, ~IsRefusal(Resolve(names, KeptByNames, n, TRUE))
          PROVE  /\ ~IsRefusal(entries) /\ DOMAIN entries.items \in SUBSET Nat
                 /\ Resolve(names, KeptByNames, n, TRUE)
                       = IF Found(n) = {} THEN None
                         ELSE [kind |-> "int", int |-> entries.items[Min(Found(n))].prop_id]
      BY <2>5, NamesIndexed
    <2>6. FreshEntries = entries
      BY DEF FreshEntries
    <2>10. ASSUME NEW id
           PROVE  \/ Lookup(names, KeptByNames, id, TRUE) = BadFormat
                  \/ /\ Lookup(names, KeptByNames, id, TRUE) = None
                     /\ \A i \in DOMAIN entries.items : entries.items[i].prop_id # id
                  \/ \E i \in DOMAIN entries.items :
                       /\ entries.items[i].prop_id = id
                       /\ Lookup(names, KeptByNames, id, TRUE) = At(i)
                       /\ \A j \in DOMAIN entries.items : entries.items[j].prop_id = id => j = i
                  \/ IsRefusal(entries) \/ DOMAIN entries.items \notin SUBSET Nat
      <3> HIDE DEF names, call, value
      <3>. QED  BY IdsIndexed, Zenon
    <2> HIDE DEF names, call, value, entries, At
    <2>7. ASSUME call.op = "resolve", value.kind = "int"
          PROVE  /\ Lookup(names, KeptByNames, value.int, TRUE) \in {call.named, BadFormat}
                 /\ \E i \in DOMAIN entries.items :
                      /\ At(i) = call.named
                      /\ entries.items[i].prop_id = value.int
                      /\ \A j \in DOMAIN entries.items : j < i => At(j) # call.named
      <3>1. value = Resolve(names, KeptByNames, call.named, TRUE) /\ ~IsRefusal(value) /\ value # None
        BY <2>1, <2>3, <2>7
      <3> DEFINE found == Found(call.named)
                 first == Min(found)
      <3>2. /\ ~IsRefusal(entries) /\ DOMAIN entries.items \in SUBSET Nat
            /\ found # {} /\ value = [kind |-> "int", int |-> entries.items[first].prop_id]
        BY <2>5, <3>1
      <3>3. found \in SUBSET Nat
        BY <3>2
      <3>4. first \in found /\ \A j \in found : first <= j
        <4> HIDE DEF found
        <4>. QED  BY <3>2, <3>3, MinProperties
      <3>5. first \in DOMAIN entries.items /\ At(first) = call.named
        BY <3>4
      <3>6. \A j \in DOMAIN entries.items : j < first => At(j) # call.named
        <4>1. \A j \in DOMAIN entries.items : At(j) = call.named => first <= j
          BY <3>4
        <4>2. \A j \in DOMAIN entries.items : j \in Nat /\ first \in Nat
          BY <3>2, <3>3, <3>4
        <4> HIDE DEF first, entries, At
        <4>. QED  BY <4>1, <4>2
      <3>7. value.int = entries.items[first].prop_id
        BY <3>2
      <3> HIDE DEF first
      <3>8. Lookup(names, KeptByNames, value.int, TRUE) \in {At(first), BadFormat}
        BY <3>2, <3>5, <3>7, <2>10
      <3>. QED  BY <3>5, <3>6, <3>7, <3>8
    <2>8. ASSUME call.op = "resolve", value = None
          PROVE  \A e \in HeldEntries : Meaning(names, KeptByNames, e, TRUE) # call.named
      <3>1. Resolve(names, KeptByNames, call.named, TRUE) = None
        BY <2>1, <2>3, <2>8
      <3>2. ~IsRefusal(entries) /\ Found(call.named) = {}
        <4>1. ~IsRefusal(Resolve(names, KeptByNames, call.named, TRUE))
          BY <2>1, <3>1
        <4>. QED  BY <2>1, <2>5, <3>1, <4>1
      <3>. QED  BY <2>6, <3>2 DEF HeldEntries, ItemsOf, ToSet, At
    <2>9. ASSUME call.op = "lookup", value.kind = "named"
          PROVE  Resolve(names, KeptByNames, value, TRUE) # None
      <3>1. value = Lookup(names, KeptByNames, call.id, TRUE) /\ value # None /\ value # BadFormat
        BY <2>1, <2>4, <2>9
      <3>2. SUFFICES ASSUME Resolve(names, KeptByNames, value, TRUE) = None PROVE FALSE
        OBVIOUS
      <3>3. ~IsRefusal(entries) /\ DOMAIN entries.items \in SUBSET Nat /\ Found(value) = {}
        <4>1. ~IsRefusal(Resolve(names, KeptByNames, value, TRUE))
          BY <2>1, <3>2
        <4>. QED  BY <2>1, <2>5, <3>2, <4>1
      <3>4. \E i \in DOMAIN entries.items : value = At(i)
        BY <3>1, <3>3, <2>10
      <3>. QED  BY <3>3, <3>4
    <2>. QED  BY <2>6, <2>7, <2>8, <2>9 DEF NamesAgree, names, call, value, entries, At
  <1>. QED  BY <1>1, <1>2, <1>3, SessionInvariant, AnswersFresh, PTL DEF StoreSpec


-----------------------------------------------------------------------------
(* What a writer encodes is read back: the codec of property values, type  *)
(* by type, and then the reads of the store.                               *)

(* A recursion over all natural numbers: each one up to m is a beginning.  *)
LEMMA RecursionOnNat ==
    ASSUME NEW S, NEW base \in S, NEW step \in [Nat -> [S -> S]]
    PROVE  \E f \in [Nat -> S] : f = [n \in Nat |-> IF n = 0 THEN base ELSE step[n][f[n - 1]]]
  <1> DEFINE Upto(m) == CHOOSE f \in [0..m -> S] : IsRecursion(f, base, step, m)
             f == [n \in Nat |-> Upto(n)[n]]
  <1>1. ASSUME NEW m \in Nat
        PROVE  /\ Upto(m) \in [0..m -> S]
               /\ \A i \in 0..m : Upto(m)[i] = IF i = 0 THEN base ELSE step[i][Upto(m)[i - 1]]
    <2>1. \E g \in [0..m -> S] : IsRecursion(g, base, step, m)
      BY RecursionExists
    <2>2. Upto(m) \in [0..m -> S] /\ IsRecursion(Upto(m), base, step, m)
      BY <2>1
    <2> HIDE DEF Upto
    <2>3. PICK g : g = Upto(m)
      OBVIOUS
    <2>4. g = [i \in 0..m |-> IF i = 0 THEN base ELSE step[i][g[i - 1]]]
      BY <2>2, <2>3 DEF IsRecursion
    <2>5. \A i \in 0..m : g[i] = IF i = 0 THEN base ELSE step[i][g[i - 1]]
      BY <2>4
    <2>. QED  BY <2>2, <2>3, <2>5
  <1> HIDE DEF Upto
  <1>2. ASSUME NEW m \in Nat, NEW k \in Nat, m <= k PROVE Upto(m)[m] = Upto(k)[m]
    <2> DEFINE Good == {i \in Nat : i <= m => Upto(m)[i] = Upto(k)[i]}
    <2>1. 0 \in Good
      BY <1>1
    <2>2. ASSUME NEW i \in Nat, i \in Good PROVE i + 1 \in Good
      <3> SUFFICES ASSUME i + 1 <= m PROVE Upto(m)[i + 1] = Upto(k)[i + 1]
        OBVIOUS
      <3>1. i + 1 \in 0..m /\ i + 1 \in 0..k /\ i + 1 # 0 /\ (i + 1) - 1 = i /\ i <= m
        BY <1>2
      <3>2. Upto(m)[i + 1] = step[i + 1][Upto(m)[i]] /\ Upto(k)[i + 1] = step[i + 1][Upto(k)[i]]
        BY <1>1, <3>1
      <3>. QED  BY <2>2, <3>1, <3>2
    <2> HIDE DEF Good
    <2>3. \A i \in Nat : i \in Good
      BY <2>1, <2>2, NatInduct
    <2>. QED  BY <2>3 DEF Good
  <1>3. f \in [Nat -> S]
    <2>1. \A n \in Nat : n \in 0..n
      OBVIOUS
    <2>. QED  BY <1>1, <2>1
  <1>4. ASSUME NEW n \in Nat PROVE f[n] = IF n = 0 THEN base ELSE step[n][f[n - 1]]
    <2>1. CASE n = 0
      BY <1>1, <2>1
    <2>2. CASE n # 0
      <3>1. n - 1 \in Nat /\ n - 1 <= n /\ n \in 0..n
        BY <2>2
      <3>2. f[n] = step[n][Upto(n)[n - 1]]
        BY <1>1, <2>2, <3>1
      <3>3. f[n - 1] = Upto(n)[n - 1]
        BY <1>2, <3>1
      <3>. QED  BY <2>2, <3>2, <3>3
    <2>. QED  BY <2>1, <2>2
  <1> HIDE DEF f
  <1>5. f = [n \in Nat |-> IF n = 0 THEN base ELSE step[n][f[n - 1]]]
    <2>1. f = [n \in Nat |-> f[n]]
      BY <1>3
    <2>. QED  BY <1>4, <2>1
  <1>. QED  BY <1>3, <1>5

(* Numbers of so many bytes.                                               *)
LEMMA NumbersAre ==
    /\ Numbers[0] = 1
    /\ \A n \in Nat : Numbers[n] \in Nat \ {0} /\ Numbers[n + 1] = ByteBase * Numbers[n]
  <1> DEFINE times == [n \in Nat |-> [x \in Nat \ {0} |-> ByteBase * x]]
             IsNumbers(f) == f = [size \in Nat |-> IF size = 0 THEN 1 ELSE ByteBase * f[size - 1]]
  <1>0. ByteBase \in Nat \ {0, 1}
    BY ByteAssumption
  <1>1. PICK S : S = Nat \ {0}
    OBVIOUS
  <1>2. PICK base \in S, step \in [Nat -> [S -> S]] : base = 1 /\ step = times
    <2>1. \A x \in S : ByteBase * x \in S
      BY <1>0, <1>1
    <2>2. times \in [Nat -> [S -> S]] /\ 1 \in S
      BY <1>1, <2>1
    <2>. QED  BY <2>2
  <1>3. PICK f \in [Nat -> S] : f = [n \in Nat |-> IF n = 0 THEN base ELSE step[n][f[n - 1]]]
    BY RecursionOnNat
  <1>4. \A n \in Nat : f[n] = IF n = 0 THEN base ELSE step[n][f[n - 1]]
    BY <1>3
  <1>5. ASSUME NEW n \in Nat PROVE f[n] = IF n = 0 THEN 1 ELSE ByteBase * f[n - 1]
    <2>1. CASE n = 0
      BY <1>2, <1>4, <2>1
    <2>2. CASE n # 0
      <3>1. n - 1 \in Nat
        BY <2>2
      <3>2. f[n - 1] \in S /\ f[n] = step[n][f[n - 1]]
        BY <1>4, <2>2, <3>1
      <3>. QED  BY <1>1, <1>2, <2>2, <3>2
    <2>. QED  BY <2>1, <2>2
  <1>6. f = [n \in Nat |-> f[n]]
    OBVIOUS
  <1>7. IsNumbers(f)
    BY <1>5, <1>6
  <1>8. IsNumbers(Numbers)
    <2> DEFINE picked == CHOOSE g : IsNumbers(g)
    <2>1. IsNumbers(picked)
      BY <1>7
    <2>2. Numbers = picked
      BY DEF Numbers
    <2> HIDE DEF picked
    <2>. QED  BY <2>1, <2>2
  <1>9. PICK g : g = Numbers
    OBVIOUS
  <1>10. \A n \in Nat : g[n] = IF n = 0 THEN 1 ELSE ByteBase * g[n - 1]
    <2>1. g = [size \in Nat |-> IF size = 0 THEN 1 ELSE ByteBase * g[size - 1]]
      BY <1>8, <1>9
    <2>. QED  BY <2>1
  <1>11. ASSUME NEW n \in Nat PROVE g[n + 1] = ByteBase * g[n]
    BY <1>10
  <1>12. \A n \in Nat : g[n] \in Nat \ {0}
    <2> DEFINE Good == {n \in Nat : g[n] \in Nat \ {0}}
    <2>1. 0 \in Good
      BY <1>10
    <2>2. ASSUME NEW n \in Nat, n \in Good PROVE n + 1 \in Good
      <3>1. PICK x \in Nat \ {0} : x = g[n]
        BY <2>2
      <3>2. ByteBase * x \in Nat \ {0}
        BY <1>0
      <3>. QED  BY <1>11, <3>1, <3>2
    <2> HIDE DEF Good
    <2>3. \A n \in Nat : n \in Good
      BY <2>1, <2>2, NatInduct
    <2>. QED  BY <2>3 DEF Good
  <1>. QED  BY <1>9, <1>10, <1>11, <1>12

(* Division.  *)
LEMMA Division ==
    ASSUME NEW n \in Int, NEW m \in Nat \ {0}
    PROVE  /\ n % m \in Nat /\ n % m < m /\ n \div m \in Int /\ n = (n \div m) * m + (n % m)
  <1>1. n % m \in Nat
    OBVIOUS
  <1>2. n % m < m
    OBVIOUS
  <1>3. n \div m \in Int
    OBVIOUS
  <1>4. n = (n \div m) * m + (n % m)
    OBVIOUS
  <1>. QED  BY <1>1, <1>2, <1>3, <1>4

LEMMA AtLeast ==
    ASSUME NEW m \in Nat, NEW k \in Nat, k >= 1
    PROVE k * m >= m /\ k * m \in Nat
  <1>1. PICK j \in Nat : k = j + 1
    <2>1. k - 1 \in Nat /\ k = (k - 1) + 1
      OBVIOUS
    <2>. QED BY <2>1
  <1>2. k * m = j * m + m
    BY <1>1
  <1>3. j * m \in Nat
    OBVIOUS
  <1>. QED  BY <1>2, <1>3

(* Division, by the quotient and the remainder there is.                   *)
LEMMA Divided ==
    ASSUME NEW m \in Nat \ {0}, NEW q \in Int, NEW r \in Nat, r < m
    PROVE  (q * m + r) % m = r /\ (q * m + r) \div m = q
  <1>1. PICK n \in Int : n = q * m + r
    OBVIOUS
  <1>2. /\ n % m \in Nat /\ n % m < m /\ n \div m \in Int /\ n = (n \div m) * m + (n % m)
    BY Division
  <1>3. PICK d \in Int, e \in Nat : d = n \div m /\ e = n % m /\ e < m /\ n = d * m + e
    BY <1>2
  <1>4. d = q
    <2>1. CASE d >= q + 1
      <3>1. PICK k \in Nat : d = q + k /\ k >= 1
        <4>1. d - q \in Nat /\ d = q + (d - q) /\ d - q >= 1
          BY <2>1
        <4>. QED BY <4>1
      <3>2. d * m = q * m + k * m
        BY <3>1
      <3>3. k * m >= m
        BY <3>1, AtLeast
      <3>. QED  BY <1>1, <1>3, <3>2, <3>3
    <2>2. CASE q >= d + 1
      <3>1. PICK k \in Nat : q = d + k /\ k >= 1
        <4>1. q - d \in Nat /\ q = d + (q - d) /\ q - d >= 1
          BY <2>2
        <4>. QED BY <4>1
      <3>2. q * m = d * m + k * m
        BY <3>1
      <3>3. k * m >= m
        BY <3>1, AtLeast
      <3>. QED  BY <1>1, <1>3, <3>2, <3>3
    <2>. QED  BY <2>1, <2>2
  <1>5. e = r
    BY <1>1, <1>3, <1>4
  <1>. QED  BY <1>1, <1>3, <1>4, <1>5

LEMMA DivisionOfNat ==
    ASSUME NEW n \in Nat, NEW m \in Nat \ {0}
    PROVE  n \div m \in Nat
  OBVIOUS

(* The remainder by a product, a digit at a time.                          *)
LEMMA OneMoreDigit ==
    ASSUME NEW n \in Nat, NEW m \in Nat \ {0}, NEW b \in Nat \ {0}
    PROVE  /\ n % (b * m) = (n % m) + ((n \div m) % b) * m
           /\ n \div m \in Nat /\ (n \div m) % b \in 0..(b - 1) /\ n % m \in 0..(m - 1)
  <1>1. PICK q \in Nat, r \in Nat : q = n \div m /\ r = n % m /\ r < m /\ n = q * m + r
    BY Division, DivisionOfNat
  <1>2. PICK p \in Nat, s \in Nat : p = q \div b /\ s = q % b /\ s < b /\ q = p * b + s
    BY Division, DivisionOfNat
  <1>3. PICK w \in Nat : w = b * m /\ w # 0
    OBVIOUS
  <1>4. n = p * w + (s * m + r)
    <2>1. q * m = (p * b) * m + s * m
      BY <1>2
    <2>2. (p * b) * m = p * w
      BY <1>3
    <2>. QED  BY <1>1, <2>1, <2>2
  <1>5. PICK e \in Nat : e = s * m + r /\ e < w
    <2>1. PICK t \in Nat : b = s + 1 + t
      <3>1. b - (s + 1) \in Nat /\ b = s + 1 + (b - (s + 1))
        BY <1>2
      <3>. QED  BY <3>1
    <2>2. b * m = s * m + m + t * m
      BY <2>1
    <2>3. t * m \in Nat /\ s * m \in Nat
      OBVIOUS
    <2>. QED  BY <1>1, <1>3, <2>2, <2>3
  <1>6. n % w = e
    <2>1. (p * w + e) % w = e
      <3>1. p \in Int /\ w \in Nat \ {0} /\ e \in Nat /\ e < w
        BY <1>3, <1>5
      <3>. QED  BY <3>1, Divided, Zenon
    <2>. QED  BY <1>4, <1>5, <2>1
  <1>. QED  BY <1>1, <1>2, <1>3, <1>5, <1>6

-----------------------------------------------------------------------------
(* Bytes and the number they are.                                          *)
LEMMA BytesAre ==
    /\ ByteBase \in Nat \ {0} /\ 0 \in Byte /\ 1 \in Byte
    /\ \A b : b \in Byte <=> b \in Nat /\ b < ByteBase
  BY ByteAssumption DEF Byte

LEMMA AppendIs ==
    ASSUME NEW T, NEW s \in Seq(T), NEW x \in T
    PROVE  /\ Append(s, x) \in Seq(T) /\ Len(Append(s, x)) = Len(s) + 1
           /\ DOMAIN Append(s, x) = 1..(Len(s) + 1) /\ Append(s, x)[Len(s) + 1] = x
           /\ \A i \in 1..Len(s) : Append(s, x)[i] = s[i]
  <1>1. /\ Append(s, x) \in Seq(T) /\ Len(Append(s, x)) = Len(s) + 1
        /\ Append(s, x)[Len(s) + 1] = x /\ \A i \in 1..Len(s) : Append(s, x)[i] = s[i]
    BY AppendProperties
  <1>2. DOMAIN Append(s, x) = 1..Len(Append(s, x))
    BY <1>1, LenProperties
  <1>. QED  BY <1>1, <1>2

Weighed(bytes) == [i \in DOMAIN bytes |-> bytes[i] * Numbers[i - 1]]

LEMMA WeighedType ==
    ASSUME NEW bytes \in Seq(Byte)
    PROVE  Weighed(bytes) \in Seq(Nat) /\ Len(Weighed(bytes)) = Len(bytes)
  <1>1. PICK n \in Nat : n = Len(bytes) /\ DOMAIN bytes = 1..n
    BY LenProperties
  <1>2. ASSUME NEW i \in 1..n PROVE bytes[i] * Numbers[i - 1] \in Nat
    <2>1. bytes[i] \in Nat
      BY <1>1, ElementOfSeq, BytesAre
    <2>2. i - 1 \in Nat
      OBVIOUS
    <2>3. Numbers[i - 1] \in Nat
      BY <2>2, NumbersAre
    <2>4. PICK a \in Nat, b \in Nat : a = bytes[i] /\ b = Numbers[i - 1]
      BY <2>1, <2>3
    <2>. QED  BY <2>4
  <1>. QED  BY <1>1, <1>2 DEF Weighed

LEMMA WeighedAppend ==
    ASSUME NEW bytes \in Seq(Byte), NEW b \in Byte
    PROVE  Weighed(Append(bytes, b)) = Append(Weighed(bytes), b * Numbers[Len(bytes)])
  <1>1. PICK n \in Nat : n = Len(bytes) /\ DOMAIN bytes = 1..n
    BY LenProperties
  <1>2. PICK u \in Seq(Byte) : /\ u = Append(bytes, b) /\ Len(u) = n + 1 /\ u[n + 1] = b
                               /\ DOMAIN u = 1..(n + 1) /\ \A i \in 1..n : u[i] = bytes[i]
    <2>1. /\ Append(bytes, b) \in Seq(Byte) /\ Len(Append(bytes, b)) = Len(bytes) + 1
          /\ DOMAIN Append(bytes, b) = 1..(Len(bytes) + 1) /\ Append(bytes, b)[Len(bytes) + 1] = b
          /\ \A i \in 1..Len(bytes) : Append(bytes, b)[i] = bytes[i]
      BY AppendIs
    <2>. QED  BY <1>1, <2>1
  <1>3. PICK w \in Seq(Nat) : w = Weighed(bytes) /\ Len(w) = n
    BY <1>1, WeighedType
  <1>4. PICK x \in Nat : x = b * Numbers[n]
    <2>1. b \in Nat /\ Numbers[n] \in Nat
      BY BytesAre, NumbersAre
    <2>. QED  BY <2>1
  <1>5. PICK v \in Seq(Nat) : /\ v = Append(w, x) /\ Len(v) = n + 1 /\ v[n + 1] = x
                              /\ \A i \in 1..n : v[i] = w[i]
    <2>1. /\ Append(w, x) \in Seq(Nat) /\ Len(Append(w, x)) = Len(w) + 1
          /\ DOMAIN Append(w, x) = 1..(Len(w) + 1) /\ Append(w, x)[Len(w) + 1] = x
          /\ \A i \in 1..Len(w) : Append(w, x)[i] = w[i]
      BY AppendIs
    <2>. QED  BY <1>3, <2>1
  <1>6. PICK y \in Seq(Nat) : y = Weighed(u) /\ Len(y) = n + 1
    BY <1>2, WeighedType
  <1>7. \A i \in 1..(n + 1) : y[i] = v[i]
    <2>1. \A i \in 1..(n + 1) : y[i] = u[i] * Numbers[i - 1]
      BY <1>2, <1>6 DEF Weighed
    <2>2. \A i \in 1..n : w[i] = bytes[i] * Numbers[i - 1]
      BY <1>1, <1>3 DEF Weighed
    <2>3. y[n + 1] = v[n + 1]
      <3>1. n + 1 \in 1..(n + 1) /\ (n + 1) - 1 = n
        OBVIOUS
      <3>. QED  BY <1>2, <1>4, <1>5, <2>1, <3>1
    <2>4. ASSUME NEW i \in 1..n PROVE y[i] = v[i]
      <3>1. i \in 1..(n + 1)
        OBVIOUS
      <3>. QED  BY <1>2, <1>5, <2>1, <2>2, <3>1
    <2>. QED  BY <2>3, <2>4
  <1>8. y = v
    BY <1>5, <1>6, <1>7, SeqEqual
  <1>. QED  BY <1>1, <1>2, <1>3, <1>4, <1>5, <1>6, <1>8

LEMMA LittleEndianIs ==
    /\ LittleEndian(<<>>) = 0
    /\ \A bytes \in Seq(Byte), b \in Byte :
          /\ LittleEndian(bytes) \in Nat
          /\ LittleEndian(Append(bytes, b)) = LittleEndian(bytes) + b * Numbers[Len(bytes)]
  <1>1. LittleEndian(<<>>) = 0
    <2>1. Weighed(<<>>) = <<>>
      <3>1. PICK e \in Seq(Byte) : e = <<>> /\ Len(e) = 0
        BY EmptySeq
      <3>2. Weighed(e) \in Seq(Nat) /\ Len(Weighed(e)) = 0
        BY <3>1, WeighedType
      <3>. QED  BY <3>1, <3>2, EmptySeq
    <2>. QED  BY <2>1, TotalEmpty DEF LittleEndian, Weighed
  <1>2. ASSUME NEW bytes \in Seq(Byte), NEW b \in Byte
        PROVE  /\ LittleEndian(bytes) \in Nat
               /\ LittleEndian(Append(bytes, b)) = LittleEndian(bytes) + b * Numbers[Len(bytes)]
    <2>1. PICK w \in Seq(Nat) : w = Weighed(bytes)
      BY WeighedType
    <2>2. PICK x \in Nat : x = b * Numbers[Len(bytes)]
      <3>1. b \in Nat /\ Len(bytes) \in Nat
        BY BytesAre, LenProperties
      <3>2. Numbers[Len(bytes)] \in Nat
        BY <3>1, NumbersAre
      <3>. QED  BY <3>1, <3>2
    <2>3. SumFunction(w) \in Nat /\ SumFunction(Append(w, x)) = SumFunction(w) + x
      BY TotalAppend
    <2>4. Weighed(Append(bytes, b)) = Append(w, x)
      BY <2>1, <2>2, WeighedAppend
    <2>5. \A u : LittleEndian(u) = SumFunction(Weighed(u))
      BY DEF LittleEndian, Weighed
    <2>. QED  BY <2>1, <2>2, <2>3, <2>4, <2>5
  <1>. QED  BY <1>1, <1>2

LEMMA LittleEndianRange ==
    ASSUME NEW bytes \in Seq(Byte)
    PROVE  LittleEndian(bytes) \in Nat /\ LittleEndian(bytes) < Numbers[Len(bytes)]
  <1> DEFINE Good == {s \in Seq(Byte) : LittleEndian(s) \in Nat /\ LittleEndian(s) < Numbers[Len(s)]}
  <1>1. <<>> \in Good
    BY LittleEndianIs, NumbersAre, EmptySeq
  <1>2. ASSUME NEW s \in Seq(Byte), NEW b \in Byte, s \in Good PROVE Append(s, b) \in Good
    <2>1. PICK k \in Nat : k = Len(s)
      BY LenProperties
    <2>2. Append(s, b) \in Seq(Byte) /\ Len(Append(s, b)) = k + 1
      BY <2>1, AppendProperties
    <2>3. PICK n \in Nat, m \in Nat : n = LittleEndian(s) /\ m = Numbers[k] /\ n < m
      BY <1>2, <2>1, NumbersAre
    <2>4. Numbers[k + 1] = ByteBase * m /\ LittleEndian(Append(s, b)) = n + b * m
      BY <2>1, <2>3, NumbersAre, LittleEndianIs
    <2>5. PICK base \in Nat, c \in Nat : base = ByteBase /\ c = b /\ c < base
      BY BytesAre
    <2>6. PICK t \in Nat : base = c + 1 + t
      <3>1. base - (c + 1) \in Nat /\ base = c + 1 + (base - (c + 1))
        BY <2>5
      <3>. QED  BY <3>1
    <2>7. base * m = c * m + m + t * m
      BY <2>6
    <2>8. t * m \in Nat /\ c * m \in Nat /\ base * m \in Nat
      OBVIOUS
    <2>9. n + c * m \in Nat /\ n + c * m < base * m
      <3>1. PICK y \in Nat, z \in Nat, w \in Nat : y = t * m /\ z = c * m /\ w = base * m /\ w = z + m + y
        BY <2>7, <2>8
      <3>2. n + z \in Nat /\ n + z < z + m + y
        BY <2>3
      <3>. QED  BY <3>1, <3>2
    <2>. QED  BY <2>2, <2>4, <2>5, <2>9
  <1> HIDE DEF Good
  <1>3. bytes \in Good
    BY <1>1, <1>2, SeqInduct
  <1>. QED  BY <1>3 DEF Good

(* The bytes of a number: one more is its next digit.                      *)
LEMMA ToBytesType ==
    ASSUME NEW n \in Nat, NEW size \in Nat
    PROVE  /\ ToBytes(n, size) \in Seq(Byte) /\ Len(ToBytes(n, size)) = size
           /\ DOMAIN ToBytes(n, size) = 1..size
           /\ ToBytes(n, size + 1)
                 = Append(ToBytes(n, size), (n \div Numbers[size]) % ByteBase)
  <1>1. ASSUME NEW k \in Nat, NEW i \in 1..k PROVE (n \div Numbers[i - 1]) % ByteBase \in Byte
    <2>1. i - 1 \in Nat
      OBVIOUS
    <2>2. PICK m \in Nat \ {0} : m = Numbers[i - 1]
      BY <2>1, NumbersAre
    <2>3. (n \div m) % ByteBase \in 0..(ByteBase - 1)
      BY BytesAre, OneMoreDigit
    <2>. QED  BY <2>2, <2>3 DEF Byte
  <1>2. \A k \in Nat : /\ ToBytes(n, k) \in Seq(Byte) /\ Len(ToBytes(n, k)) = k
                       /\ DOMAIN ToBytes(n, k) = 1..k
    BY <1>1 DEF ToBytes
  <1>3. PICK s \in Seq(Byte), t \in Seq(Byte), b \in Byte :
           /\ s = ToBytes(n, size) /\ Len(s) = size
           /\ t = ToBytes(n, size + 1) /\ Len(t) = size + 1
           /\ b = (n \div Numbers[size]) % ByteBase
    <2>1. size + 1 \in Nat /\ size + 1 \in 1..(size + 1) /\ (size + 1) - 1 = size
      OBVIOUS
    <2>2. (n \div Numbers[size]) % ByteBase \in Byte
      BY <1>1, <2>1
    <2>. QED  BY <1>2, <2>1, <2>2
  <1>4. PICK u \in Seq(Byte) : /\ u = Append(s, b) /\ Len(u) = size + 1 /\ u[size + 1] = b
                               /\ \A i \in 1..size : u[i] = s[i]
    <2>1. /\ Append(s, b) \in Seq(Byte) /\ Len(Append(s, b)) = Len(s) + 1
          /\ DOMAIN Append(s, b) = 1..(Len(s) + 1) /\ Append(s, b)[Len(s) + 1] = b
          /\ \A i \in 1..Len(s) : Append(s, b)[i] = s[i]
      BY AppendIs
    <2>. QED  BY <1>3, <2>1
  <1>5. \A i \in 1..(size + 1) : u[i] = t[i]
    <2>1. \A i \in 1..(size + 1) : t[i] = (n \div Numbers[i - 1]) % ByteBase
      BY <1>3 DEF ToBytes
    <2>2. \A i \in 1..size : s[i] = (n \div Numbers[i - 1]) % ByteBase
      BY <1>3 DEF ToBytes
    <2>3. u[size + 1] = t[size + 1]
      <3>1. size + 1 \in 1..(size + 1) /\ (size + 1) - 1 = size
        OBVIOUS
      <3>. QED  BY <1>3, <1>4, <2>1, <3>1
    <2>4. ASSUME NEW i \in 1..size PROVE u[i] = t[i]
      <3>1. i \in 1..(size + 1)
        OBVIOUS
      <3>. QED  BY <1>4, <2>1, <2>2, <3>1
    <2>. QED  BY <2>3, <2>4
  <1>6. u = t
    BY <1>3, <1>4, <1>5, SeqEqual
  <1>. QED  BY <1>2, <1>3, <1>4, <1>6

(* What is written of a number is read as what fits.                       *)
LEMMA BytesReadBack ==
    ASSUME NEW n \in Nat, NEW size \in Nat
    PROVE  LittleEndian(ToBytes(n, size)) = n % Numbers[size]
  <1> DEFINE Good == {k \in Nat : LittleEndian(ToBytes(n, k)) = n % Numbers[k]}
  <1>1. 0 \in Good
    <2>1. ToBytes(n, 0) = <<>>
      BY ToBytesType, EmptySeq
    <2>2. n % 1 = 0
      OBVIOUS
    <2>. QED  BY <2>1, <2>2, LittleEndianIs, NumbersAre
  <1>2. ASSUME NEW k \in Nat, k \in Good PROVE k + 1 \in Good
    <2>1. PICK m \in Nat \ {0} : m = Numbers[k] /\ Numbers[k + 1] = ByteBase * m
      BY NumbersAre
    <2>2. PICK s \in Seq(Byte), b \in Byte :
             /\ s = ToBytes(n, k) /\ Len(s) = k /\ b = (n \div m) % ByteBase
             /\ ToBytes(n, k + 1) = Append(s, b)
      <3>1. (n \div m) % ByteBase \in Byte
        BY BytesAre, OneMoreDigit DEF Byte
      <3>. QED  BY <2>1, <3>1, ToBytesType, ZenonT(60)
    <2>3. LittleEndian(Append(s, b)) = LittleEndian(s) + b * m
      BY <2>1, <2>2, LittleEndianIs
    <2>4. LittleEndian(s) = n % m
      BY <1>2, <2>1, <2>2
    <2>5. n % (ByteBase * m) = (n % m) + b * m
      BY <2>2, BytesAre, OneMoreDigit
    <2>6. LittleEndian(ToBytes(n, k + 1)) = n % Numbers[k + 1]
      BY <2>1, <2>2, <2>3, <2>4, <2>5, Zenon
    <2>. QED  BY <2>6
  <1> HIDE DEF Good
  <1>3. size \in Good
    BY <1>1, <1>2, NatInduct
  <1>. QED  BY <1>3 DEF Good

(* Bytes of one length that are one number are the same.                   *)
LEMMA BytesOfNumber ==
    ASSUME NEW bytes \in Seq(Byte)
    PROVE  ToBytes(LittleEndian(bytes), Len(bytes)) = bytes
  <1> DEFINE Good == {s \in Seq(Byte) : \A t \in Seq(Byte) :
                         Len(t) = Len(s) /\ LittleEndian(t) = LittleEndian(s) => t = s}
  <1>1. <<>> \in Good
    BY EmptySeq
  <1>2. ASSUME NEW s \in Seq(Byte), NEW b \in Byte, s \in Good PROVE Append(s, b) \in Good
    <2>1. PICK k \in Nat : k = Len(s)
      BY LenProperties
    <2>2. Append(s, b) \in Seq(Byte) /\ Len(Append(s, b)) = k + 1
      BY <2>1, AppendProperties
    <2> SUFFICES ASSUME NEW t \in Seq(Byte), Len(t) = k + 1,
                        LittleEndian(t) = LittleEndian(Append(s, b))
                 PROVE  t = Append(s, b)
      BY <2>2
    <2>3. t # <<>>
      BY EmptySeq
    <2>4. PICK r \in Seq(Byte), c \in Byte : t = Append(r, c)
      BY <2>3, SequenceEmptyOrAppend
    <2>5. Len(r) = k
      <3>1. Len(r) \in Nat /\ Len(t) = Len(r) + 1
        BY <2>4, AppendProperties, LenProperties
      <3>. QED  BY <3>1
    <2>6. PICK m \in Nat \ {0}, x \in Nat, y \in Nat, d \in Nat, e \in Nat :
             /\ m = Numbers[k] /\ x = LittleEndian(s) /\ x < m /\ y = LittleEndian(r) /\ y < m
             /\ d = b /\ e = c
      BY <2>1, <2>5, NumbersAre, LittleEndianRange, BytesAre
    <2>7. d * m + x = e * m + y
      <3>1. LittleEndian(Append(s, b)) = x + d * m /\ LittleEndian(Append(r, c)) = y + e * m
        BY <2>1, <2>5, <2>6, LittleEndianIs
      <3>2. d * m \in Nat /\ e * m \in Nat
        OBVIOUS
      <3>. QED  BY <2>4, <3>1, <3>2
    <2>8. /\ (d * m + x) % m = x /\ (d * m + x) \div m = d
          /\ (e * m + y) % m = y /\ (e * m + y) \div m = e
      <3>1. d \in Int /\ e \in Int
        OBVIOUS
      <3>. QED  BY <2>6, <3>1, Divided, Zenon
    <2>9. x = y /\ d = e
      BY <2>7, <2>8
    <2>10. r = s
      BY <1>2, <2>1, <2>5, <2>6, <2>9
    <2>. QED  BY <2>4, <2>6, <2>9, <2>10
  <1> HIDE DEF Good
  <1>3. bytes \in Good
    BY <1>1, <1>2, SeqInduct
  <1>4. PICK k \in Nat, n \in Nat, m \in Nat \ {0} :
           k = Len(bytes) /\ n = LittleEndian(bytes) /\ m = Numbers[k] /\ n < m
    BY LenProperties, LittleEndianRange, NumbersAre
  <1>5. PICK t \in Seq(Byte) : t = ToBytes(n, k) /\ Len(t) = k /\ LittleEndian(t) = n % m
    BY <1>4, ToBytesType, BytesReadBack
  <1>6. n % m = n
    <2>1. (0 * m + n) % m = n
      <3>1. 0 \in Int
        OBVIOUS
      <3>. QED  BY <1>4, <3>1, Divided, Zenon
    <2>2. 0 * m + n = n
      OBVIOUS
    <2>. QED  BY <2>1, <2>2
  <1>. QED  BY <1>3, <1>4, <1>5, <1>6 DEF Good

-----------------------------------------------------------------------------
(* Parts in a row: where each of them lies in the whole.                   *)
LEMMA FrontIs ==
    ASSUME NEW T, NEW s \in Seq(T), NEW k \in Nat, k + 1 \in 1..Len(s)
    PROVE  /\ SubSeq(s, 1, k) \in Seq(T) /\ Len(SubSeq(s, 1, k)) = k /\ s[k + 1] \in T
           /\ SubSeq(s, 1, k + 1) = Append(SubSeq(s, 1, k), s[k + 1])
  <1>1. PICK n \in Nat : n = Len(s) /\ k + 1 <= n
    BY LenProperties
  <1>2. s[k + 1] \in T
    BY ElementOfSeq
  <1>3. PICK a \in Seq(T), b \in Seq(T) :
           /\ a = SubSeq(s, 1, k) /\ Len(a) = k /\ (\A i \in 1..k : a[i] = s[i])
           /\ b = SubSeq(s, 1, k + 1) /\ Len(b) = k + 1 /\ (\A i \in 1..(k + 1) : b[i] = s[i])
    <2>1. \A i \in 1..(k + 1) : i \in 1..Len(s) /\ s[i] \in T
      BY <1>1, ElementOfSeq
    <2>2. ASSUME NEW m \in Nat, m <= k + 1
          PROVE  /\ SubSeq(s, 1, m) \in Seq(T) /\ Len(SubSeq(s, 1, m)) = m
                 /\ \A i \in 1..m : SubSeq(s, 1, m)[i] = s[i]
      <3>1. \A i \in 1..m : s[i] \in T
        BY <2>1, <2>2
      <3>. QED  BY <3>1, SubSeqProperties
    <2>3. k <= k + 1 /\ k + 1 <= k + 1 /\ k + 1 \in Nat
      OBVIOUS
    <2>. QED  BY <2>2, <2>3
  <1>4. PICK c \in Seq(T) : /\ c = Append(a, s[k + 1]) /\ Len(c) = k + 1 /\ c[k + 1] = s[k + 1]
                            /\ \A i \in 1..k : c[i] = a[i]
    <2>1. /\ Append(a, s[k + 1]) \in Seq(T) /\ Len(Append(a, s[k + 1])) = Len(a) + 1
          /\ Append(a, s[k + 1])[Len(a) + 1] = s[k + 1]
          /\ \A i \in 1..Len(a) : Append(a, s[k + 1])[i] = a[i]
      BY <1>2, AppendIs
    <2>. QED  BY <1>3, <2>1
  <1>5. \A i \in 1..(k + 1) : b[i] = c[i]
    <2>1. ASSUME NEW i \in 1..k PROVE b[i] = c[i]
      <3>1. i \in 1..(k + 1)
        OBVIOUS
      <3>. QED  BY <1>3, <1>4, <3>1
    <2>2. b[k + 1] = c[k + 1]
      <3>1. k + 1 \in 1..(k + 1)
        OBVIOUS
      <3>. QED  BY <1>3, <1>4, <3>1
    <2>. QED  BY <2>1, <2>2
  <1>6. b = c
    BY <1>3, <1>4, <1>5, SeqEqual
  <1>. QED  BY <1>2, <1>3, <1>4, <1>6

(* off[i] is how much there is before part i. *)
Offsets(s, off) ==
    /\ off \in [1..(Len(s) + 1) -> Nat] /\ off[1] = 0
    /\ \A i \in 1..Len(s) : off[i + 1] = off[i] + Len(s[i])

LieWithin(T, whole, s, off) ==
    /\ whole \in Seq(T) /\ Len(whole) = off[Len(s) + 1]
    /\ \A i \in 1..Len(s) :
          /\ s[i] \in Seq(T) /\ off[i] \in Nat /\ off[i + 1] \in Nat
          /\ off[i + 1] = off[i] + Len(s[i]) /\ off[i + 1] <= Len(whole)
          /\ \A j \in 1..Len(s[i]) : whole[off[i] + j] = s[i][j]
          /\ SubSeq(whole, off[i] + 1, off[i + 1]) = s[i]

LEMMA PartsLie ==
    ASSUME NEW T, NEW s \in Seq(Seq(T)), NEW off, Offsets(s, off)
    PROVE  LieWithin(T, FlattenSeq(s), s, off)
  <1> DEFINE Upto(k) == FlattenSeq(SubSeq(s, 1, k))
  <1>1. PICK n \in Nat : n = Len(s) /\ DOMAIN s = 1..n
    BY LenProperties
  <1>2. /\ off \in [1..(n + 1) -> Nat] /\ off[1] = 0
        /\ \A i \in 1..n : /\ s[i] \in Seq(T) /\ off[i] \in Nat /\ off[i + 1] \in Nat
                           /\ off[i + 1] = off[i] + Len(s[i]) /\ Len(s[i]) \in Nat
    <2>1. ASSUME NEW i \in 1..n
          PROVE  /\ s[i] \in Seq(T) /\ off[i] \in Nat /\ off[i + 1] \in Nat
                 /\ off[i + 1] = off[i] + Len(s[i]) /\ Len(s[i]) \in Nat
      <3>1. s[i] \in Seq(T)
        BY <1>1, ElementOfSeq
      <3>2. i \in 1..(n + 1) /\ i + 1 \in 1..(n + 1)
        OBVIOUS
      <3>. QED  BY <1>1, <3>1, <3>2, LenProperties DEF Offsets
    <2>. QED  BY <1>1, <2>1 DEF Offsets
  <1>3. ASSUME NEW k \in Nat, k + 1 \in 1..n
        PROVE  /\ Upto(k) \in Seq(T) /\ Upto(k + 1) = Upto(k) \o s[k + 1]
    <2>1. PICK S : S = Seq(T)
      OBVIOUS
    <2>2. /\ SubSeq(s, 1, k) \in Seq(S) /\ s[k + 1] \in S
          /\ SubSeq(s, 1, k + 1) = Append(SubSeq(s, 1, k), s[k + 1])
      BY <1>1, <1>3, <2>1, FrontIs
    <2>. QED  BY <2>1, <2>2, FlatAppend, FlatType
  <1>4. Upto(0) = <<>>
    <2>1. SubSeq(s, 1, 0) = <<>>
      OBVIOUS
    <2>. QED  BY <2>1, FlatEmpty
  <1>5. Upto(n) = FlattenSeq(s)
    <2>1. SubSeq(s, 1, n) = s
      <3>1. PICK t \in Seq(Seq(T)) : t = SubSeq(s, 1, n) /\ Len(t) = n /\ \A i \in 1..n : t[i] = s[i]
        BY <1>1
      <3>2. t = s
        BY <1>1, <3>1, SeqEqual
      <3>. QED  BY <3>1, <3>2
    <2>. QED  BY <2>1
  <1> HIDE DEF Upto
  <1>6. \A k \in 0..n : Upto(k) \in Seq(T) /\ Len(Upto(k)) = off[k + 1]
    <2> DEFINE Good == {k \in Nat : k <= n => Upto(k) \in Seq(T) /\ Len(Upto(k)) = off[k + 1]}
    <2>1. 0 \in Good
      <3>1. <<>> \in Seq(T) /\ Len(<<>>) = 0
        OBVIOUS
      <3>2. off[0 + 1] = 0
        BY <1>2
      <3>. QED  BY <1>4, <3>1, <3>2
    <2>2. ASSUME NEW k \in Nat, k \in Good PROVE k + 1 \in Good
      <3> SUFFICES ASSUME k + 1 <= n
                   PROVE  Upto(k + 1) \in Seq(T) /\ Len(Upto(k + 1)) = off[(k + 1) + 1]
        OBVIOUS
      <3>1. k + 1 \in 1..n /\ k <= n
        OBVIOUS
      <3>2. Upto(k) \in Seq(T) /\ Len(Upto(k)) = off[k + 1]
        BY <2>2, <3>1
      <3>3. Upto(k + 1) = Upto(k) \o s[k + 1] /\ s[k + 1] \in Seq(T)
        BY <1>2, <1>3, <3>1
      <3>4. Upto(k + 1) \in Seq(T) /\ Len(Upto(k + 1)) = Len(Upto(k)) + Len(s[k + 1])
        BY <3>2, <3>3, ConcatProperties, ZenonT(60)
      <3>. QED  BY <1>2, <3>1, <3>2, <3>4
    <2> HIDE DEF Good
    <2>3. \A k \in Nat : k \in Good
      BY <2>1, <2>2, NatInduct
    <2>. QED  BY <2>3 DEF Good
  <1>7. ASSUME NEW i \in 1..n
        PROVE  /\ off[i + 1] <= Len(Upto(n))
               /\ \A j \in 1..Len(s[i]) : Upto(n)[off[i] + j] = s[i][j]
    <2> DEFINE Good == {k \in Nat : k >= i /\ k <= n =>
                           /\ off[i + 1] <= Len(Upto(k))
                           /\ \A j \in 1..Len(s[i]) : Upto(k)[off[i] + j] = s[i][j]}
    <2>1. 0 \in Good
      OBVIOUS
    <2>2. ASSUME NEW k \in Nat, k \in Good PROVE k + 1 \in Good
      <3> SUFFICES ASSUME k + 1 >= i, k + 1 <= n
                   PROVE  /\ off[i + 1] <= Len(Upto(k + 1))
                          /\ \A j \in 1..Len(s[i]) : Upto(k + 1)[off[i] + j] = s[i][j]
        OBVIOUS
      <3>1. k + 1 \in 1..n /\ k \in 0..n /\ k + 1 \in 0..n
        OBVIOUS
      <3>2. PICK a \in Seq(T), b \in Seq(T), p \in Nat, q \in Nat :
               /\ a = Upto(k) /\ b = s[k + 1] /\ Upto(k + 1) = a \o b
               /\ p = Len(a) /\ q = Len(b) /\ p = off[k + 1]
        BY <1>2, <1>3, <1>6, <3>1, LenProperties
      <3>3. PICK c \in Seq(T) : /\ c = a \o b /\ Len(c) = p + q
                                /\ (\A x \in 1..p : c[x] = a[x])
                                /\ \A x \in 1..q : c[p + x] = b[x]
        <4>1. /\ a \o b \in Seq(T) /\ Len(a \o b) = Len(a) + Len(b)
              /\ \A x \in 1..(Len(a) + Len(b)) :
                    (a \o b)[x] = IF x <= Len(a) THEN a[x] ELSE b[x - Len(a)]
          BY ConcatProperties
        <4>2. \A x \in 1..p : x \in 1..(p + q) /\ x <= p
          OBVIOUS
        <4>3. \A x \in 1..q : p + x \in 1..(p + q) /\ ~(p + x <= p) /\ (p + x) - p = x
          OBVIOUS
        <4>4. PICK c \in Seq(T) : c = a \o b
          BY <4>1
        <4>5. \A x \in 1..(p + q) : c[x] = IF x <= p THEN a[x] ELSE b[x - p]
          BY <3>2, <4>1, <4>4
        <4>6. \A x \in 1..q : c[p + x] = b[x]
          BY <4>3, <4>5
        <4>7. Len(c) = p + q /\ \A x \in 1..p : c[x] = a[x]
          BY <3>2, <4>1, <4>2, <4>4, <4>5
        <4>. QED  BY <4>4, <4>6, <4>7
      <3>4. CASE i = k + 1
        <4>1. off[i] = p /\ s[i] = b /\ off[i + 1] = p + q
          BY <1>2, <3>2, <3>4
        <4>2. \A j \in 1..q : c[p + j] = b[j]
          BY <3>3
        <4>3. Upto(k + 1) = c /\ off[i + 1] <= Len(c)
          BY <3>2, <3>3, <4>1
        <4>4. ASSUME NEW j \in 1..Len(s[i]) PROVE c[off[i] + j] = s[i][j]
          <5>1. j \in 1..q
            BY <3>2, <4>1
          <5>. QED  BY <4>1, <4>2, <5>1
        <4>. QED  BY <4>3, <4>4
      <3>5. CASE i # k + 1
        <4>1. k >= i /\ k <= n
          BY <3>5
        <4>2. off[i + 1] <= p /\ \A j \in 1..Len(s[i]) : a[off[i] + j] = s[i][j]
          BY <2>2, <3>2, <4>1
        <4>3. ASSUME NEW j \in 1..Len(s[i]) PROVE c[off[i] + j] = s[i][j]
          <5>1. off[i] \in Nat /\ off[i + 1] = off[i] + Len(s[i]) /\ Len(s[i]) \in Nat
            BY <1>2
          <5>2. PICK o \in Nat, l \in Nat : o = off[i] /\ l = Len(s[i]) /\ o + l <= p /\ j \in 1..l
            BY <4>2, <5>1
          <5>3. o + j \in 1..p
            BY <5>2, SMTT(30)
          <5>. QED  BY <3>3, <4>2, <5>2, <5>3
        <4>4. off[i + 1] <= p + q
          BY <1>2, <4>2, SMTT(30)
        <4>. QED  BY <3>2, <3>3, <4>3, <4>4
      <3>. QED  BY <3>4, <3>5
    <2> HIDE DEF Good
    <2>3. \A k \in Nat : k \in Good
      BY <2>1, <2>2, NatInduct
    <2>4. n >= i /\ n <= n
      OBVIOUS
    <2>. QED  BY <2>3, <2>4 DEF Good
  <1>8. PICK w \in Seq(T), l \in Nat : w = FlattenSeq(s) /\ w = Upto(n) /\ l = Len(w) /\ l = off[n + 1]
    <2>1. n \in 0..n
      OBVIOUS
    <2>. QED  BY <1>5, <1>6, <2>1, LenProperties
  <1>9. ASSUME NEW i \in 1..n PROVE SubSeq(w, off[i] + 1, off[i + 1]) = s[i]
    <2>1. PICK a \in Nat, k \in Nat, v \in Seq(T) :
             a = off[i] /\ v = s[i] /\ k = Len(v) /\ off[i + 1] = a + k /\ a + k <= l
      BY <1>2, <1>7, <1>8, ZenonT(60)
    <2>2. \A j \in 1..k : w[a + j] = v[j]
      BY <1>7, <1>8, <2>1
    <2>3. PICK t \in Seq(T) : /\ t = SubSeq(w, a + 1, a + k) /\ Len(t) = k
                              /\ \A j \in 1..k : t[j] = w[a + j]
      <3>1. \A j \in 1..k : w[a + j] \in T
        <4>1. \A j \in 1..k : a + j \in 1..l
          BY <2>1, SMTT(30)
        <4>. QED  BY <1>8, <4>1, ElementOfSeq
      <3>2. ASSUME NEW x \in (a + 1)..(a + k) PROVE w[x] \in T
        <4>1. x - a \in 1..k /\ a + (x - a) = x
          BY <3>2
        <4>. QED  BY <3>1, <4>1
      <3>3. a + 1 \in Int /\ a + k \in Int
        OBVIOUS
      <3>4. /\ SubSeq(w, a + 1, a + k) \in Seq(T)
            /\ Len(SubSeq(w, a + 1, a + k)) = IF a + 1 <= a + k THEN (a + k) - (a + 1) + 1 ELSE 0
            /\ \A j \in 1..((a + k) - (a + 1) + 1) : SubSeq(w, a + 1, a + k)[j] = w[(a + 1) + j - 1]
        BY <3>2, <3>3, SubSeqProperties
      <3>5. /\ (IF a + 1 <= a + k THEN (a + k) - (a + 1) + 1 ELSE 0) = k
            /\ (a + k) - (a + 1) + 1 = k /\ \A j \in 1..k : (a + 1) + j - 1 = a + j
        OBVIOUS
      <3>6. PICK t \in Seq(T) : t = SubSeq(w, a + 1, a + k)
        BY <3>4
      <3>7. Len(t) = k
        BY <3>4, <3>5, <3>6
      <3>8. \A j \in 1..k : t[j] = w[a + j]
        BY <3>4, <3>5, <3>6
      <3>. QED  BY <3>6, <3>7, <3>8
    <2>4. t = v
      <3>1. \A j \in 1..k : t[j] = v[j]
        BY <2>2, <2>3
      <3>. QED  BY <2>1, <2>3, <3>1, SeqEqual
    <2>. QED  BY <2>1, <2>3, <2>4
  <1>. QED  BY <1>1, <1>2, <1>7, <1>8, <1>9 DEF LieWithin

(* Parts of one size. *)
LEMMA EvenParts ==
    ASSUME NEW T, NEW s \in Seq(Seq(T)), NEW k \in Nat, \A i \in 1..Len(s) : Len(s[i]) = k
    PROVE  LET whole == FlattenSeq(s) IN
           /\ whole \in Seq(T) /\ Len(whole) = Len(s) * k
           /\ \A i \in 1..Len(s) :
                 /\ (i - 1) * k \in Nat /\ i * k \in Nat /\ i * k = (i - 1) * k + k /\ i * k <= Len(whole)
                 /\ SubSeq(whole, (i - 1) * k + 1, i * k) = s[i]
                 /\ \A j \in 1..k : whole[(i - 1) * k + j] = s[i][j]
  <1>1. PICK n \in Nat : n = Len(s)
    BY LenProperties
  <1> DEFINE off == [i \in 1..(n + 1) |-> (i - 1) * k]
  <1>2. \A i \in 1..(n + 1) : i - 1 \in Nat /\ (i - 1) * k \in Nat
    <2>1. \A i \in 1..(n + 1) : i - 1 \in Nat
      OBVIOUS
    <2>2. \A m \in Nat : m * k \in Nat
      OBVIOUS
    <2>. QED  BY <2>1, <2>2
  <1>3. \A i \in 1..n : /\ i \in 1..(n + 1) /\ i + 1 \in 1..(n + 1) /\ (i + 1) - 1 = i
                        /\ i * k = (i - 1) * k + k
    <2>1. ASSUME NEW i \in 1..n PROVE i * k = (i - 1) * k + k
      <3>1. PICK j \in Nat : i = j + 1 /\ i - 1 = j
        <4>1. i - 1 \in Nat /\ i = (i - 1) + 1
          OBVIOUS
        <4>. QED  BY <4>1
      <3>2. (j + 1) * k = j * k + k
        OBVIOUS
      <3>. QED  BY <3>1, <3>2
    <2>. QED  BY <2>1
  <1>4. /\ off \in [1..(n + 1) -> Nat] /\ off[1] = 0 /\ off[n + 1] = n * k
        /\ \A i \in 1..n : off[i] = (i - 1) * k /\ off[i + 1] = i * k /\ off[i + 1] = off[i] + k
    <2>1. off[1] = 0
      <3>1. 1 \in 1..(n + 1) /\ (1 - 1) * k = 0
        OBVIOUS
      <3>. QED  BY <3>1
    <2>2. off[n + 1] = n * k
      <3>1. n + 1 \in 1..(n + 1) /\ (n + 1) - 1 = n
        OBVIOUS
      <3>. QED  BY <3>1
    <2>. QED  BY <1>2, <1>3, <2>1, <2>2
  <1> HIDE DEF off
  <1>5. Offsets(s, off)
    BY <1>1, <1>4 DEF Offsets
  <1>6. LET whole == FlattenSeq(s) IN
           /\ whole \in Seq(T) /\ Len(whole) = off[Len(s) + 1]
           /\ \A i \in 1..Len(s) :
                 /\ s[i] \in Seq(T) /\ off[i] \in Nat /\ off[i + 1] \in Nat
                 /\ off[i + 1] = off[i] + Len(s[i]) /\ off[i + 1] <= Len(whole)
                 /\ \A j \in 1..Len(s[i]) : whole[off[i] + j] = s[i][j]
                 /\ SubSeq(whole, off[i] + 1, off[i + 1]) = s[i]
    <2>1. LieWithin(T, FlattenSeq(s), s, off)
      BY <1>5, PartsLie
    <2>. QED  BY <2>1 DEF LieWithin
  <1>7. PICK w \in Seq(T) : w = FlattenSeq(s) /\ Len(w) = n * k
    BY <1>1, <1>4, <1>6
  <1>8. ASSUME NEW i \in 1..n
        PROVE  /\ (i - 1) * k \in Nat /\ i * k \in Nat /\ i * k = (i - 1) * k + k /\ i * k <= Len(w)
               /\ SubSeq(w, (i - 1) * k + 1, i * k) = s[i]
               /\ \A j \in 1..k : w[(i - 1) * k + j] = s[i][j]
    <2>1. /\ off[i] \in Nat /\ off[i + 1] \in Nat
          /\ off[i + 1] = off[i] + Len(s[i]) /\ off[i + 1] <= Len(w)
          /\ \A j \in 1..Len(s[i]) : w[off[i] + j] = s[i][j]
          /\ SubSeq(w, off[i] + 1, off[i + 1]) = s[i]
      BY <1>1, <1>6, <1>7
    <2>. QED  BY <1>1, <1>4, <2>1
  <1>. QED  BY <1>1, <1>7, <1>8

-----------------------------------------------------------------------------
(* The types and their sizes.                                              *)
LEMMA SizesAre ==
    /\ DOMAIN ScalarSizes = IntegerTypes \cup FloatTypes \cup {"BOOLEAN", "SYSTIME"}
    /\ \A t \in IntegerTypes : ScalarSizes[t] \in {2, 4, 8} /\ t \notin FloatTypes
    /\ \A t \in FloatTypes : ScalarSizes[t] \in {4, 8} /\ t \notin IntegerTypes
    /\ ScalarSizes["BOOLEAN"] = 1 /\ ScalarSizes["SYSTIME"] = 8
    /\ {"BOOLEAN", "SYSTIME"} \cap (IntegerTypes \cup FloatTypes) = {}
    /\ \A t \in DOMAIN ScalarSizes : ScalarSizes[t] \in 1..8
  BY DEF ScalarSizes, IntegerTypes, FloatTypes

(* A number that is read signed is written as it was, and the other way.   *)
LEMMA SignedBack ==
    ASSUME NEW size \in Nat, NEW n \in Nat, n < Numbers[size]
    PROVE  /\ Signed(n, size) \in Within(size)
           /\ Signed(n, size) % Numbers[size] = n
  <1>1. PICK m \in Nat \ {0} : m = Numbers[size] /\ n < m
    BY NumbersAre
  <1>2. CASE 2 * n >= m
    <2>1. Signed(n, size) = n - m /\ n - m \in Int /\ -m <= 2 * (n - m) /\ 2 * (n - m) < m
      BY <1>1, <1>2 DEF Signed
    <2>2. ((-1) * m + n) % m = n
      <3>1. -1 \in Int
        OBVIOUS
      <3>. QED  BY <1>1, <3>1, Divided, Zenon
    <2>3. (-1) * m + n = n - m
      OBVIOUS
    <2>. QED  BY <1>1, <2>1, <2>2, <2>3 DEF Within
  <1>3. CASE ~(2 * n >= m)
    <2>1. Signed(n, size) = n /\ -m <= 2 * n /\ 2 * n < m
      BY <1>1, <1>3 DEF Signed
    <2>2. (0 * m + n) % m = n
      <3>1. 0 \in Int
        OBVIOUS
      <3>. QED  BY <1>1, <3>1, Divided, Zenon
    <2>3. 0 * m + n = n
      OBVIOUS
    <2>. QED  BY <1>1, <2>1, <2>2, <2>3 DEF Within
  <1>. QED  BY <1>2, <1>3

LEMMA WithinBack ==
    ASSUME NEW size \in Nat, NEW n \in Within(size)
    PROVE  /\ n % Numbers[size] \in Nat /\ n % Numbers[size] < Numbers[size]
           /\ Signed(n % Numbers[size], size) = n
  <1>1. PICK m \in Nat \ {0}, k \in Int : m = Numbers[size] /\ k = n /\ -m <= 2 * k /\ 2 * k < m
    BY NumbersAre DEF Within
  <1>2. CASE k >= 0
    <2>1. k \in Nat /\ k < m
      BY <1>1, <1>2
    <2>2. (0 * m + k) % m = k
      <3>1. 0 \in Int
        OBVIOUS
      <3>. QED  BY <2>1, <3>1, Divided, Zenon
    <2>3. 0 * m + k = k
      OBVIOUS
    <2>4. k % m = k
      BY <2>2, <2>3
    <2>. QED  BY <1>1, <2>1, <2>4 DEF Signed
  <1>3. CASE k < 0
    <2>1. PICK r \in Nat : r = k + m /\ r < m /\ 2 * r >= m
      BY <1>1, <1>3
    <2>2. ((-1) * m + r) % m = r
      <3>1. -1 \in Int
        OBVIOUS
      <3>. QED  BY <2>1, <3>1, Divided, Zenon
    <2>3. (-1) * m + r = k
      BY <2>1
    <2>4. k % m = r
      BY <2>2, <2>3
    <2>. QED  BY <1>1, <2>1, <2>4 DEF Signed
  <1>. QED  BY <1>1, <1>2, <1>3

(* A number that fits in so many bytes is what it is written as.           *)
LEMMA FitsBack ==
    ASSUME NEW size \in Nat, NEW n \in Nat, n < Numbers[size]
    PROVE  /\ LittleEndian(ToBytes(n, size)) = n
           /\ ToBytes(n, size) \in Seq(Byte) /\ Len(ToBytes(n, size)) = size
  <1>1. PICK m \in Nat \ {0} : m = Numbers[size] /\ n < m
    BY NumbersAre
  <1>2. (0 * m + n) % m = n
    <2>1. 0 \in Int
      OBVIOUS
    <2>. QED  BY <1>1, <2>1, Divided, Zenon
  <1>3. 0 * m + n = n
    OBVIOUS
  <1>. QED  BY <1>1, <1>2, <1>3, BytesReadBack, ToBytesType

-----------------------------------------------------------------------------
(* Scalars.                                                                *)
LEMMA NoRefusalKinds ==
    \A v : v.kind \in {"int", "float", "datetime", "bool", "uuid", "object", "bytes", "str", "tuple",
                       "slices", "None"} => ~IsRefusal(v)
  BY DEF IsRefusal, Refusals

LEMMA BadFormatRefuses == IsRefusal(BadFormat)
  BY DEF IsRefusal, Refusals, BadFormat, Refused

LEMMA ScalarValuesAre ==
    ASSUME NEW t
    PROVE  /\ t \in IntegerTypes =>
                 ScalarValues(t) = [kind : {"int"}, int : Within(ScalarSizes[t])]
           /\ t \in FloatTypes =>
                 ScalarValues(t) = [kind : {"float"}, bits : BytesOf(ScalarSizes[t])]
           /\ t = "SYSTIME" => ScalarValues(t) = [kind : {"datetime"}, microseconds : Times]
           /\ t = "BOOLEAN" => ScalarValues(t) = [kind : {"bool"}, bool : BOOLEAN]
  <1>1. t \in IntegerTypes => t \notin FloatTypes /\ t # "SYSTIME" /\ t # "BOOLEAN"
    BY DEF IntegerTypes, FloatTypes
  <1>2. t \in FloatTypes => t # "SYSTIME" /\ t # "BOOLEAN"
    BY DEF FloatTypes
  <1>3. (t = "SYSTIME" \/ t = "BOOLEAN") => t \notin IntegerTypes /\ t \notin FloatTypes
    BY DEF IntegerTypes, FloatTypes
  <1>4. t = "SYSTIME" => t # "BOOLEAN"
    OBVIOUS
  <1>. QED  BY <1>1, <1>2, <1>3, <1>4 DEF ScalarValues

LEMMA ScalarIs ==
    ASSUME NEW t, NEW data, Len(data) = ScalarSizes[t]
    PROVE  LET n == LittleEndian(data) IN
           /\ t \in IntegerTypes => Scalar(t, data) = [kind |-> "int", int |-> Signed(n, Len(data))]
           /\ t \in FloatTypes => Scalar(t, data) = [kind |-> "float", bits |-> data]
           /\ t = "SYSTIME" => Scalar(t, data) = FileTime(Signed(n, Len(data)))
           /\ t = "BOOLEAN" => Scalar(t, data) = IF n \in {0, 1} THEN [kind |-> "bool", bool |-> n = 1]
                                                ELSE BadFormat
  <1>1. t \in IntegerTypes => t \notin FloatTypes /\ t # "SYSTIME" /\ t # "BOOLEAN"
    BY DEF IntegerTypes, FloatTypes
  <1>2. t \in FloatTypes => t # "SYSTIME" /\ t # "BOOLEAN"
    BY DEF FloatTypes
  <1>3. (t = "SYSTIME" \/ t = "BOOLEAN") => t \notin IntegerTypes /\ t \notin FloatTypes
    BY DEF IntegerTypes, FloatTypes
  <1>4. t = "SYSTIME" => t # "BOOLEAN"
    OBVIOUS
  <1>. QED  BY <1>1, <1>2, <1>3, <1>4 DEF Scalar

LEMMA ScalarWritten ==
    ASSUME NEW t \in DOMAIN ScalarSizes, NEW v \in ScalarValues(t)
    PROVE  /\ Plain(t, v) \in Seq(Byte) /\ Len(Plain(t, v)) = ScalarSizes[t]
           /\ Scalar(t, Plain(t, v)) = v /\ ~IsRefusal(v)
  <1>1. CASE t \in IntegerTypes
    <2>1. PICK size \in {2, 4, 8} : size = ScalarSizes[t] /\ size = ScalarSizes[t]
      BY <1>1, SizesAre
    <2>2. PICK i \in Within(size) : v = [kind |-> "int", int |-> i]
      <3>1. ScalarValues(t) = [kind : {"int"}, int : Within(size)]
        BY <1>1, <2>1, ScalarValuesAre
      <3>. QED  BY <3>1
    <2>3. PICK n \in Nat : n = i % Numbers[size] /\ n < Numbers[size] /\ Signed(n, size) = i
      BY <2>1, WithinBack
    <2>4. Plain(t, v) = ToBytes(n, size)
      BY <2>1, <2>2, <2>3 DEF Plain
    <2>5. /\ LittleEndian(ToBytes(n, size)) = n
          /\ ToBytes(n, size) \in Seq(Byte) /\ Len(ToBytes(n, size)) = size
      BY <2>3, FitsBack
    <2>6. Scalar(t, ToBytes(n, size)) = v
      <3>1. Scalar(t, ToBytes(n, size)) = [kind |-> "int", int |-> Signed(n, size)]
        BY <1>1, <2>1, <2>5, ScalarIs
      <3>. QED  BY <2>2, <2>3, <3>1
    <2>. QED  BY <2>1, <2>2, <2>4, <2>5, <2>6, NoRefusalKinds
  <1>2. CASE t \in FloatTypes
    <2>1. t \notin IntegerTypes /\ TRUE
      BY <1>2, SizesAre
    <2>2. PICK b \in Seq(Byte) : v = [kind |-> "float", bits |-> b] /\ Len(b) = ScalarSizes[t]
      <3>1. ScalarValues(t) = [kind : {"float"}, bits : BytesOf(ScalarSizes[t])]
        BY <1>2, ScalarValuesAre
      <3>. QED  BY <3>1 DEF BytesOf
    <2>3. Plain(t, v) = b
      BY <2>2 DEF Plain
    <2>4. Scalar(t, b) = v
      BY <1>2, <2>2, ScalarIs
    <2>. QED  BY <2>2, <2>3, <2>4, NoRefusalKinds
  <1>3. CASE t = "SYSTIME"
    <2>1. t \notin IntegerTypes /\ t \notin FloatTypes /\ ScalarSizes[t] = 8
      BY <1>3, SizesAre
    <2>2. PICK m \in Nat : /\ v = [kind |-> "datetime", microseconds |-> m]
                           /\ 10 * m <= MaxFileTime /\ 2 * (10 * m) < Numbers[8]
      BY <1>3, <2>1 DEF ScalarValues, Times, TicksPerMicrosecond
    <2>3. PICK n \in Nat : n = 10 * m /\ n = m * 10 /\ n < Numbers[8] /\ n \in 0..MaxFileTime
      BY <2>2, NumbersAre, MvItemsAssumption
    <2>4. Plain(t, v) = ToBytes(n, 8)
      BY <2>2, <2>3 DEF Plain, TicksPerMicrosecond
    <2>5. /\ LittleEndian(ToBytes(n, 8)) = n
          /\ ToBytes(n, 8) \in Seq(Byte) /\ Len(ToBytes(n, 8)) = 8
      BY <2>3, FitsBack
    <2>6. Signed(n, 8) = n
      BY <2>2, <2>3, NumbersAre DEF Signed
    <2>7. n \div 10 = m
      BY <2>3
    <2>8. Scalar(t, ToBytes(n, 8)) = FileTime(n)
      BY <1>3, <2>1, <2>5, <2>6 DEF Scalar
    <2>9. FileTime(n) = v
      BY <2>2, <2>3, <2>7 DEF FileTime, TicksPerMicrosecond
    <2>. QED  BY <2>1, <2>2, <2>4, <2>5, <2>8, <2>9, NoRefusalKinds
  <1>4. CASE t = "BOOLEAN"
    <2>1. t \notin IntegerTypes /\ t \notin FloatTypes /\ ScalarSizes[t] = 1
      BY <1>4, SizesAre
    <2>2. PICK b \in BOOLEAN : v = [kind |-> "bool", bool |-> b]
      BY <1>4, <2>1 DEF ScalarValues
    <2>3. PICK x \in Byte : x = (IF b THEN 1 ELSE 0)
      BY BytesAre
    <2>4. Plain(t, v) = <<x>>
      BY <2>2, <2>3 DEF Plain
    <2>5. <<x>> \in Seq(Byte) /\ Len(<<x>>) = 1
      OBVIOUS
    <2>6. LittleEndian(<<x>>) = x
      <3>1. PICK e \in Seq(Byte) : e = <<>> /\ Len(e) = 0
        BY EmptySeq
      <3>2. Append(e, x) = <<x>>
        BY <3>1
      <3>3. LittleEndian(Append(e, x)) = 0 + x * 1
        BY <3>1, LittleEndianIs, NumbersAre
      <3>4. x \in Nat
        BY BytesAre
      <3>. QED  BY <3>2, <3>3, <3>4
    <2>7. Scalar(t, <<x>>) = [kind |-> "bool", bool |-> x = 1]
      BY <1>4, <2>1, <2>3, <2>5, <2>6 DEF Scalar
    <2>8. (x = 1) = b
      BY <2>3
    <2>. QED  BY <2>1, <2>2, <2>4, <2>5, <2>7, <2>8, NoRefusalKinds
  <1>. QED  BY <1>1, <1>2, <1>3, <1>4, SizesAre

LEMMA ScalarRead ==
    ASSUME NEW t \in DOMAIN ScalarSizes, NEW data \in Seq(Byte), ~IsRefusal(Scalar(t, data))
    PROVE  Scalar(t, data) \in ScalarValues(t)
  <1>1. Len(data) = ScalarSizes[t]
    BY BadFormatRefuses DEF Scalar
  <1>2. PICK size \in Nat, n \in Nat :
           size = ScalarSizes[t] /\ size = Len(data) /\ n = LittleEndian(data) /\ n < Numbers[size]
    BY <1>1, LenProperties, LittleEndianRange
  <1>3. CASE t \in IntegerTypes
    <2>1. Scalar(t, data) = [kind |-> "int", int |-> Signed(n, size)] /\ size = ScalarSizes[t]
      BY <1>2, <1>3, SizesAre DEF Scalar
    <2>2. Signed(n, size) \in Within(size)
      BY <1>2, SignedBack
    <2>3. ScalarValues(t) = [kind : {"int"}, int : Within(size)]
      BY <1>2, <1>3, ScalarValuesAre
    <2>. QED  BY <2>1, <2>2, <2>3
  <1>4. CASE t \in FloatTypes
    <2>1. t \notin IntegerTypes /\ TRUE
      BY <1>4, SizesAre
    <2>2. Scalar(t, data) = [kind |-> "float", bits |-> data]
      BY <1>1, <1>4, ScalarIs
    <2>3. ScalarValues(t) = [kind : {"float"}, bits : BytesOf(ScalarSizes[t])]
      BY <1>4, ScalarValuesAre
    <2>. QED  BY <1>1, <2>2, <2>3 DEF BytesOf
  <1>5. CASE t = "SYSTIME"
    <2>1. t \notin IntegerTypes /\ t \notin FloatTypes /\ size = 8
      BY <1>2, <1>5, SizesAre
    <2>2. Scalar(t, data) = FileTime(Signed(n, 8))
      BY <1>1, <1>2, <1>5, <2>1 DEF Scalar
    <2>3. PICK k \in Int : k = Signed(n, 8) /\ 2 * k < Numbers[8]
      BY <1>2, <2>1, SignedBack DEF Within
    <2>4. k \in 0..MaxFileTime
      BY <2>2, <2>3, BadFormatRefuses DEF FileTime
    <2>5. PICK m \in Nat : m = k \div 10 /\ 10 * m <= k
      <3>1. k \in Nat
        BY <2>4
      <3>. QED  BY <3>1
    <2>6. m \in Times
      <3>1. PICK x \in Nat : x = Numbers[8] /\ 2 * k < x
        BY <2>3, NumbersAre
      <3>2. 10 * m <= MaxFileTime /\ 2 * (10 * m) < x
        BY <2>4, <2>5, <3>1, MvItemsAssumption
      <3>. QED  BY <3>1, <3>2 DEF Times, TicksPerMicrosecond
    <2>7. Scalar(t, data) = [kind |-> "datetime", microseconds |-> m]
      BY <2>2, <2>3, <2>4, <2>5 DEF FileTime, TicksPerMicrosecond
    <2>. QED  BY <1>5, <2>1, <2>6, <2>7 DEF ScalarValues
  <1>6. CASE t = "BOOLEAN"
    <2>1. t \notin IntegerTypes /\ t \notin FloatTypes
      BY <1>6, SizesAre
    <2>2. Scalar(t, data) = IF n \in {0, 1} THEN [kind |-> "bool", bool |-> n = 1] ELSE BadFormat
      BY <1>1, <1>2, <1>6, <2>1 DEF Scalar
    <2>3. Scalar(t, data) = [kind |-> "bool", bool |-> n = 1]
      BY <2>2, BadFormatRefuses
    <2>4. ScalarValues(t) = [kind : {"bool"}, bool : BOOLEAN] /\ (n = 1) \in BOOLEAN
      BY <1>6, ScalarValuesAre
    <2>. QED  BY <2>3, <2>4
  <1>. QED  BY <1>3, <1>4, <1>5, <1>6, SizesAre

-----------------------------------------------------------------------------
(* A piece of a sequence, and two bytes as a number.                       *)
LEMMA SliceIs ==
    ASSUME NEW T, NEW s \in Seq(T), NEW a \in Nat, NEW k \in Nat, a + k <= Len(s)
    PROVE  /\ SubSeq(s, a + 1, a + k) \in Seq(T) /\ Len(SubSeq(s, a + 1, a + k)) = k
           /\ \A j \in 1..k : SubSeq(s, a + 1, a + k)[j] = s[a + j] /\ s[a + j] \in T
  <1>1. PICK n \in Nat : n = Len(s) /\ a + k <= n
    BY LenProperties
  <1>2. \A j \in 1..k : a + j \in 1..Len(s)
    BY <1>1
  <1>3. \A j \in 1..k : s[a + j] \in T
    BY <1>2, ElementOfSeq
  <1>4. \A j \in (a + 1)..(a + k) : s[j] \in T
    <2>1. \A j \in (a + 1)..(a + k) : j \in 1..Len(s)
      BY <1>1
    <2>. QED  BY <2>1, ElementOfSeq
  <1>5. a + 1 \in Int /\ a + k \in Int
    OBVIOUS
  <1>6. /\ SubSeq(s, a + 1, a + k) \in Seq(T)
        /\ Len(SubSeq(s, a + 1, a + k)) = IF a + 1 <= a + k THEN (a + k) - (a + 1) + 1 ELSE 0
        /\ \A j \in 1..((a + k) - (a + 1) + 1) : SubSeq(s, a + 1, a + k)[j] = s[(a + 1) + j - 1]
    BY <1>4, <1>5, SubSeqProperties
  <1>7. (a + k) - (a + 1) + 1 = k /\ \A j \in 1..k : (a + 1) + j - 1 = a + j
    OBVIOUS
  <1>8. (IF a + 1 <= a + k THEN (a + k) - (a + 1) + 1 ELSE 0) = k
    OBVIOUS
  <1>. QED  BY <1>3, <1>6, <1>7, <1>8

(* The same, as one thing that is said of a piece.                         *)
IsSlice(T, s, a, k) ==
    /\ SubSeq(s, a + 1, a + k) \in Seq(T) /\ Len(SubSeq(s, a + 1, a + k)) = k
    /\ \A j \in 1..k : SubSeq(s, a + 1, a + k)[j] = s[a + j]

LEMMA SliceOf ==
    ASSUME NEW T, NEW s \in Seq(T), NEW a \in Nat, NEW k \in Nat, a + k <= Len(s)
    PROVE  IsSlice(T, s, a, k)
  BY SliceIs DEF IsSlice

LEMMA PairIs ==
    ASSUME NEW p \in Seq(Byte), Len(p) = 2
    PROVE  /\ LittleEndian(p) \in 0..(Numbers[2] - 1)
           /\ (LittleEndian(p) = 0) <=> (p[1] = 0 /\ p[2] = 0)
  <1>1. PICK n \in Nat : n = LittleEndian(p) /\ n < Numbers[2]
    BY LittleEndianRange
  <1>2. n \in 0..(Numbers[2] - 1)
    <2>1. PICK m \in Nat : m = Numbers[2] /\ n < m
      BY <1>1, NumbersAre
    <2>. QED  BY <2>1
  <1>3. PICK x \in Byte, y \in Byte : x = p[1] /\ y = p[2]
    <2>1. p[1] \in Byte /\ p[2] \in Byte
      BY ElementOfSeq
    <2>. QED  BY <2>1
  <1>4. PICK e \in Seq(Byte) : e = <<>> /\ Len(e) = 0
    BY EmptySeq
  <1>5. PICK a \in Seq(Byte) : a = Append(e, x) /\ Len(a) = 1 /\ a[1] = x
    <2>1. Append(e, x) \in Seq(Byte) /\ Len(Append(e, x)) = Len(e) + 1 /\ Append(e, x)[Len(e) + 1] = x
      BY AppendIs
    <2>. QED  BY <1>4, <2>1
  <1>6. PICK b \in Seq(Byte) : b = Append(a, y) /\ Len(b) = 2 /\ b[1] = x /\ b[2] = y
    <2>1. /\ Append(a, y) \in Seq(Byte) /\ Len(Append(a, y)) = Len(a) + 1 /\ Append(a, y)[Len(a) + 1] = y
          /\ \A i \in 1..Len(a) : Append(a, y)[i] = a[i]
      BY AppendIs
    <2>2. Len(a) + 1 = 2 /\ 1 \in 1..Len(a)
      BY <1>5
    <2>3. Append(a, y)[1] = a[1]
      BY <2>1, <2>2
    <2>. QED  BY <1>5, <2>1, <2>2, <2>3
  <1>7. b = p
    <2>1. \A i \in 1..2 : b[i] = p[i]
      BY <1>3, <1>6
    <2>. QED  BY <1>6, <2>1, SeqEqual
  <1>8. PICK q \in Nat \ {0} : q = Numbers[1]
    BY NumbersAre
  <1>9. n = (0 + x * 1) + y * q
    <2>1. LittleEndian(Append(e, x)) = LittleEndian(e) + x * Numbers[Len(e)]
      BY LittleEndianIs
    <2>2. LittleEndian(Append(a, y)) = LittleEndian(a) + y * Numbers[Len(a)]
      BY LittleEndianIs
    <2>. QED  BY <1>1, <1>4, <1>5, <1>6, <1>7, <1>8, <2>1, <2>2, LittleEndianIs, NumbersAre
  <1>10. x \in Nat /\ y \in Nat
    BY BytesAre
  <1>11. PICK z \in Nat : z = y * q /\ (z = 0 <=> y = 0)
    <2>1. y = 0 => y * q = 0
      BY <1>10
    <2>2. y >= 1 => y * q >= q /\ y * q \in Nat
      BY <1>10, AtLeast
    <2>. QED  BY <1>10, <2>1, <2>2
  <1>12. n = x + z
    BY <1>9, <1>10, <1>11
  <1>13. n = 0 <=> (x = 0 /\ y = 0)
    <2>1. PICK u \in Nat, w \in Nat : u = x /\ w = y /\ n = u + z /\ (z = 0 <=> w = 0)
      <3>1. (z = 0) <=> (y = 0)
        BY <1>11
      <3>. QED  BY <1>10, <1>12, <3>1
    <2>2. n = 0 <=> (u = 0 /\ w = 0)
      BY <2>1
    <2>. QED  BY <2>1, <2>2
  <1>. QED  BY <1>1, <1>2, <1>3, <1>13

-----------------------------------------------------------------------------
(* UTF-16 text.  Its units are what it has at odd places, two bytes each.  *)
LEMMA UnitsAre ==
    ASSUME NEW raw \in Seq(Byte), NEW k \in Nat, 2 * k <= Len(raw)
    PROVE  LET text == SubSeq(raw, 1, 2 * k) IN
           /\ text \in Seq(Byte) /\ Len(text) = 2 * k
           /\ Len(Units(text)) = k /\ DOMAIN Units(text) = 1..k
           /\ \A i \in 1..k :
                 /\ Units(text)[i] \in 0..(Numbers[2] - 1)
                 /\ Units(text)[i] = LittleEndian(SubSeq(raw, 2 * i - 1, 2 * i))
                 /\ (Units(text)[i] = 0) <=> (raw[2 * i - 1] = 0 /\ raw[2 * i] = 0)
  <1>1. PICK l \in Nat : l = Len(raw) /\ 2 * k <= l
    BY LenProperties
  <1>2. PICK text \in Seq(Byte) : /\ text = SubSeq(raw, 1, 2 * k) /\ Len(text) = 2 * k
                                  /\ \A j \in 1..(2 * k) : text[j] = raw[j]
    <2>1. 0 + 2 * k <= Len(raw) /\ 2 * k \in Nat /\ 0 \in Nat /\ 0 + 1 = 1 /\ 0 + 2 * k = 2 * k
      BY <1>1
    <2>2. /\ SubSeq(raw, 0 + 1, 0 + 2 * k) \in Seq(Byte) /\ Len(SubSeq(raw, 0 + 1, 0 + 2 * k)) = 2 * k
          /\ \A j \in 1..(2 * k) : SubSeq(raw, 0 + 1, 0 + 2 * k)[j] = raw[0 + j]
      BY <2>1, SliceIs
    <2>3. \A j \in 1..(2 * k) : 0 + j = j
      OBVIOUS
    <2>. QED  BY <2>1, <2>2, <2>3
  <1>3. (2 * k) \div 2 = k
    OBVIOUS
  <1>4. Units(text) = [i \in 1..k |-> LittleEndian(SubSeq(text, 2 * i - 1, 2 * i))]
    BY <1>2, <1>3 DEF Units
  <1>5. ASSUME NEW i \in 1..k
        PROVE  /\ SubSeq(text, 2 * i - 1, 2 * i) = SubSeq(raw, 2 * i - 1, 2 * i)
               /\ LittleEndian(SubSeq(raw, 2 * i - 1, 2 * i)) \in 0..(Numbers[2] - 1)
               /\ LittleEndian(SubSeq(raw, 2 * i - 1, 2 * i)) = 0
                     <=> raw[2 * i - 1] = 0 /\ raw[2 * i] = 0
    <2>1. PICK a \in Nat : /\ a = 2 * i - 2 /\ a + 1 = 2 * i - 1 /\ a + 2 = 2 * i
                           /\ a + 2 <= 2 * k /\ a + 2 <= Len(raw) /\ a + 2 <= Len(text)
      BY <1>1, <1>2
    <2>2. PICK p \in Seq(Byte) : /\ p = SubSeq(text, a + 1, a + 2) /\ Len(p) = 2
                                 /\ \A j \in 1..2 : p[j] = text[a + j]
      <3>1. /\ SubSeq(text, a + 1, a + 2) \in Seq(Byte) /\ Len(SubSeq(text, a + 1, a + 2)) = 2
            /\ \A j \in 1..2 : SubSeq(text, a + 1, a + 2)[j] = text[a + j]
        BY <2>1, SliceIs
      <3>. QED  BY <3>1
    <2>3. PICK q \in Seq(Byte) : /\ q = SubSeq(raw, a + 1, a + 2) /\ Len(q) = 2
                                 /\ \A j \in 1..2 : q[j] = raw[a + j]
      <3>1. /\ SubSeq(raw, a + 1, a + 2) \in Seq(Byte) /\ Len(SubSeq(raw, a + 1, a + 2)) = 2
            /\ \A j \in 1..2 : SubSeq(raw, a + 1, a + 2)[j] = raw[a + j]
        BY <2>1, SliceIs
      <3>. QED  BY <3>1
    <2>4. \A j \in 1..2 : a + j \in 1..(2 * k)
      BY <2>1
    <2>5. \A j \in 1..2 : p[j] = q[j]
      BY <1>2, <2>2, <2>3, <2>4
    <2>6. p = q
      BY <2>2, <2>3, <2>5, SeqEqual
    <2>7. q[1] = raw[2 * i - 1] /\ q[2] = raw[2 * i]
      <3>1. a + 1 = 2 * i - 1 /\ a + 2 = 2 * i /\ 1 \in 1..2 /\ 2 \in 1..2
        BY <2>1
      <3>2. q[1] = raw[a + 1] /\ q[2] = raw[a + 2]
        BY <2>3, <3>1
      <3>. QED  BY <3>1, <3>2
    <2>8. LittleEndian(q) \in 0..(Numbers[2] - 1) /\ (LittleEndian(q) = 0 <=> q[1] = 0 /\ q[2] = 0)
      BY <2>3, PairIs
    <2>. QED  BY <2>1, <2>2, <2>3, <2>6, <2>7, <2>8
  <1>6. ASSUME NEW i \in 1..k
        PROVE  /\ Units(text)[i] \in 0..(Numbers[2] - 1)
               /\ Units(text)[i] = LittleEndian(SubSeq(raw, 2 * i - 1, 2 * i))
               /\ (Units(text)[i] = 0) <=> (raw[2 * i - 1] = 0 /\ raw[2 * i] = 0)
    BY <1>4, <1>5
  <1>7. Len(Units(text)) = k /\ DOMAIN Units(text) = 1..k
    BY <1>4
  <1>. QED  BY <1>2, <1>6, <1>7

(* Where text ends: before the first unit that is zero.                    *)
LEMMA EndIs ==
    ASSUME NEW raw \in Seq(Byte), NEW l \in Nat, 2 * l = Len(raw)
    PROVE  \E k \in 0..l :
              /\ EndOfUnicode(raw) = 2 * k
              /\ \A i \in 1..k : ~(raw[2 * i - 1] = 0 /\ raw[2 * i] = 0)
              /\ (\A i \in 1..l : ~(raw[2 * i - 1] = 0 /\ raw[2 * i] = 0)) => k = l
  <1> DEFINE zeros == {i \in 1..(Len(raw) - 1) : raw[i] = 0 /\ raw[i + 1] = 0}
             ends == {i \in zeros : i % 2 = 1}
  <1>1. EndOfUnicode(raw) = IF ends = {} THEN Len(raw) ELSE Min(ends) - 1
    BY DEF EndOfUnicode
  <1>2. ASSUME NEW i \in 1..l
        PROVE  2 * i - 1 \in ends <=> raw[2 * i - 1] = 0 /\ raw[2 * i] = 0
    <2>1. 2 * i - 1 \in 1..(Len(raw) - 1) /\ (2 * i - 1) % 2 = 1 /\ (2 * i - 1) + 1 = 2 * i
      OBVIOUS
    <2>. QED  BY <2>1
  <1>3. ends \in SUBSET Nat /\ \A i \in ends : i % 2 = 1 /\ i \in 1..(2 * l - 1)
    OBVIOUS
  <1> HIDE DEF ends
  <1>4. CASE ends = {}
    <2>1. EndOfUnicode(raw) = 2 * l
      BY <1>1, <1>4
    <2>2. \A i \in 1..l : ~(raw[2 * i - 1] = 0 /\ raw[2 * i] = 0)
      BY <1>2, <1>4
    <2>3. l \in 0..l
      OBVIOUS
    <2>. QED  BY <2>1, <2>2, <2>3
  <1>5. CASE ends # {}
    <2>1. PICK m \in Nat : m = Min(ends) /\ m \in ends /\ \A j \in ends : m <= j
      BY <1>3, <1>5, MinProperties
    <2>2. PICK k \in 0..l : m = 2 * k + 1 /\ k + 1 \in 1..l
      <3>1. m % 2 = 1 /\ m \in 1..(2 * l - 1)
        BY <1>3, <2>1
      <3>2. PICK h \in Nat : h = m \div 2 /\ m = 2 * h + 1
        BY <3>1
      <3>3. h \in 0..l /\ h + 1 \in 1..l
        BY <3>1, <3>2
      <3>. QED  BY <3>2, <3>3
    <2>3. EndOfUnicode(raw) = 2 * k
      BY <1>1, <1>5, <2>1, <2>2
    <2>4. ASSUME NEW i \in 1..k PROVE ~(raw[2 * i - 1] = 0 /\ raw[2 * i] = 0)
      <3>1. i \in 1..l /\ 2 * i - 1 < m
        BY <2>2
      <3>. QED  BY <1>2, <2>1, <3>1
    <2>5. ~ \A i \in 1..l : ~(raw[2 * i - 1] = 0 /\ raw[2 * i] = 0)
      <3>1. 2 * (k + 1) - 1 = m /\ 2 * (k + 1) - 1 \in ends
        BY <2>1, <2>2
      <3>. QED  BY <1>2, <2>2, <3>1
    <2>. QED  BY <2>3, <2>4, <2>5
  <1>. QED  BY <1>4, <1>5

SingleTypes == {"BINARY", "UNICODE", "STRING8"}

LEMMA SingleIs ==
    ASSUME NEW data
    PROVE  /\ Single("BINARY", data, TRUE) = Binary(data) /\ Single("BINARY", data, FALSE) = Binary(data)
           /\ Single("UNICODE", data, TRUE) = Unicode(data) /\ Single("UNICODE", data, FALSE) = Unicode(data)
           /\ Single("STRING8", data, TRUE) = String8(data)
           /\ IsRefusal(Single("STRING8", data, FALSE))
  BY DEF Single, Refused, IsRefusal, Refusals

LEMMA SingleValuesAre ==
    /\ SingleValues("BINARY") = [kind : {"bytes"}, bytes : Seq(Byte)]
    /\ SingleValues("UNICODE") = [kind : {"str"}, units : Text]
    /\ SingleValues("STRING8") = [kind : {"str"}, characters : Seq(Byte \ (UndefinedBytes \cup {0}))]
  BY DEF SingleValues

(* Text is written and read as it was. *)
LEMMA UnicodeWritten ==
    ASSUME NEW units \in Text
    PROVE  LET raw == FlattenSeq([i \in DOMAIN units |-> ToBytes(units[i], 2)]) IN
           /\ raw \in Seq(Byte) /\ Len(raw) = 2 * Len(units)
           /\ Unicode(raw) = [kind |-> "str", units |-> units]
  <1> DEFINE parts == [i \in DOMAIN units |-> ToBytes(units[i], 2)]
  <1>1. PICK l \in Nat, top \in Nat \ {0} :
           /\ l = Len(units) /\ DOMAIN units = 1..l /\ top = Numbers[2]
           /\ units \in Seq(1..(top - 1)) /\ \A i \in 1..l : units[i] \in 1..(top - 1)
    <2>1. PICK top \in Nat \ {0} : top = Numbers[2]
      BY NumbersAre
    <2>2. units \in Seq(1..(top - 1))
      BY <2>1 DEF Text
    <2>3. Len(units) \in Nat /\ DOMAIN units = 1..Len(units)
      BY <2>2, LenProperties
    <2>4. \A i \in 1..Len(units) : units[i] \in 1..(top - 1)
      BY <2>2, ElementOfSeq
    <2>. QED  BY <2>1, <2>2, <2>3, <2>4
  <1>2. \A i \in 1..l : /\ units[i] \in Nat /\ units[i] < Numbers[2] /\ units[i] # 0
    BY <1>1
  <1>3. \A i \in 1..l : /\ LittleEndian(ToBytes(units[i], 2)) = units[i]
                        /\ ToBytes(units[i], 2) \in Seq(Byte) /\ Len(ToBytes(units[i], 2)) = 2
    BY <1>2, FitsBack
  <1>4. PICK s \in Seq(Seq(Byte)) : /\ s = parts /\ Len(s) = l
                                    /\ \A i \in 1..l : s[i] = ToBytes(units[i], 2) /\ Len(s[i]) = 2
    <2>1. parts = [i \in 1..l |-> ToBytes(units[i], 2)]
      BY <1>1
    <2>2. parts \in Seq(Seq(Byte)) /\ Len(parts) = l
      BY <1>3, <2>1
    <2>. QED  BY <1>3, <2>1, <2>2
  <1>5. PICK raw \in Seq(Byte) :
           /\ raw = FlattenSeq(parts) /\ Len(raw) = l * 2
           /\ \A i \in 1..l : SubSeq(raw, (i - 1) * 2 + 1, i * 2) = s[i]
    <2>1. LET whole == FlattenSeq(s) IN
           /\ whole \in Seq(Byte) /\ Len(whole) = Len(s) * 2
           /\ \A i \in 1..Len(s) : SubSeq(whole, (i - 1) * 2 + 1, i * 2) = s[i]
      <3>1. \A i \in 1..Len(s) : Len(s[i]) = 2
        BY <1>4
      <3>2. 2 \in Nat
        OBVIOUS
      <3>. QED  BY <3>1, <3>2, EvenParts, ZenonT(60)
    <2>. QED  BY <1>4, <2>1
  <1>6. 2 * l <= Len(raw) /\ 2 * l = Len(raw) /\ Len(raw) % 2 = 0 /\ Len(raw) \div 2 = l
    <2>1. PICK n \in Nat : n = Len(raw) /\ n = l * 2
      BY <1>5
    <2>2. 2 * l <= n /\ 2 * l = n
      BY <2>1
    <2>3. (l * 2 + 0) % 2 = 0 /\ (l * 2 + 0) \div 2 = l
      <3>1. 2 \in Nat \ {0} /\ l \in Int /\ 0 \in Nat /\ 0 < 2
        OBVIOUS
      <3>. QED  BY <3>1, Divided, Zenon
    <2>4. l * 2 + 0 = n
      BY <2>1
    <2>. QED  BY <2>1, <2>2, <2>3, <2>4
  <1>7. SubSeq(raw, 1, 2 * l) = raw
    BY <1>6, SubSeqFull
  <1>8. /\ Len(Units(raw)) = l /\ DOMAIN Units(raw) = 1..l
        /\ \A i \in 1..l :
              /\ Units(raw)[i] \in 0..(Numbers[2] - 1)
              /\ Units(raw)[i] = LittleEndian(SubSeq(raw, 2 * i - 1, 2 * i))
              /\ (Units(raw)[i] = 0) <=> (raw[2 * i - 1] = 0 /\ raw[2 * i] = 0)
    <2>1. LET text == SubSeq(raw, 1, 2 * l) IN
           /\ text \in Seq(Byte) /\ Len(text) = 2 * l
           /\ Len(Units(text)) = l /\ DOMAIN Units(text) = 1..l
           /\ \A i \in 1..l :
                 /\ Units(text)[i] \in 0..(Numbers[2] - 1)
                 /\ Units(text)[i] = LittleEndian(SubSeq(raw, 2 * i - 1, 2 * i))
                 /\ (Units(text)[i] = 0) <=> (raw[2 * i - 1] = 0 /\ raw[2 * i] = 0)
      BY <1>6, UnitsAre
    <2>. QED  BY <1>7, <2>1
  <1>9. \A i \in 1..l : Units(raw)[i] = units[i]
    <2>1. \A i \in 1..l : (i - 1) * 2 + 1 = 2 * i - 1 /\ i * 2 = 2 * i
      OBVIOUS
    <2>2. \A i \in 1..l : SubSeq(raw, 2 * i - 1, 2 * i) = ToBytes(units[i], 2)
      BY <1>4, <1>5, <2>1
    <2>. QED  BY <1>3, <1>8, <2>2
  <1>10. Units(raw) = units
    <2>1. Units(raw) = [i \in 1..(Len(raw) \div 2) |-> LittleEndian(SubSeq(raw, 2 * i - 1, 2 * i))]
      BY DEF Units
    <2>2. Len(raw) \div 2 = l
      BY <1>6
    <2>3. Units(raw) = [i \in 1..l |-> Units(raw)[i]]
      BY <2>1, <2>2
    <2>4. units = [i \in 1..l |-> units[i]]
      BY <1>1
    <2>. QED  BY <1>9, <2>3, <2>4
  <1>11. EndOfUnicode(raw) = 2 * l
    <2>1. \A i \in 1..l : ~(raw[2 * i - 1] = 0 /\ raw[2 * i] = 0)
      BY <1>2, <1>8, <1>9, Zenon
    <2>2. \E k \in 0..l : /\ EndOfUnicode(raw) = 2 * k
                          /\ (\A i \in 1..l : ~(raw[2 * i - 1] = 0 /\ raw[2 * i] = 0)) => k = l
      BY <1>6, EndIs
    <2>. QED  BY <2>1, <2>2
  <1>12. Paired(units)
    BY DEF Text
  <1>13. Unicode(raw) = [kind |-> "str", units |-> units]
    BY <1>6, <1>7, <1>10, <1>11, <1>12 DEF Unicode
  <1>. QED  BY <1>1, <1>5, <1>6, <1>13

LEMMA UnicodeRead ==
    ASSUME NEW raw \in Seq(Byte), ~IsRefusal(Unicode(raw))
    PROVE  \E units \in Text : /\ Unicode(raw) = [kind |-> "str", units |-> units]
                               /\ 2 * Len(units) <= Len(raw)
  <1> DEFINE units == Units(SubSeq(raw, 1, EndOfUnicode(raw)))
  <1>1. /\ Len(raw) % 2 = 0 /\ Paired(units)
        /\ Unicode(raw) = [kind |-> "str", units |-> units]
    BY BadFormatRefuses DEF Unicode
  <1>2. PICK l \in Nat : Len(raw) = 2 * l
    <2>1. PICK n \in Nat : n = Len(raw) /\ n % 2 = 0
      BY <1>1, LenProperties
    <2>2. n = 2 * (n \div 2) /\ n \div 2 \in Nat
      BY <2>1
    <2>. QED  BY <2>1, <2>2
  <1>3. PICK k \in 0..l : /\ EndOfUnicode(raw) = 2 * k
                          /\ \A i \in 1..k : ~(raw[2 * i - 1] = 0 /\ raw[2 * i] = 0)
    <2>1. \E k \in 0..l : /\ EndOfUnicode(raw) = 2 * k
                          /\ \A i \in 1..k : ~(raw[2 * i - 1] = 0 /\ raw[2 * i] = 0)
      BY <1>2, EndIs
    <2>. QED  BY <2>1
  <1>4. k \in Nat /\ 2 * k <= Len(raw)
    BY <1>2
  <1>5. /\ Len(units) = k /\ DOMAIN units = 1..k
        /\ \A i \in 1..k : /\ units[i] \in 0..(Numbers[2] - 1)
                           /\ (units[i] = 0) <=> (raw[2 * i - 1] = 0 /\ raw[2 * i] = 0)
    <2>1. LET text == SubSeq(raw, 1, 2 * k) IN
           /\ text \in Seq(Byte) /\ Len(text) = 2 * k
           /\ Len(Units(text)) = k /\ DOMAIN Units(text) = 1..k
           /\ \A i \in 1..k :
                 /\ Units(text)[i] \in 0..(Numbers[2] - 1)
                 /\ Units(text)[i] = LittleEndian(SubSeq(raw, 2 * i - 1, 2 * i))
                 /\ (Units(text)[i] = 0) <=> (raw[2 * i - 1] = 0 /\ raw[2 * i] = 0)
      BY <1>4, UnitsAre
    <2>. QED  BY <1>3, <2>1
  <1>6. \A i \in 1..k : units[i] \in 1..(Numbers[2] - 1)
    <2>1. PICK top \in Nat \ {0} : top = Numbers[2]
      BY NumbersAre
    <2>2. \A i \in 1..k : units[i] \in 0..(top - 1) /\ units[i] # 0
      BY <1>3, <1>5, <2>1
    <2>. QED  BY <2>1, <2>2
  <1>7. units \in Seq(1..(Numbers[2] - 1))
    <2>1. units = [i \in 1..(Len(SubSeq(raw, 1, EndOfUnicode(raw))) \div 2) |->
                      LittleEndian(SubSeq(SubSeq(raw, 1, EndOfUnicode(raw)), 2 * i - 1, 2 * i))]
      BY DEF Units
    <2>2. units = [i \in DOMAIN units |-> units[i]]
      BY <2>1
    <2> HIDE DEF units
    <2>3. units = [i \in 1..k |-> units[i]]
      BY <1>5, <2>2
    <2>4. [i \in 1..k |-> units[i]] \in Seq(1..(Numbers[2] - 1))
      BY <1>4, <1>6
    <2>. QED  BY <2>3, <2>4
  <1> HIDE DEF units
  <1>. QED  BY <1>1, <1>4, <1>5, <1>7 DEF Text

LEMMA String8Written ==
    ASSUME NEW raw \in Seq(Byte \ (UndefinedBytes \cup {0}))
    PROVE  raw \in Seq(Byte) /\ String8(raw) = [kind |-> "str", characters |-> raw]
  <1>1. DOMAIN raw = 1..Len(raw) /\ Len(raw) \in Nat
    BY LenProperties
  <1>2. \A i \in DOMAIN raw : raw[i] \in Byte /\ raw[i] \notin UndefinedBytes /\ raw[i] # 0
    BY <1>1, ElementOfSeq
  <1>3. {i \in DOMAIN raw : raw[i] = 0} = {}
    BY <1>2
  <1>4. ToSet(raw) \cap UndefinedBytes = {}
    BY <1>2 DEF ToSet
  <1>5. raw \in Seq(Byte)
    <2>1. raw = [i \in 1..Len(raw) |-> raw[i]]
      BY <1>1
    <2>2. [i \in 1..Len(raw) |-> raw[i]] \in Seq(Byte)
      BY <1>1, <1>2
    <2>. QED  BY <2>1, <2>2
  <1>. QED  BY <1>3, <1>4, <1>5 DEF String8

LEMMA String8Read ==
    ASSUME NEW raw \in Seq(Byte), ~IsRefusal(String8(raw))
    PROVE  \E text \in Seq(Byte \ (UndefinedBytes \cup {0})) :
              String8(raw) = [kind |-> "str", characters |-> text] /\ Len(text) <= Len(raw)
  <1> DEFINE zeros == {i \in DOMAIN raw : raw[i] = 0}
             text == IF zeros = {} THEN raw ELSE SubSeq(raw, 1, Min(zeros) - 1)
  <1>1. ToSet(text) \cap UndefinedBytes = {} /\ String8(raw) = [kind |-> "str", characters |-> text]
    BY BadFormatRefuses DEF String8
  <1>2. PICK l \in Nat : l = Len(raw) /\ DOMAIN raw = 1..l /\ zeros \in SUBSET Nat
    BY LenProperties
  <1>3. PICK k \in 0..l, t \in Seq(Byte) :
           /\ t = text /\ Len(t) = k /\ DOMAIN t = 1..k
           /\ \A i \in 1..k : t[i] = raw[i] /\ raw[i] # 0 /\ raw[i] \in Byte
    <2>1. CASE zeros = {}
      <3>1. text = raw /\ \A i \in 1..l : raw[i] # 0
        BY <1>2, <2>1
      <3>2. \A i \in 1..l : raw[i] \in Byte
        BY <1>2, ElementOfSeq
      <3>3. l \in 0..l
        OBVIOUS
      <3>. QED  BY <1>2, <3>1, <3>2, <3>3
    <2>2. CASE zeros # {}
      <3>1. PICK m \in Nat : m = Min(zeros) /\ m \in 1..l /\ \A i \in zeros : m <= i
        BY <1>2, <2>2, MinProperties
      <3>2. PICK k \in 0..l : k = m - 1 /\ 0 + k <= Len(raw) /\ k \in Nat
        <4>1. m - 1 \in 0..l /\ 0 + (m - 1) <= l /\ m - 1 \in Nat
          BY <3>1
        <4>. QED  BY <1>2, <4>1
      <3>3. PICK t \in Seq(Byte) : /\ t = SubSeq(raw, 0 + 1, 0 + k) /\ Len(t) = k
                                   /\ \A j \in 1..k : t[j] = raw[0 + j]
        <4>1. 0 \in Nat
          OBVIOUS
        <4>2. /\ SubSeq(raw, 0 + 1, 0 + k) \in Seq(Byte) /\ Len(SubSeq(raw, 0 + 1, 0 + k)) = k
              /\ \A j \in 1..k : SubSeq(raw, 0 + 1, 0 + k)[j] = raw[0 + j]
          BY <3>2, <4>1, SliceIs
        <4>. QED  BY <4>2
      <3>4. t = text
        <4>1. 0 + 1 = 1 /\ 0 + k = m - 1
          BY <3>2
        <4>. QED  BY <2>2, <3>1, <3>3, <4>1
      <3>5. DOMAIN t = 1..k
        BY <3>3, LenProperties
      <3>6. ASSUME NEW i \in 1..k PROVE t[i] = raw[i] /\ raw[i] # 0 /\ raw[i] \in Byte
        <4>1. 0 + i = i /\ i \in 1..l /\ i < m
          BY <3>1, <3>2
        <4>2. i \notin zeros
          <5>1. ~(m <= i)
            BY <4>1
          <5>. QED  BY <3>1, <5>1
        <4>3. raw[i] \in Byte
          BY <1>2, <4>1, ElementOfSeq
        <4>. QED  BY <1>2, <3>3, <4>1, <4>2, <4>3
      <3>. QED  BY <3>3, <3>4, <3>5, <3>6
    <2>. QED  BY <2>1, <2>2
  <1> HIDE DEF zeros, text
  <1>4. \A i \in 1..k : t[i] \in Byte \ (UndefinedBytes \cup {0})
    BY <1>1, <1>3 DEF ToSet
  <1>5. t \in Seq(Byte \ (UndefinedBytes \cup {0}))
    <2>1. t = [i \in 1..k |-> t[i]]
      BY <1>3
    <2>2. [i \in 1..k |-> t[i]] \in Seq(Byte \ (UndefinedBytes \cup {0}))
      BY <1>4
    <2>. QED  BY <2>1, <2>2
  <1>. QED  BY <1>1, <1>2, <1>3, <1>5

LEMMA SingleWritten ==
    ASSUME NEW t \in SingleTypes, NEW v \in SingleValues(t)
    PROVE  /\ Plain(t, v) \in Seq(Byte) /\ Single(t, Plain(t, v), TRUE) = v
           /\ ~IsRefusal(v)
  <1>1. CASE t = "BINARY"
    <2>1. PICK b \in Seq(Byte) : v = [kind |-> "bytes", bytes |-> b]
      <3>1. SingleValues(t) = [kind : {"bytes"}, bytes : Seq(Byte)]
        BY <1>1, SingleValuesAre
      <3>. QED  BY <3>1
    <2>2. Plain(t, v) = b
      BY <2>1 DEF Plain
    <2>3. Single(t, b, TRUE) = v
      BY <1>1, <2>1, SingleIs DEF Binary
    <2>4. ~IsRefusal(v)
      BY <2>1, NoRefusalKinds
    <2>. QED  BY <2>2, <2>3, <2>4
  <1>2. CASE t = "UNICODE"
    <2>1. PICK u \in Text : v = [kind |-> "str", units |-> u]
      <3>1. SingleValues(t) = [kind : {"str"}, units : Text]
        BY <1>2, SingleValuesAre
      <3>. QED  BY <3>1
    <2>2. Plain(t, v) = FlattenSeq([i \in DOMAIN u |-> ToBytes(u[i], 2)])
      BY <1>2, <2>1 DEF Plain
    <2>3. PICK raw \in Seq(Byte) :
             raw = Plain(t, v) /\ Unicode(raw) = [kind |-> "str", units |-> u]
      BY <2>2, UnicodeWritten
    <2>4. Single(t, raw, TRUE) = v
      BY <1>2, <2>1, <2>3, SingleIs
    <2>5. ~IsRefusal(v)
      BY <2>1, NoRefusalKinds
    <2>. QED  BY <2>3, <2>4, <2>5
  <1>3. CASE t = "STRING8"
    <2>1. PICK c \in Seq(Byte \ (UndefinedBytes \cup {0})) : v = [kind |-> "str", characters |-> c]
      <3>1. SingleValues(t) = [kind : {"str"}, characters : Seq(Byte \ (UndefinedBytes \cup {0}))]
        BY <1>3, SingleValuesAre
      <3>. QED  BY <3>1
    <2>2. Plain(t, v) = c
      BY <1>3, <2>1 DEF Plain
    <2>3. c \in Seq(Byte) /\ String8(c) = v
      BY <2>1, String8Written
    <2>4. Single(t, c, TRUE) = v
      BY <1>3, <2>3, SingleIs
    <2>5. ~IsRefusal(v)
      BY <2>1, NoRefusalKinds
    <2>. QED  BY <2>2, <2>3, <2>4, <2>5
  <1>. QED  BY <1>1, <1>2, <1>3 DEF SingleTypes

LEMMA SingleRead ==
    ASSUME NEW t \in SingleTypes, NEW data \in Seq(Byte), NEW cp \in BOOLEAN,
           ~IsRefusal(Single(t, data, cp))
    PROVE  LET v == Single(t, data, cp) IN v \in SingleValues(t) /\ Len(Plain(t, v)) <= Len(data)
  <1>0. Len(data) \in Nat
    BY LenProperties
  <1>1. CASE t = "BINARY"
    <2>1. Single(t, data, cp) = [kind |-> "bytes", bytes |-> data]
      BY <1>1, SingleIs DEF Binary
    <2>2. Plain(t, [kind |-> "bytes", bytes |-> data]) = data
      BY DEF Plain
    <2>3. SingleValues(t) = [kind : {"bytes"}, bytes : Seq(Byte)]
      BY <1>1, SingleValuesAre
    <2>4. [kind |-> "bytes", bytes |-> data] \in SingleValues(t)
      BY <2>3
    <2>. QED  BY <1>0, <2>1, <2>2, <2>4
  <1>2. CASE t = "UNICODE"
    <2>1. Single(t, data, cp) = Unicode(data)
      BY <1>2, SingleIs
    <2>2. PICK u \in Text : Unicode(data) = [kind |-> "str", units |-> u] /\ 2 * Len(u) <= Len(data)
      BY <2>1, UnicodeRead
    <2>3. Plain(t, [kind |-> "str", units |-> u]) = FlattenSeq([i \in DOMAIN u |-> ToBytes(u[i], 2)])
      BY <1>2 DEF Plain
    <2>4. Len(FlattenSeq([i \in DOMAIN u |-> ToBytes(u[i], 2)])) = 2 * Len(u)
      BY UnicodeWritten
    <2>. QED  BY <1>2, <2>1, <2>2, <2>3, <2>4, SingleValuesAre
  <1>3. CASE t = "STRING8"
    <2>1. Single(t, data, cp) = String8(data)
      BY <1>3, SingleIs
    <2>2. PICK c \in Seq(Byte \ (UndefinedBytes \cup {0})) :
             String8(data) = [kind |-> "str", characters |-> c] /\ Len(c) <= Len(data)
      BY <2>1, String8Read
    <2>3. Plain(t, [kind |-> "str", characters |-> c]) = c
      BY <1>3 DEF Plain
    <2>. QED  BY <1>3, <2>1, <2>2, <2>3, SingleValuesAre
  <1>. QED  BY <1>1, <1>2, <1>3 DEF SingleTypes

-----------------------------------------------------------------------------
(* A piece that lies in one of two sequences in a row.                     *)
LEMMA SliceOfFirst ==
    ASSUME NEW T, NEW s \in Seq(T), NEW r \in Seq(T), NEW a \in Nat, NEW k \in Nat, a + k <= Len(s)
    PROVE  SubSeq(s \o r, a + 1, a + k) = SubSeq(s, a + 1, a + k)
  <1>1. PICK l \in Nat, m \in Nat : l = Len(s) /\ m = Len(r)
    BY LenProperties
  <1>2. PICK w \in Seq(T) : /\ w = s \o r /\ Len(w) = l + m
                            /\ \A x \in 1..l : w[x] = s[x]
    <2>1. /\ s \o r \in Seq(T) /\ Len(s \o r) = Len(s) + Len(r)
          /\ \A x \in 1..(Len(s) + Len(r)) :
                (s \o r)[x] = IF x <= Len(s) THEN s[x] ELSE r[x - Len(s)]
      BY ConcatProperties
    <2>2. \A x \in 1..l : x \in 1..(Len(s) + Len(r)) /\ x <= Len(s)
      BY <1>1
    <2>. QED  BY <1>1, <2>1, <2>2
  <1>3. a + k <= Len(w)
    BY <1>1, <1>2
  <1>4. /\ SubSeq(s, a + 1, a + k) \in Seq(T) /\ Len(SubSeq(s, a + 1, a + k)) = k
        /\ \A j \in 1..k : SubSeq(s, a + 1, a + k)[j] = s[a + j]
    BY SliceIs
  <1>5. /\ SubSeq(w, a + 1, a + k) \in Seq(T) /\ Len(SubSeq(w, a + 1, a + k)) = k
        /\ \A j \in 1..k : SubSeq(w, a + 1, a + k)[j] = w[a + j]
    BY <1>3, SliceIs
  <1>6. \A j \in 1..k : w[a + j] = s[a + j]
    <2>1. \A j \in 1..k : a + j \in 1..l
      BY <1>1
    <2>. QED  BY <1>2, <2>1
  <1>7. PICK p \in Seq(T), q \in Seq(T) :
           /\ p = SubSeq(s, a + 1, a + k) /\ Len(p) = k /\ q = SubSeq(w, a + 1, a + k) /\ Len(q) = k
           /\ \A j \in 1..k : p[j] = q[j]
    BY <1>4, <1>5, <1>6
  <1>8. p = q
    BY <1>7, SeqEqual
  <1>. QED  BY <1>2, <1>7, <1>8

LEMMA SliceOfSecond ==
    ASSUME NEW T, NEW s \in Seq(T), NEW r \in Seq(T), NEW a \in Nat, NEW k \in Nat, a + k <= Len(r)
    PROVE  SubSeq(s \o r, Len(s) + a + 1, Len(s) + a + k) = SubSeq(r, a + 1, a + k)
  <1>1. PICK l \in Nat, m \in Nat : l = Len(s) /\ m = Len(r)
    BY LenProperties
  <1>2. PICK w \in Seq(T) : /\ w = s \o r /\ Len(w) = l + m
                            /\ \A x \in 1..m : w[l + x] = r[x]
    <2>1. /\ s \o r \in Seq(T) /\ Len(s \o r) = Len(s) + Len(r)
          /\ \A x \in 1..(Len(s) + Len(r)) :
                (s \o r)[x] = IF x <= Len(s) THEN s[x] ELSE r[x - Len(s)]
      BY ConcatProperties
    <2>2. \A x \in 1..m : l + x \in 1..(l + m) /\ ~(l + x <= l) /\ (l + x) - l = x
      BY <1>1
    <2>3. ASSUME NEW x \in 1..m PROVE (s \o r)[l + x] = r[x]
      <3>1. (s \o r)[l + x] = IF l + x <= l THEN s[l + x] ELSE r[(l + x) - l]
        BY <1>1, <2>1, <2>2
      <3>. QED  BY <2>2, <3>1
    <2>. QED  BY <1>1, <2>1, <2>3
  <1>3. PICK b \in Nat : b = l + a /\ b + k <= Len(w)
    BY <1>1, <1>2
  <1>4. /\ SubSeq(r, a + 1, a + k) \in Seq(T) /\ Len(SubSeq(r, a + 1, a + k)) = k
        /\ \A j \in 1..k : SubSeq(r, a + 1, a + k)[j] = r[a + j]
    BY SliceIs
  <1>5. /\ SubSeq(w, b + 1, b + k) \in Seq(T) /\ Len(SubSeq(w, b + 1, b + k)) = k
        /\ \A j \in 1..k : SubSeq(w, b + 1, b + k)[j] = w[b + j]
    <2>1. IsSlice(T, w, b, k)
      BY <1>3, SliceOf
    <2>. QED  BY <2>1 DEF IsSlice
  <1>6. \A j \in 1..k : w[b + j] = r[a + j]
    <2>1. \A j \in 1..k : a + j \in 1..m /\ b + j = l + (a + j)
      BY <1>1, <1>3
    <2>. QED  BY <1>2, <2>1
  <1>7. PICK p \in Seq(T), q \in Seq(T) :
           /\ p = SubSeq(r, a + 1, a + k) /\ Len(p) = k /\ q = SubSeq(w, b + 1, b + k) /\ Len(q) = k
           /\ \A j \in 1..k : p[j] = q[j]
    BY <1>4, <1>5, <1>6
  <1>8. p = q
    BY <1>7, SeqEqual
  <1>. QED  BY <1>1, <1>2, <1>3, <1>7, <1>8

-----------------------------------------------------------------------------
(* Which types there are, and which of the layouts each one has.           *)
LEMMA TypesAre ==
    /\ DOMAIN MvFixedBase = {"MV_SHORT", "MV_LONG", "MV_FLOAT", "MV_DOUBLE", "MV_CURRENCY",
                             "MV_APPTIME", "MV_LONGLONG", "MV_SYSTIME"}
    /\ DOMAIN MvVariableBase = {"MV_STRING8", "MV_UNICODE", "MV_BINARY"}
    /\ DOMAIN ScalarSizes = {"SHORT", "LONG", "ERROR", "CURRENCY", "LONGLONG", "FLOAT", "DOUBLE",
                             "APPTIME", "BOOLEAN", "SYSTIME"}
    /\ \A t \in DOMAIN MvFixedBase : MvFixedBase[t] \in DOMAIN ScalarSizes
    /\ \A t \in DOMAIN MvVariableBase : MvVariableBase[t] \in SingleTypes
  BY DEF MvFixedBase, MvVariableBase, ScalarSizes, SingleTypes

LEMMA DecodeIs ==
    ASSUME NEW t, NEW data, NEW cp
    PROVE  /\ t \in DOMAIN ScalarSizes => decode(t, data, cp) = Scalar(t, data)
           /\ t \in DOMAIN MvFixedBase => decode(t, data, cp) = MvFixed(t, data)
           /\ t \in DOMAIN MvVariableBase => decode(t, data, cp) = MvVariable(t, data, cp)
           /\ t = "NULL" => decode(t, data, cp) = IF data = <<>> THEN None ELSE BadFormat
           /\ t = "GUID" => decode(t, data, cp) = Guid(data)
           /\ t = "MV_GUID" => decode(t, data, cp) = MvGuid(data)
           /\ t = "OBJECT" => decode(t, data, cp) = Object(data)
           /\ t \in SingleTypes => decode(t, data, cp) = Single(t, data, cp)
  <1>1. /\ t \in DOMAIN MvFixedBase => t \notin DOMAIN ScalarSizes
        /\ t \in DOMAIN MvVariableBase => t \notin DOMAIN ScalarSizes \cup DOMAIN MvFixedBase
        /\ t \in {"NULL", "GUID", "MV_GUID", "OBJECT"} \cup SingleTypes =>
              t \notin DOMAIN ScalarSizes \cup DOMAIN MvFixedBase \cup DOMAIN MvVariableBase
        /\ t \in SingleTypes => t # "NULL" /\ t # "GUID" /\ t # "MV_GUID" /\ t # "OBJECT"
    BY TypesAre DEF SingleTypes
  <1>2. CASE t \in DOMAIN ScalarSizes \cup DOMAIN MvFixedBase \cup DOMAIN MvVariableBase
    BY <1>1, <1>2 DEF decode
  <1>3. CASE t \in SingleTypes
    BY <1>1, <1>3 DEF decode
  <1>4. CASE t \in {"NULL", "GUID", "MV_GUID", "OBJECT"}
    BY <1>1, <1>4 DEF decode
  <1>. QED  BY <1>1, <1>2, <1>3, <1>4

LEMMA EncodeIs ==
    ASSUME NEW t, NEW v, v.kind # "None"
    PROVE  /\ t \in DOMAIN MvFixedBase =>
                 encode(t, v) = FlattenSeq(AllPlain(MvFixedBase[t], v.items))
           /\ t \in DOMAIN MvVariableBase =>
                 encode(t, v) = WithOffsets(AllPlain(MvVariableBase[t], v.items))
           /\ t = "MV_GUID" =>
                 encode(t, v) = ToBytes(Len(v.items), CountSize) \o FlattenSeq(AllPlain("GUID", v.items))
           /\ t \in DOMAIN ScalarSizes \cup SingleTypes \cup {"GUID", "OBJECT"} =>
                 encode(t, v) = Plain(t, v)
  <1>1. /\ t \in DOMAIN MvVariableBase => t \notin DOMAIN MvFixedBase /\ t # "MV_GUID"
        /\ t = "MV_GUID" => t \notin DOMAIN MvFixedBase /\ t \notin DOMAIN MvVariableBase
        /\ t \in DOMAIN ScalarSizes \cup SingleTypes \cup {"GUID", "OBJECT"} =>
              t \notin DOMAIN MvFixedBase /\ t \notin DOMAIN MvVariableBase /\ t # "MV_GUID"
    BY TypesAre DEF SingleTypes
  <1>2. CASE t \in DOMAIN MvFixedBase
    BY <1>1, <1>2 DEF encode
  <1>3. CASE t \in DOMAIN MvVariableBase
    BY <1>1, <1>3 DEF encode
  <1>4. CASE t = "MV_GUID"
    BY <1>1, <1>4 DEF encode
  <1>5. CASE t \in DOMAIN ScalarSizes \cup SingleTypes \cup {"GUID", "OBJECT"}
    BY <1>1, <1>5 DEF encode
  <1>. QED  BY <1>1, <1>2, <1>3, <1>4, <1>5

LEMMA ValuesAre ==
    ASSUME NEW t
    PROVE  /\ t \in DOMAIN ScalarSizes => Values(t) = ScalarValues(t)
           /\ t \in DOMAIN MvFixedBase => Values(t) = Tuples(ScalarValues(MvFixedBase[t]))
           /\ t = "MV_GUID" =>
                 Values(t) = {v \in Tuples(GuidValues) : Len(v.items) < Numbers[CountSize]}
           /\ t \in DOMAIN MvVariableBase =>
                 Values(t) = {v \in Tuples(SingleValues(MvVariableBase[t])) :
                                 OffsetsFit(AllPlain(MvVariableBase[t], v.items))}
           /\ t = "NULL" => Values(t) = {None}
           /\ t = "GUID" => Values(t) = GuidValues
           /\ t = "OBJECT" => Values(t) = [kind : {"object"}, node : Handles, size : Handles]
           /\ t \in SingleTypes => Values(t) = SingleValues(t)
  <1>1. /\ t \in DOMAIN MvFixedBase => t \notin DOMAIN ScalarSizes
        /\ t = "MV_GUID" => t \notin DOMAIN ScalarSizes \cup DOMAIN MvFixedBase \cup DOMAIN MvVariableBase
        /\ t \in DOMAIN MvVariableBase =>
              t \notin DOMAIN ScalarSizes \cup DOMAIN MvFixedBase /\ t # "MV_GUID"
        /\ t \in {"NULL", "GUID", "OBJECT"} \cup SingleTypes =>
              /\ t \notin DOMAIN ScalarSizes \cup DOMAIN MvFixedBase \cup DOMAIN MvVariableBase
              /\ t # "MV_GUID"
        /\ t \in SingleTypes => t # "NULL" /\ t # "GUID" /\ t # "OBJECT"
    BY TypesAre DEF SingleTypes
  <1>2. CASE t \in DOMAIN ScalarSizes
    BY <1>1, <1>2 DEF Values
  <1>3. CASE t \in DOMAIN MvFixedBase
    BY <1>1, <1>3 DEF Values
  <1>4. CASE t = "MV_GUID"
    BY <1>1, <1>4 DEF Values
  <1>5. CASE t \in DOMAIN MvVariableBase
    BY <1>1, <1>5 DEF Values
  <1>6. CASE t \in {"NULL", "GUID", "OBJECT"}
    BY <1>1, <1>6 DEF Values
  <1>7. CASE t \in SingleTypes
    BY <1>1, <1>7 DEF Values
  <1>. QED  BY <1>1, <1>2, <1>3, <1>4, <1>5, <1>6, <1>7

(* A value of one type is written as bytes that are read as that value;    *)
(* and what is read is a value of the type.                                *)
IsWritten(t, v) ==
    encode(t, v) \in Seq(Byte) /\ decode(t, encode(t, v), TRUE) = v /\ ~IsRefusal(v)

LEMMA GuidWritten ==
    ASSUME NEW t, NEW v \in GuidValues
    PROVE  /\ Plain(t, v) \in Seq(Byte) /\ Len(Plain(t, v)) = GuidSize
           /\ Guid(Plain(t, v)) = v /\ ~IsRefusal(v) /\ v.kind = "uuid"
  <1>1. PICK b \in BytesOf(GuidSize) : v = [kind |-> "uuid", uuid |-> b]
    BY DEF GuidValues
  <1>2. b \in Seq(Byte) /\ Len(b) = GuidSize
    BY DEF BytesOf
  <1>3. Plain(t, v) = b
    BY <1>1 DEF Plain
  <1>4. Guid(b) = v
    BY <1>1, <1>2 DEF Guid
  <1>. QED  BY <1>1, <1>2, <1>3, <1>4, NoRefusalKinds

LEMMA GuidRead ==
    ASSUME NEW data \in Seq(Byte), ~IsRefusal(Guid(data))
    PROVE  Guid(data) \in GuidValues
  <1>1. Len(data) = GuidSize /\ Guid(data) = [kind |-> "uuid", uuid |-> data]
    BY BadFormatRefuses DEF Guid
  <1>2. data \in BytesOf(GuidSize)
    BY <1>1 DEF BytesOf
  <1>. QED  BY <1>1, <1>2 DEF GuidValues

LEMMA HandlesAre ==
    ASSUME NEW n
    PROVE  n \in Handles <=> n \in Nat /\ n < Numbers[4]
  <1>1. PICK m \in Nat \ {0} : m = Numbers[4]
    BY NumbersAre
  <1>. QED  BY <1>1 DEF Handles

LEMMA ObjectWritten ==
    ASSUME NEW v \in Values("OBJECT")
    PROVE  IsWritten("OBJECT", v)
  <1>1. PICK x \in Handles, y \in Handles : v = [kind |-> "object", node |-> x, size |-> y]
    <2>1. Values("OBJECT") = [kind : {"object"}, node : Handles, size : Handles]
      BY ValuesAre
    <2>2. v \in [kind : {"object"}, node : Handles, size : Handles]
      BY <2>1
    <2>3. /\ v.node \in Handles /\ v.size \in Handles
          /\ v = [kind |-> "object", node |-> v.node, size |-> v.size]
      BY <2>2
    <2>. QED  BY <2>3
  <1>2. x \in Nat /\ x < Numbers[4] /\ y \in Nat /\ y < Numbers[4]
    BY HandlesAre
  <1>3. PICK p \in Seq(Byte), q \in Seq(Byte) :
           /\ p = ToBytes(x, 4) /\ Len(p) = 4 /\ LittleEndian(p) = x
           /\ q = ToBytes(y, 4) /\ Len(q) = 4 /\ LittleEndian(q) = y
    <2>1. 4 \in Nat
      OBVIOUS
    <2>2. LittleEndian(ToBytes(x, 4)) = x /\ ToBytes(x, 4) \in Seq(Byte) /\ Len(ToBytes(x, 4)) = 4
      BY <1>2, <2>1, FitsBack
    <2>3. LittleEndian(ToBytes(y, 4)) = y /\ ToBytes(y, 4) \in Seq(Byte) /\ Len(ToBytes(y, 4)) = 4
      BY <1>2, <2>1, FitsBack
    <2>. QED  BY <2>2, <2>3
  <1>4. encode("OBJECT", v) = p \o q
    <2>1. v.kind # "None"
      BY <1>1
    <2>2. encode("OBJECT", v) = Plain("OBJECT", v)
      BY <2>1, EncodeIs
    <2>3. Plain("OBJECT", v) = ToBytes(x, 4) \o ToBytes(y, 4)
      BY <1>1 DEF Plain
    <2>. QED  BY <1>3, <2>2, <2>3
  <1>5. p \o q \in Seq(Byte) /\ Len(p \o q) = 8
    <2>1. p \o q \in Seq(Byte) /\ Len(p \o q) = Len(p) + Len(q)
      BY ConcatProperties
    <2>2. Len(p) = 4 /\ Len(q) = 4
      BY <1>3
    <2>3. Len(p) + Len(q) = 8
      BY <2>2
    <2>. QED  BY <2>1, <2>3
  <1>6. SubSeq(p \o q, 1, 4) = p
    <2>1. PICK z \in Nat, f \in Nat : z = 0 /\ f = 4 /\ z + f <= Len(p) /\ z + 1 = 1 /\ z + f = 4
      <3>0. Len(p) = 4
        BY <1>3
      <3>1. 0 \in Nat /\ 4 \in Nat /\ 0 + 1 = 1 /\ 0 + 4 = 4 /\ 0 + 4 <= Len(p)
        BY <3>0
      <3>. QED  BY <3>1
    <2>2. SubSeq(p \o q, z + 1, z + f) = SubSeq(p, z + 1, z + f)
      BY <2>1, SliceOfFirst
    <2>3. SubSeq(p, 1, 4) = p
      BY <1>3, SubSeqFull
    <2>. QED  BY <2>1, <2>2, <2>3
  <1>7. SubSeq(p \o q, 5, 8) = q
    <2>1. PICK z \in Nat, f \in Nat :
             /\ z = 0 /\ f = 4 /\ z + f <= Len(q) /\ z + 1 = 1 /\ z + f = 4
             /\ Len(p) + z + 1 = 5 /\ Len(p) + z + f = 8
      <3>0. Len(p) = 4 /\ Len(q) = 4
        BY <1>3
      <3>1. /\ 0 \in Nat /\ 4 \in Nat /\ 0 + 1 = 1 /\ 0 + 4 = 4 /\ 4 <= 4
            /\ 0 + 4 <= Len(q) /\ Len(p) + 0 + 1 = 5 /\ Len(p) + 0 + 4 = 8
        BY <3>0
      <3>. QED  BY <3>1
    <2>2. SubSeq(p \o q, Len(p) + z + 1, Len(p) + z + f) = SubSeq(q, z + 1, z + f)
      BY <2>1, SliceOfSecond
    <2>3. SubSeq(q, 1, 4) = q
      BY <1>3, SubSeqFull
    <2>. QED  BY <2>1, <2>2, <2>3
  <1>8. Object(p \o q) = v
    BY <1>1, <1>3, <1>5, <1>6, <1>7 DEF Object
  <1>9. decode("OBJECT", p \o q, TRUE) = v
    BY <1>8, DecodeIs
  <1>10. ~IsRefusal(v)
    BY <1>1, NoRefusalKinds
  <1>. QED  BY <1>4, <1>5, <1>9, <1>10 DEF IsWritten

LEMMA ObjectRead ==
    ASSUME NEW data \in Seq(Byte), ~IsRefusal(Object(data))
    PROVE  Object(data) \in Values("OBJECT")
  <1>1. Len(data) = 8
    BY BadFormatRefuses DEF Object
  <1>2. Object(data) = [kind |-> "object", node |-> LittleEndian(SubSeq(data, 1, 4)),
                        size |-> LittleEndian(SubSeq(data, 5, 8))]
    BY <1>1 DEF Object
  <1>3. ASSUME NEW a \in {0, 4} PROVE LittleEndian(SubSeq(data, a + 1, a + 4)) \in Handles
    <2>1. a \in Nat /\ 4 \in Nat /\ a + 4 <= Len(data)
      BY <1>1
    <2>2. SubSeq(data, a + 1, a + 4) \in Seq(Byte) /\ Len(SubSeq(data, a + 1, a + 4)) = 4
      BY <2>1, SliceIs
    <2>. QED  BY <2>2, LittleEndianRange, HandlesAre
  <1>4. LittleEndian(SubSeq(data, 1, 4)) \in Handles /\ LittleEndian(SubSeq(data, 5, 8)) \in Handles
    <2>1. 0 + 1 = 1 /\ 0 + 4 = 4 /\ 4 + 1 = 5 /\ 4 + 4 = 8
      OBVIOUS
    <2>. QED  BY <1>3, <2>1
  <1>5. Values("OBJECT") = [kind : {"object"}, node : Handles, size : Handles]
    BY ValuesAre
  <1>. QED  BY <1>2, <1>4, <1>5

-----------------------------------------------------------------------------
(* Several items.                                                          *)
LEMMA TuplesAre ==
    ASSUME NEW S, NEW v \in Tuples(S)
    PROVE  \E n \in Nat : /\ v = [kind |-> "tuple", items |-> v.items] /\ v.kind = "tuple"
                          /\ v.items \in Seq(S) /\ n = Len(v.items) /\ n <= MaxMvItems
                          /\ DOMAIN v.items = 1..n /\ \A i \in 1..n : v.items[i] \in S
                          /\ v.items = [i \in 1..n |-> v.items[i]]
  <1>1. PICK items \in Seq(S) : v = [kind |-> "tuple", items |-> items] /\ Len(items) <= MaxMvItems
    BY DEF Tuples
  <1>2. Len(items) \in Nat /\ DOMAIN items = 1..Len(items)
    BY LenProperties
  <1>3. \A i \in 1..Len(items) : items[i] \in S
    BY ElementOfSeq
  <1>4. items = [i \in 1..Len(items) |-> items[i]]
    BY <1>2
  <1>. QED  BY <1>1, <1>2, <1>3, <1>4

LEMMA TupleRead ==
    ASSUME NEW S, NEW n \in Nat, n <= MaxMvItems, NEW items, DOMAIN items = 1..n,
           items = [i \in 1..n |-> items[i]],
           ~IsRefusal(Tuple(items)),
           \A i \in 1..n : ~IsRefusal(items[i]) => items[i] \in S
    PROVE  /\ Tuple(items) \in Tuples(S) /\ Tuple(items) = [kind |-> "tuple", items |-> items]
           /\ items \in Seq(S) /\ Len(items) = n
  <1>1. DOMAIN items \in SUBSET Nat
    OBVIOUS
  <1>2. /\ \A i \in DOMAIN items : ~IsRefusal(items[i])
        /\ Tuple(items) = [kind |-> "tuple", items |-> items]
    BY <1>1, TupleFirst
  <1>3. \A i \in 1..n : items[i] \in S
    BY <1>2
  <1>4. [i \in 1..n |-> items[i]] \in Seq(S) /\ Len([i \in 1..n |-> items[i]]) = n
    BY <1>3
  <1>5. items \in Seq(S) /\ Len(items) = n
    BY <1>4
  <1>. QED  BY <1>2, <1>5 DEF Tuples

LEMMA TupleWhole ==
    ASSUME NEW n \in Nat, NEW items, DOMAIN items = 1..n, \A i \in 1..n : ~IsRefusal(items[i])
    PROVE  Tuple(items) = [kind |-> "tuple", items |-> items]
  <1>1. DOMAIN items \in SUBSET Nat
    OBVIOUS
  <1>2. \A i \in DOMAIN items : ~IsRefusal(items[i])
    OBVIOUS
  <1>. QED  BY <1>1, <1>2, TupleFirst, Zenon

(* Each item's bytes, of one size or not.                                  *)
LEMMA AllPlainIs ==
    ASSUME NEW t, NEW n \in Nat, NEW items, DOMAIN items = 1..n,
           \A i \in 1..n : Plain(t, items[i]) \in Seq(Byte)
    PROVE  /\ AllPlain(t, items) \in Seq(Seq(Byte)) /\ Len(AllPlain(t, items)) = n
           /\ DOMAIN AllPlain(t, items) = 1..n
           /\ \A i \in 1..n : AllPlain(t, items)[i] = Plain(t, items[i])
  <1>1. AllPlain(t, items) = [i \in 1..n |-> Plain(t, items[i])]
    BY DEF AllPlain
  <1>2. [i \in 1..n |-> Plain(t, items[i])] \in Seq(Seq(Byte))
    OBVIOUS
  <1>3. /\ Len([i \in 1..n |-> Plain(t, items[i])]) = n
        /\ DOMAIN [i \in 1..n |-> Plain(t, items[i])] = 1..n
        /\ \A j \in 1..n : [i \in 1..n |-> Plain(t, items[i])][j] = Plain(t, items[j])
    OBVIOUS
  <1>. QED  BY <1>1, <1>2, <1>3

LEMMA WithinLimit ==
    ASSUME NEW n \in Nat
    PROVE  Exceeds(n, MaxMvItems) <=> ~(n <= MaxMvItems)
  BY MvItemsAssumption DEF Exceeds

LEMMA MvFixedWritten ==
    ASSUME NEW t \in DOMAIN MvFixedBase, NEW v \in Values(t)
    PROVE  IsWritten(t, v)
  <1> DEFINE b == MvFixedBase[t]
  <1>1. PICK size \in Nat \ {0} : size = ScalarSizes[b] /\ b \in DOMAIN ScalarSizes
    BY TypesAre, SizesAre
  <1> HIDE DEF b
  <1>2. v \in Tuples(ScalarValues(b))
    BY ValuesAre DEF b
  <1>3. PICK n \in Nat : /\ v = [kind |-> "tuple", items |-> v.items] /\ v.kind = "tuple"
                         /\ n <= MaxMvItems /\ DOMAIN v.items = 1..n
                         /\ \A i \in 1..n : v.items[i] \in ScalarValues(b)
                         /\ v.items = [i \in 1..n |-> v.items[i]]
    BY <1>2, TuplesAre
  <1>4. \A i \in 1..n : /\ Plain(b, v.items[i]) \in Seq(Byte) /\ Len(Plain(b, v.items[i])) = size
                        /\ Scalar(b, Plain(b, v.items[i])) = v.items[i] /\ ~IsRefusal(v.items[i])
    BY <1>1, <1>3, ScalarWritten
  <1>5. PICK s \in Seq(Seq(Byte)) : /\ s = AllPlain(b, v.items) /\ Len(s) = n
                                    /\ \A i \in 1..n : s[i] = Plain(b, v.items[i]) /\ Len(s[i]) = size
    <2>1. /\ AllPlain(b, v.items) \in Seq(Seq(Byte)) /\ Len(AllPlain(b, v.items)) = n
          /\ \A i \in 1..n : AllPlain(b, v.items)[i] = Plain(b, v.items[i])
      <3> DEFINE items == v.items
      <3>1. DOMAIN items = 1..n /\ \A i \in 1..n : Plain(b, items[i]) \in Seq(Byte)
        BY <1>3, <1>4
      <3> HIDE DEF items
      <3>2. /\ AllPlain(b, items) \in Seq(Seq(Byte)) /\ Len(AllPlain(b, items)) = n
            /\ \A i \in 1..n : AllPlain(b, items)[i] = Plain(b, items[i])
        BY <3>1, AllPlainIs, ZenonT(60)
      <3>. QED  BY <3>2 DEF items
    <2>. QED  BY <1>4, <2>1
  <1>6. PICK raw \in Seq(Byte) :
           /\ raw = FlattenSeq(s) /\ Len(raw) = n * size
           /\ \A i \in 1..n : SubSeq(raw, (i - 1) * size + 1, i * size) = s[i]
    <2>1. \A i \in 1..Len(s) : Len(s[i]) = size
      BY <1>5
    <2>2. LET whole == FlattenSeq(s) IN
           /\ whole \in Seq(Byte) /\ Len(whole) = Len(s) * size
           /\ \A i \in 1..Len(s) : SubSeq(whole, (i - 1) * size + 1, i * size) = s[i]
      BY <2>1, EvenParts
    <2>. QED  BY <1>5, <2>2
  <1>7. Len(raw) % size = 0 /\ Len(raw) \div size = n
    <2>1. n \in Int /\ 0 \in Nat /\ 0 < size
      OBVIOUS
    <2>2. (n * size + 0) % size = 0 /\ (n * size + 0) \div size = n
      BY <2>1, Divided, Zenon
    <2>3. n * size + 0 = Len(raw)
      BY <1>6, LenProperties
    <2>. QED  BY <2>2, <2>3
  <1>8. encode(t, v) = raw
    <2>1. v.kind # "None"
      BY <1>3
    <2>2. encode(t, v) = FlattenSeq(AllPlain(MvFixedBase[t], v.items))
      BY <2>1, EncodeIs
    <2>. QED  BY <1>5, <1>6, <2>2 DEF b
  <1>9. MvFixed(t, raw) = v
    <2> DEFINE items == [i \in 1..n |-> Scalar(b, SubSeq(raw, (i - 1) * size + 1, i * size))]
    <2>1. MvFixed(t, raw) = Tuple(items)
      <3>1. ~Exceeds(n, MaxMvItems)
        BY <1>3, WithinLimit
      <3>. QED  BY <1>1, <1>7, <3>1 DEF MvFixed, b
    <2>2. \A i \in 1..n : items[i] = v.items[i]
      BY <1>4, <1>5, <1>6, ZenonT(60)
    <2>3. items = v.items
      BY <1>3, <2>2
    <2>4. Tuple(v.items) = v
      <3>1. DOMAIN v.items = 1..n /\ \A i \in 1..n : ~IsRefusal(v.items[i])
        BY <1>3, <1>4
      <3>2. Tuple(v.items) = [kind |-> "tuple", items |-> v.items]
        BY <3>1, TupleWhole, Zenon
      <3>. QED  BY <1>3, <3>2
    <2>. QED  BY <2>1, <2>3, <2>4
  <1>10. decode(t, raw, TRUE) = v
    BY <1>9, DecodeIs
  <1>11. ~IsRefusal(v)
    BY <1>3, NoRefusalKinds
  <1>. QED  BY <1>8, <1>10, <1>11 DEF IsWritten

LEMMA MvFixedRead ==
    ASSUME NEW t \in DOMAIN MvFixedBase, NEW data \in Seq(Byte), ~IsRefusal(MvFixed(t, data))
    PROVE  MvFixed(t, data) \in Values(t)
  <1> DEFINE b == MvFixedBase[t]
  <1>1. PICK size \in Nat \ {0} : size = ScalarSizes[b] /\ b \in DOMAIN ScalarSizes
    BY TypesAre, SizesAre
  <1>2. PICK l \in Nat : l = Len(data)
    BY LenProperties
  <1>3. PICK n \in Nat : n = l \div size
    BY DivisionOfNat
  <1> DEFINE items == [i \in 1..n |-> Scalar(b, SubSeq(data, (i - 1) * size + 1, i * size))]
  <1>4. /\ l % size = 0 /\ ~Exceeds(n, MaxMvItems)
        /\ MvFixed(t, data) = Tuple(items)
    <2>1. MvFixed(t, data) =
             IF l % size # 0 THEN BadFormat
             ELSE IF Exceeds(n, MaxMvItems) THEN Refused("PstLimitError") ELSE Tuple(items)
      BY <1>1, <1>2, <1>3 DEF MvFixed
    <2>2. IsRefusal(Refused("PstLimitError"))
      BY DEF IsRefusal, Refused, Refusals
    <2>. QED  BY <2>1, <2>2, BadFormatRefuses
  <1> HIDE DEF b
  <1>5. l = n * size
    <2>1. l = (l \div size) * size + (l % size)
      BY Division
    <2>2. PICK x \in Nat : x = n * size
      <3>1. n * size \in Nat
        OBVIOUS
      <3>. QED  BY <3>1
    <2>3. l = x + 0
      BY <1>3, <1>4, <2>1, <2>2
    <2>. QED  BY <2>2, <2>3
  <1>6. ASSUME NEW i \in 1..n PROVE SubSeq(data, (i - 1) * size + 1, i * size) \in Seq(Byte)
    <2>1. PICK a \in Nat : a = (i - 1) * size /\ i * size = a + size /\ a + size <= l
      <3>1. PICK k \in Nat, r \in Nat : i = k + 1 /\ n = (k + 1) + r
        <4>1. i - 1 \in Nat /\ n - i \in Nat /\ i = (i - 1) + 1 /\ n = ((i - 1) + 1) + (n - i)
          OBVIOUS
        <4>. QED  BY <4>1
      <3>2. PICK a \in Nat, c \in Nat : a = k * size /\ c = r * size
        <4>1. k * size \in Nat /\ r * size \in Nat
          OBVIOUS
        <4>. QED  BY <4>1
      <3>3. i - 1 = k /\ i * size = a + size /\ n * size = (a + size) + c
        BY <3>1, <3>2
      <3>. QED  BY <1>5, <3>2, <3>3
    <2>. QED  BY <1>2, <2>1, SliceIs
  <1>7. \A i \in 1..n : ~IsRefusal(items[i]) => items[i] \in ScalarValues(b)
    <2> SUFFICES ASSUME NEW i \in 1..n, ~IsRefusal(items[i]) PROVE items[i] \in ScalarValues(b)
      OBVIOUS
    <2>1. items[i] = Scalar(b, SubSeq(data, (i - 1) * size + 1, i * size))
      OBVIOUS
    <2>. QED  BY <1>1, <1>6, <2>1, ScalarRead
  <1>8. n <= MaxMvItems
    BY <1>4, WithinLimit
  <1>9. DOMAIN items = 1..n /\ items = [i \in 1..n |-> items[i]]
    OBVIOUS
  <1> HIDE DEF items
  <1>10. ~IsRefusal(Tuple(items))
    BY <1>4
  <1>11. Tuple(items) \in Tuples(ScalarValues(b))
    BY <1>7, <1>8, <1>9, <1>10, TupleRead
  <1>. QED  BY <1>4, <1>11, ValuesAre DEF b

(* A count in four bytes before what is counted.                           *)
LEMMA CountedIs ==
    ASSUME NEW n \in Nat, n < Numbers[4], NEW rest \in Seq(Byte)
    PROVE  LET raw == ToBytes(n, CountSize) \o rest IN
           /\ raw \in Seq(Byte) /\ Len(raw) = 4 + Len(rest) /\ ItemCount(raw) = n
           /\ \A a \in Nat, k \in Nat :
                 a + k <= Len(rest) => SubSeq(raw, 4 + a + 1, 4 + a + k) = SubSeq(rest, a + 1, a + k)
  <1>1. PICK p \in Seq(Byte) : p = ToBytes(n, CountSize) /\ Len(p) = 4 /\ LittleEndian(p) = n
    <2>1. 4 \in Nat
      OBVIOUS
    <2>2. LittleEndian(ToBytes(n, 4)) = n /\ ToBytes(n, 4) \in Seq(Byte) /\ Len(ToBytes(n, 4)) = 4
      BY <2>1, FitsBack
    <2>. QED  BY <2>2 DEF CountSize
  <1>2. PICK raw \in Seq(Byte) : raw = p \o rest /\ Len(raw) = 4 + Len(rest)
    <2>1. p \o rest \in Seq(Byte) /\ Len(p \o rest) = Len(p) + Len(rest)
      BY ConcatProperties
    <2>2. Len(p) = 4
      BY <1>1
    <2>. QED  BY <2>1, <2>2
  <1>3. ItemCount(raw) = n
    <2>0. Len(p) = 4
      BY <1>1
    <2>1. PICK z \in Nat, f \in Nat : z = 0 /\ f = 4 /\ z + f <= Len(p) /\ z + 1 = 1 /\ z + f = 4
      <3>1. 0 \in Nat /\ 4 \in Nat /\ 0 + 1 = 1 /\ 0 + 4 = 4 /\ 0 + 4 <= Len(p)
        BY <2>0
      <3>. QED  BY <3>1
    <2>2. SubSeq(p \o rest, z + 1, z + f) = SubSeq(p, z + 1, z + f)
      BY <2>1, SliceOfFirst
    <2>3. SubSeq(p, 1, 4) = p
      BY <2>0, SubSeqFull
    <2>4. SubSeq(raw, 1, 4) = p
      BY <1>2, <2>1, <2>2, <2>3
    <2>. QED  BY <1>1, <2>4 DEF ItemCount, CountSize
  <1>4. ASSUME NEW a \in Nat, NEW k \in Nat, a + k <= Len(rest)
        PROVE  SubSeq(raw, 4 + a + 1, 4 + a + k) = SubSeq(rest, a + 1, a + k)
    <2>1. SubSeq(p \o rest, Len(p) + a + 1, Len(p) + a + k) = SubSeq(rest, a + 1, a + k)
      BY <1>4, SliceOfSecond
    <2>2. Len(p) = 4
      BY <1>1
    <2>. QED  BY <1>2, <2>1, <2>2
  <1>5. raw = ToBytes(n, CountSize) \o rest
    BY <1>1, <1>2
  <1>. QED  BY <1>2, <1>3, <1>4, <1>5

LEMMA CountRead ==
    ASSUME NEW data \in Seq(Byte), CountSize <= Len(data)
    PROVE  ItemCount(data) \in Nat /\ ItemCount(data) < Numbers[CountSize]
  <1>1. PICK z \in Nat, f \in Nat : z = 0 /\ f = 4 /\ z + f <= Len(data) /\ z + 1 = 1 /\ z + f = 4
    <2>1. 0 \in Nat /\ 4 \in Nat /\ 0 + 1 = 1 /\ 0 + 4 = 4 /\ 0 + 4 <= Len(data)
      BY DEF CountSize
    <2>. QED  BY <2>1
  <1>2. SubSeq(data, z + 1, z + f) \in Seq(Byte) /\ Len(SubSeq(data, z + 1, z + f)) = f
    BY <1>1, SliceIs
  <1>3. SubSeq(data, 1, 4) \in Seq(Byte) /\ Len(SubSeq(data, 1, 4)) = 4
    BY <1>1, <1>2
  <1>. QED  BY <1>3, LittleEndianRange DEF ItemCount, CountSize

LEMMA MvGuidWritten ==
    ASSUME NEW v \in Values("MV_GUID")
    PROVE  IsWritten("MV_GUID", v)
  <1>1. v \in Tuples(GuidValues) /\ Len(v.items) < Numbers[4]
    <2>1. Values("MV_GUID") = {w \in Tuples(GuidValues) : Len(w.items) < Numbers[CountSize]}
      BY ValuesAre
    <2>. QED  BY <2>1 DEF CountSize
  <1>2. PICK n \in Nat : /\ v = [kind |-> "tuple", items |-> v.items] /\ v.kind = "tuple"
                         /\ n = Len(v.items) /\ n <= MaxMvItems /\ DOMAIN v.items = 1..n
                         /\ \A i \in 1..n : v.items[i] \in GuidValues
                         /\ v.items = [i \in 1..n |-> v.items[i]]
    BY <1>1, TuplesAre
  <1> DEFINE given == v.items
  <1>3. /\ n < Numbers[4] /\ DOMAIN given = 1..n /\ given = [i \in 1..n |-> given[i]]
        /\ \A i \in 1..n : given[i] \in GuidValues
        /\ v = [kind |-> "tuple", items |-> given]
    BY <1>1, <1>2
  <1> HIDE DEF given
  <1>4. \A i \in 1..n : /\ Plain("GUID", given[i]) \in Seq(Byte) /\ Len(Plain("GUID", given[i])) = 16
                        /\ Guid(Plain("GUID", given[i])) = given[i] /\ ~IsRefusal(given[i])
    BY <1>3, GuidWritten DEF GuidSize
  <1>5. PICK s \in Seq(Seq(Byte)) : /\ s = AllPlain("GUID", given) /\ Len(s) = n
                                    /\ \A i \in 1..n : s[i] = Plain("GUID", given[i]) /\ Len(s[i]) = 16
    <2>1. \A i \in 1..n : Plain("GUID", given[i]) \in Seq(Byte)
      BY <1>4
    <2>2. /\ AllPlain("GUID", given) \in Seq(Seq(Byte)) /\ Len(AllPlain("GUID", given)) = n
          /\ \A i \in 1..n : AllPlain("GUID", given)[i] = Plain("GUID", given[i])
      BY <1>3, <2>1, AllPlainIs
    <2>. QED  BY <1>4, <2>2
  <1>6. PICK rest \in Seq(Byte) :
           /\ rest = FlattenSeq(s) /\ Len(rest) = n * 16
           /\ \A i \in 1..n : /\ (i - 1) * 16 \in Nat /\ i * 16 = (i - 1) * 16 + 16
                              /\ i * 16 <= Len(rest)
                              /\ SubSeq(rest, (i - 1) * 16 + 1, i * 16) = s[i]
    <2>1. PICK g \in Nat : g = 16
      OBVIOUS
    <2>2. \A i \in 1..Len(s) : Len(s[i]) = g
      BY <1>5, <2>1
    <2>3. LET whole == FlattenSeq(s) IN
           /\ whole \in Seq(Byte) /\ Len(whole) = Len(s) * g
           /\ \A i \in 1..Len(s) : SubSeq(whole, (i - 1) * g + 1, i * g) = s[i]
      BY <2>2, EvenParts
    <2>4. \A i \in 1..n : /\ (i - 1) * 16 \in Nat /\ i * 16 = (i - 1) * 16 + 16
                          /\ i * 16 <= n * 16
      OBVIOUS
    <2>. QED  BY <1>5, <2>1, <2>3, <2>4
  <1>7. PICK raw \in Seq(Byte) :
           /\ raw = ToBytes(n, CountSize) \o rest /\ Len(raw) = 4 + Len(rest) /\ ItemCount(raw) = n
           /\ \A a \in Nat, k \in Nat :
                 a + k <= Len(rest) => SubSeq(raw, 4 + a + 1, 4 + a + k) = SubSeq(rest, a + 1, a + k)
    BY <1>3, CountedIs
  <1>8. encode("MV_GUID", v) = raw
    <2>1. v.kind # "None"
      BY <1>2
    <2>2. encode("MV_GUID", v) = ToBytes(Len(v.items), CountSize) \o FlattenSeq(AllPlain("GUID", v.items))
      BY <2>1, EncodeIs
    <2>. QED  BY <1>2, <1>5, <1>6, <1>7, <2>2 DEF given
  <1>9. MvGuid(raw) = v
    <2> DEFINE items == [i \in 1..n |->
                            Guid(SubSeq(raw, CountSize + (i - 1) * GuidSize + 1, CountSize + i * GuidSize))]
    <2>1. ~(Len(raw) < CountSize) /\ Len(raw) = CountSize + GuidSize * n
      <3>1. PICK l \in Nat, m \in Nat : l = Len(raw) /\ m = Len(rest) /\ l = 4 + m /\ m = n * 16
        BY <1>6, <1>7, LenProperties
      <3>2. ~(l < 4) /\ l = 4 + 16 * n
        BY <3>1
      <3>. QED  BY <3>1, <3>2 DEF CountSize, GuidSize
    <2>2. MvGuid(raw) = Tuple(items)
      <3>1. ~Exceeds(n, MaxMvItems)
        BY <1>2, WithinLimit
      <3>. QED  BY <1>7, <2>1, <3>1 DEF MvGuid
    <2>3. ASSUME NEW i \in 1..n PROVE items[i] = given[i]
      <3>1. PICK a \in Nat : /\ a = (i - 1) * 16 /\ i * 16 = a + 16 /\ a + 16 <= Len(rest)
                             /\ SubSeq(rest, a + 1, a + 16) = s[i]
        BY <1>6
      <3>2. SubSeq(raw, 4 + a + 1, 4 + a + 16) = s[i]
        <4>1. 16 \in Nat
          OBVIOUS
        <4>2. SubSeq(raw, 4 + a + 1, 4 + a + 16) = SubSeq(rest, a + 1, a + 16)
          BY <1>7, <3>1, <4>1
        <4>. QED  BY <3>1, <4>2
      <3>3. SubSeq(raw, CountSize + (i - 1) * GuidSize + 1, CountSize + i * GuidSize) = s[i]
        <4>1. 4 + a + 16 = 4 + (a + 16)
          OBVIOUS
        <4>. QED  BY <3>1, <3>2, <4>1 DEF CountSize, GuidSize
      <3>4. items[i] = Guid(s[i])
        BY <3>3
      <3>. QED  BY <1>4, <1>5, <3>4
    <2>4. items = given
      BY <1>3, <2>3
    <2>5. \A i \in 1..n : ~IsRefusal(given[i])
      BY <1>4
    <2>6. Tuple(given) = [kind |-> "tuple", items |-> given]
      BY <1>3, <2>5, TupleWhole
    <2>. QED  BY <1>3, <2>2, <2>4, <2>6
  <1>10. decode("MV_GUID", raw, TRUE) = v
    BY <1>9, DecodeIs
  <1>11. ~IsRefusal(v)
    BY <1>2, NoRefusalKinds
  <1>. QED  BY <1>8, <1>10, <1>11 DEF IsWritten

LEMMA MvGuidRead ==
    ASSUME NEW data \in Seq(Byte), ~IsRefusal(MvGuid(data))
    PROVE  MvGuid(data) \in Values("MV_GUID")
  <1> DEFINE n == ItemCount(data)
             items == [i \in 1..n |->
                          Guid(SubSeq(data, CountSize + (i - 1) * GuidSize + 1, CountSize + i * GuidSize))]
  <1>0. IsRefusal(Refused("PstLimitError"))
    BY DEF IsRefusal, Refused, Refusals
  <1>1. /\ ~(Len(data) < CountSize) /\ ~Exceeds(n, MaxMvItems) /\ Len(data) = CountSize + GuidSize * n
        /\ MvGuid(data) = Tuple(items)
    BY <1>0, BadFormatRefuses DEF MvGuid
  <1>2. PICK l \in Nat : l = Len(data) /\ CountSize <= l
    <2>1. PICK l \in Nat : l = Len(data) /\ ~(l < 4)
      BY <1>1, LenProperties DEF CountSize
    <2>. QED  BY <2>1 DEF CountSize
  <1>3. n \in Nat /\ n < Numbers[CountSize]
    BY <1>2, CountRead
  <1> HIDE DEF n
  <1>4. ASSUME NEW i \in 1..n
        PROVE  SubSeq(data, CountSize + (i - 1) * GuidSize + 1, CountSize + i * GuidSize) \in Seq(Byte)
    <2>1. PICK m \in Nat : m = n /\ i \in 1..m /\ l = 4 + 16 * m
      BY <1>1, <1>2, <1>3 DEF CountSize, GuidSize
    <2>2. PICK a \in Nat : a = 4 + (i - 1) * 16 /\ 4 + i * 16 = a + 16 /\ a + 16 <= l
      <3>1. 4 + (i - 1) * 16 \in Nat /\ 4 + i * 16 = (4 + (i - 1) * 16) + 16
            /\ (4 + (i - 1) * 16) + 16 <= l
        BY <2>1
      <3>. QED  BY <3>1
    <2>3. 16 \in Nat /\ a + 16 <= Len(data)
      BY <1>2, <2>2
    <2>4. SubSeq(data, a + 1, a + 16) \in Seq(Byte)
      BY <2>3, SliceIs
    <2>. QED  BY <2>2, <2>4 DEF CountSize, GuidSize
  <1>5. \A i \in 1..n : ~IsRefusal(items[i]) => items[i] \in GuidValues
    <2> SUFFICES ASSUME NEW i \in 1..n, ~IsRefusal(items[i]) PROVE items[i] \in GuidValues
      OBVIOUS
    <2>. QED  BY <1>4, GuidRead
  <1>6. n <= MaxMvItems
    BY <1>1, <1>3, WithinLimit
  <1>7. DOMAIN items = 1..n /\ items = [i \in 1..n |-> items[i]]
    OBVIOUS
  <1> HIDE DEF items
  <1>8. ~IsRefusal(Tuple(items))
    BY <1>1
  <1>9. /\ Tuple(items) \in Tuples(GuidValues) /\ Tuple(items) = [kind |-> "tuple", items |-> items]
        /\ Len(items) = n
    BY <1>3, <1>5, <1>6, <1>7, <1>8, TupleRead
  <1>10. Values("MV_GUID") = {w \in Tuples(GuidValues) : Len(w.items) < Numbers[CountSize]}
    BY ValuesAre
  <1>11. Len(Tuple(items).items) < Numbers[CountSize]
    BY <1>3, <1>9
  <1>. QED  BY <1>1, <1>9, <1>10, <1>11

(* How much there is before each part, and where its bytes start.          *)
LEMMA SumsAre ==
    ASSUME NEW p \in Seq(Seq(Byte))
    PROVE  \E off : /\ Offsets(p, off)
                    /\ \A i \in 1..Len(p) : OffsetOf(p, i) = 4 * (Len(p) + 1) + off[i]
  <1>1. PICK n \in Nat : n = Len(p) /\ DOMAIN p = 1..n
    BY LenProperties
  <1>2. \A i \in 1..n : p[i] \in Seq(Byte) /\ Len(p[i]) \in Nat
    BY <1>1, ElementOfSeq, LenProperties
  <1> DEFINE Lens(k) == [j \in 1..k |-> Len(p[j])]
             off == [i \in 1..(n + 1) |-> SumFunction(Lens(i - 1))]
  <1>3. ASSUME NEW k \in 0..n PROVE Lens(k) \in Seq(Nat) /\ Len(Lens(k)) = k /\ SumFunction(Lens(k)) \in Nat
    <2>1. k \in Nat /\ \A j \in 1..k : Len(p[j]) \in Nat
      BY <1>2
    <2>2. Lens(k) \in Seq(Nat) /\ Len(Lens(k)) = k
      BY <2>1
    <2> HIDE DEF Lens
    <2>3. 0 \in Nat
      OBVIOUS
    <2>. QED  BY <2>2, <2>3, TotalAppend
  <1>4. ASSUME NEW k \in 0..(n - 1)
        PROVE  SumFunction(Lens(k + 1)) = SumFunction(Lens(k)) + Len(p[k + 1])
    <2>1. k \in 0..n /\ k + 1 \in 0..n /\ k + 1 \in 1..n
      OBVIOUS
    <2>2. PICK s \in Seq(Nat), t \in Seq(Nat), x \in Nat :
             /\ s = Lens(k) /\ Len(s) = k /\ t = Lens(k + 1) /\ Len(t) = k + 1 /\ x = Len(p[k + 1])
             /\ (\A j \in 1..k : s[j] = Len(p[j])) /\ \A j \in 1..(k + 1) : t[j] = Len(p[j])
      <3>1. Lens(k) \in Seq(Nat) /\ Len(Lens(k)) = k /\ Lens(k + 1) \in Seq(Nat) /\ Len(Lens(k + 1)) = k + 1
        BY <1>3, <2>1
      <3>2. (\A j \in 1..k : Lens(k)[j] = Len(p[j])) /\ \A j \in 1..(k + 1) : Lens(k + 1)[j] = Len(p[j])
        OBVIOUS
      <3> HIDE DEF Lens
      <3>3. Len(p[k + 1]) \in Nat
        BY <1>2, <2>1
      <3>. QED  BY <3>1, <3>2, <3>3
    <2> HIDE DEF Lens
    <2>3. PICK u \in Seq(Nat) : /\ u = Append(s, x) /\ Len(u) = k + 1 /\ u[k + 1] = x
                                /\ \A j \in 1..k : u[j] = s[j]
      <3>1. /\ Append(s, x) \in Seq(Nat) /\ Len(Append(s, x)) = Len(s) + 1
            /\ Append(s, x)[Len(s) + 1] = x /\ \A j \in 1..Len(s) : Append(s, x)[j] = s[j]
        BY AppendIs
      <3>2. Len(s) = k
        BY <2>2
      <3>. QED  BY <3>1, <3>2
    <2>4. \A j \in 1..(k + 1) : u[j] = t[j]
      <3>1. ASSUME NEW j \in 1..k PROVE u[j] = t[j]
        <4>1. j \in 1..(k + 1)
          OBVIOUS
        <4>. QED  BY <2>2, <2>3, <4>1
      <3>2. u[k + 1] = t[k + 1]
        <4>1. k + 1 \in 1..(k + 1)
          OBVIOUS
        <4>. QED  BY <2>2, <2>3, <4>1
      <3>3. \A j \in 1..(k + 1) : j \in 1..k \/ j = k + 1
        OBVIOUS
      <3>. QED  BY <3>1, <3>2, <3>3
    <2>5. u = t
      BY <2>2, <2>3, <2>4, SeqEqual
    <2>6. SumFunction(Append(s, x)) = SumFunction(s) + x
      BY TotalAppend
    <2>. QED  BY <2>2, <2>3, <2>5, <2>6
  <1>5. SumFunction(Lens(0)) = 0
    <2>1. Lens(0) = <<>>
      OBVIOUS
    <2>. QED  BY <2>1, TotalEmpty
  <1>6. off \in [1..(n + 1) -> Nat]
    <2>1. \A i \in 1..(n + 1) : i - 1 \in 0..n
      OBVIOUS
    <2> HIDE DEF Lens
    <2>. QED  BY <1>3, <2>1
  <1>7. off[1] = 0
    <2>1. 1 \in 1..(n + 1) /\ 1 - 1 = 0
      OBVIOUS
    <2> HIDE DEF Lens
    <2>. QED  BY <1>5, <2>1
  <1>8. ASSUME NEW i \in 1..n PROVE off[i + 1] = off[i] + Len(p[i])
    <2>1. i - 1 \in 0..(n - 1) /\ (i - 1) + 1 = i /\ (i + 1) - 1 = i
          /\ i \in 1..(n + 1) /\ i + 1 \in 1..(n + 1)
      OBVIOUS
    <2> HIDE DEF Lens
    <2>2. off[i] = SumFunction(Lens(i - 1)) /\ off[i + 1] = SumFunction(Lens(i))
      BY <2>1
    <2>3. SumFunction(Lens((i - 1) + 1)) = SumFunction(Lens(i - 1)) + Len(p[(i - 1) + 1])
      BY <1>4, <2>1
    <2>. QED  BY <2>1, <2>2, <2>3
  <1>9. ASSUME NEW i \in 1..n PROVE OffsetOf(p, i) = 4 * (n + 1) + off[i]
    <2>1. i \in 1..(n + 1)
      OBVIOUS
    <2>. QED  BY <1>1, <2>1 DEF OffsetOf, CountSize
  <1> HIDE DEF off
  <1>. QED  BY <1>1, <1>6, <1>7, <1>8, <1>9 DEF Offsets

(* A table of offsets and the parts it points at are cut where they were   *)
(* put together.                                                           *)
LEMMA SlicesWritten ==
    ASSUME NEW p \in Seq(Seq(Byte)), OffsetsFit(p), Len(p) <= MaxMvItems
    PROVE  /\ WithOffsets(p) \in Seq(Byte)
           /\ Slices(WithOffsets(p)) = [kind |-> "slices", slices |-> p]
  <1>1. PICK n \in Nat : n = Len(p) /\ DOMAIN p = 1..n /\ p = [i \in 1..n |-> p[i]]
    BY LenProperties
  <1>2. PICK off : /\ Offsets(p, off)
                   /\ \A i \in 1..n : OffsetOf(p, i) = 4 * (n + 1) + off[i]
    BY <1>1, SumsAre
  <1>3. PICK end \in Seq(Byte) :
           /\ end = FlattenSeq(p) /\ Len(end) = off[n + 1]
           /\ \A i \in 1..n :
                 /\ p[i] \in Seq(Byte) /\ off[i] \in Nat /\ off[i + 1] \in Nat
                 /\ off[i + 1] = off[i] + Len(p[i]) /\ off[i + 1] <= Len(end)
                 /\ SubSeq(end, off[i] + 1, off[i + 1]) = p[i]
    <2>1. LET whole == FlattenSeq(p) IN
           /\ whole \in Seq(Byte) /\ Len(whole) = off[Len(p) + 1]
           /\ \A i \in 1..Len(p) :
                 /\ p[i] \in Seq(Byte) /\ off[i] \in Nat /\ off[i + 1] \in Nat
                 /\ off[i + 1] = off[i] + Len(p[i]) /\ off[i + 1] <= Len(whole)
                 /\ SubSeq(whole, off[i] + 1, off[i + 1]) = p[i]
      <3>1. LieWithin(Byte, FlattenSeq(p), p, off)
        BY <1>2, PartsLie
      <3>. QED  BY <3>1 DEF LieWithin
    <2>. QED  BY <1>1, <2>1
  <1> DEFINE table == [i \in DOMAIN p |-> ToBytes(OffsetOf(p, i), CountSize)]
  <1>4. \A i \in 1..n : /\ OffsetOf(p, i) \in Nat /\ OffsetOf(p, i) < Numbers[4]
                        /\ OffsetOf(p, i) = 4 * (n + 1) + off[i]
    <2> SUFFICES ASSUME NEW i \in 1..n
                 PROVE  OffsetOf(p, i) \in Nat /\ OffsetOf(p, i) < Numbers[4]
      BY <1>2
    <2>1. PICK o \in Nat : o = off[i]
      BY <1>3
    <2>2. OffsetOf(p, i) \in Nat
      <3>1. 4 * (n + 1) + o \in Nat
        OBVIOUS
      <3>. QED  BY <1>2, <2>1, <3>1
    <2>3. OffsetOf(p, i) < Numbers[4]
      BY <1>1 DEF OffsetsFit, CountSize
    <2>. QED  BY <2>2, <2>3
  <1>5. PICK s \in Seq(Seq(Byte)) :
           /\ s = table /\ Len(s) = n
           /\ \A i \in 1..n : Len(s[i]) = 4 /\ LittleEndian(s[i]) = 4 * (n + 1) + off[i]
    <2>1. 4 \in Nat
      OBVIOUS
    <2>2. \A i \in 1..n : /\ ToBytes(OffsetOf(p, i), 4) \in Seq(Byte)
                          /\ Len(ToBytes(OffsetOf(p, i), 4)) = 4
                          /\ LittleEndian(ToBytes(OffsetOf(p, i), 4)) = OffsetOf(p, i)
      BY <1>4, <2>1, FitsBack
    <2>3. table = [i \in 1..n |-> ToBytes(OffsetOf(p, i), 4)]
      BY <1>1 DEF CountSize
    <2>4. [i \in 1..n |-> ToBytes(OffsetOf(p, i), 4)] \in Seq(Seq(Byte))
      BY <2>2
    <2>5. /\ Len([i \in 1..n |-> ToBytes(OffsetOf(p, i), 4)]) = n
          /\ \A j \in 1..n : [i \in 1..n |-> ToBytes(OffsetOf(p, i), 4)][j] = ToBytes(OffsetOf(p, j), 4)
      OBVIOUS
    <2>6. /\ table \in Seq(Seq(Byte)) /\ Len(table) = n
          /\ \A j \in 1..n : table[j] = ToBytes(OffsetOf(p, j), 4)
      BY <2>3, <2>4, <2>5
    <2> HIDE DEF table
    <2>7. \A i \in 1..n : Len(table[i]) = 4 /\ LittleEndian(table[i]) = 4 * (n + 1) + off[i]
      BY <1>4, <2>2, <2>6
    <2>. QED  BY <2>6, <2>7
  <1> HIDE DEF table
  <1>6. PICK middle \in Seq(Byte) :
           /\ middle = FlattenSeq(s) /\ Len(middle) = n * 4
           /\ \A i \in 1..n : SubSeq(middle, (i - 1) * 4 + 1, i * 4) = s[i]
    <2>1. PICK g \in Nat : g = 4
      OBVIOUS
    <2>2. \A i \in 1..Len(s) : Len(s[i]) = g
      BY <1>5, <2>1
    <2>3. LET whole == FlattenSeq(s) IN
           /\ whole \in Seq(Byte) /\ Len(whole) = Len(s) * g
           /\ \A i \in 1..Len(s) : SubSeq(whole, (i - 1) * g + 1, i * g) = s[i]
      BY <2>2, EvenParts
    <2>. QED  BY <1>5, <2>1, <2>3
  <1>7. n < Numbers[4]
    <2>1. CASE n = 0
      <3>1. PICK top \in Nat \ {0} : top = Numbers[4]
        BY NumbersAre
      <3>. QED  BY <2>1, <3>1
    <2>2. CASE n # 0
      <3>1. PICK top \in Nat : top = Numbers[4]
        BY NumbersAre
      <3>2. PICK o \in Nat : o = off[1] /\ 4 * (n + 1) + o < top
        <4>1. 1 \in 1..n
          BY <2>2
        <4>. QED  BY <1>3, <1>4, <3>1, <4>1
      <3>3. n < top
        BY <3>2
      <3>. QED  BY <3>1, <3>3
    <2>. QED  BY <2>1, <2>2
  <1>8. PICK rest \in Seq(Byte) :
           /\ rest = middle \o end /\ Len(rest) = n * 4 + Len(end)
    <2>1. middle \o end \in Seq(Byte) /\ Len(middle \o end) = Len(middle) + Len(end)
      BY ConcatProperties
    <2>2. Len(middle) = n * 4
      BY <1>6
    <2>. QED  BY <2>1, <2>2
  <1>9. PICK raw \in Seq(Byte) :
           /\ raw = ToBytes(n, CountSize) \o rest /\ Len(raw) = 4 + Len(rest) /\ ItemCount(raw) = n
           /\ \A a \in Nat, k \in Nat :
                 a + k <= Len(rest) => SubSeq(raw, 4 + a + 1, 4 + a + k) = SubSeq(rest, a + 1, a + k)
    BY <1>7, CountedIs, ZenonT(60)
  <1>10. WithOffsets(p) = raw
    <2>1. ToBytes(n, CountSize) \in Seq(Byte)
      <3>1. 4 \in Nat
        OBVIOUS
      <3>. QED  BY <3>1, ToBytesType DEF CountSize
    <2>2. WithOffsets(p) = (ToBytes(n, CountSize) \o middle) \o end
      BY <1>1, <1>3, <1>5, <1>6 DEF WithOffsets, table
    <2>3. (ToBytes(n, CountSize) \o middle) \o end = ToBytes(n, CountSize) \o (middle \o end)
      BY <2>1, ConcatAssociative, SMTT(30)
    <2>. QED  BY <1>8, <1>9, <2>2, <2>3
  <1>11. PICK m \in Nat : m = Len(end) /\ Len(rest) = n * 4 + m /\ Len(raw) = 4 * (n + 1) + m
    <2>1. PICK m \in Nat, r \in Nat : m = Len(end) /\ r = Len(rest) /\ r = n * 4 + m /\ Len(raw) = 4 + r
      BY <1>8, <1>9, LenProperties
    <2>2. 4 + r = 4 * (n + 1) + m
      BY <2>1
    <2>. QED  BY <2>1, <2>2
  <1>12. ASSUME NEW i \in 1..n PROVE OffsetAt(raw, i) = 4 * (n + 1) + off[i]
    <2>1. PICK a \in Nat, g \in Nat :
             /\ g = 4 /\ a = (i - 1) * 4 /\ a + g = i * 4 /\ a + g <= n * 4
             /\ 4 + a + 1 = 4 * i + 1 /\ 4 + a + g = 4 * (i + 1)
      <3>1. /\ 4 \in Nat /\ (i - 1) * 4 \in Nat /\ (i - 1) * 4 + 4 = i * 4 /\ (i - 1) * 4 + 4 <= n * 4
            /\ 4 + (i - 1) * 4 + 1 = 4 * i + 1 /\ 4 + (i - 1) * 4 + 4 = 4 * (i + 1)
        OBVIOUS
      <3>. QED  BY <3>1
    <2>2. a + g <= Len(middle) /\ a + g <= Len(rest)
      <3>1. a + g <= n * 4 + m
        BY <2>1
      <3>. QED  BY <1>6, <1>11, <2>1, <3>1
    <2>3. SubSeq(raw, 4 + a + 1, 4 + a + g) = SubSeq(rest, a + 1, a + g)
      BY <1>9, <2>2
    <2>4. SubSeq(middle \o end, a + 1, a + g) = SubSeq(middle, a + 1, a + g)
      BY <2>2, SliceOfFirst
    <2>5. SubSeq(middle, a + 1, a + g) = s[i]
      BY <1>6, <2>1
    <2>6. SubSeq(raw, 4 * i + 1, 4 * (i + 1)) = s[i]
      BY <1>8, <2>1, <2>3, <2>4, <2>5
    <2>. QED  BY <1>5, <2>6 DEF OffsetAt, CountSize
  <1> DEFINE End(i) == IF i < n THEN OffsetAt(raw, i + 1) ELSE Len(raw)
  <1>13. ASSUME NEW i \in 1..n PROVE End(i) = 4 * (n + 1) + off[i + 1]
    <2>1. CASE i < n
      <3>1. i + 1 \in 1..n
        BY <2>1
      <3>. QED  BY <1>12, <2>1, <3>1
    <2>2. CASE ~(i < n)
      <3>1. i = n
        BY <2>2
      <3>. QED  BY <1>3, <1>11, <2>2, <3>1
    <2>. QED  BY <2>1, <2>2
  <1>14. ASSUME NEW i \in 1..n
         PROVE  /\ ~(End(i) < OffsetAt(raw, i)) /\ ~(End(i) > Len(raw))
                /\ SubSeq(raw, OffsetAt(raw, i) + 1, End(i)) = p[i]
    <2>1. PICK o \in Nat, k \in Nat :
             /\ o = off[i] /\ k = Len(p[i]) /\ off[i + 1] = o + k /\ o + k <= m
             /\ SubSeq(end, o + 1, o + k) = p[i]
      <3>1. Len(p[i]) \in Nat
        BY <1>3, LenProperties
      <3>. QED  BY <1>3, <1>11, <3>1
    <2>2. OffsetAt(raw, i) = 4 * (n + 1) + o /\ End(i) = 4 * (n + 1) + (o + k)
      BY <1>12, <1>13, <2>1
    <2> HIDE DEF End
    <2>3. ~(End(i) < OffsetAt(raw, i)) /\ ~(End(i) > Len(raw))
      <3>0. o + k <= m
        BY <2>1
      <3>1. ~(4 * (n + 1) + (o + k) < 4 * (n + 1) + o) /\ ~(4 * (n + 1) + (o + k) > 4 * (n + 1) + m)
        BY <3>0
      <3>. QED  BY <1>11, <2>2, <3>1
    <2>4. PICK a \in Nat : /\ a = n * 4 + o /\ a + k <= n * 4 + m /\ 4 + a + 1 = (4 * (n + 1) + o) + 1
                           /\ 4 + a + k = 4 * (n + 1) + (o + k)
                           /\ n * 4 + o + 1 = a + 1 /\ n * 4 + o + k = a + k
      <3>0. o + k <= m
        BY <2>1
      <3>1. /\ n * 4 + o \in Nat /\ (n * 4 + o) + k <= n * 4 + m
            /\ 4 + (n * 4 + o) + 1 = (4 * (n + 1) + o) + 1
            /\ 4 + (n * 4 + o) + k = 4 * (n + 1) + (o + k)
        BY <3>0
      <3>. QED  BY <3>1
    <2>5. SubSeq(raw, 4 + a + 1, 4 + a + k) = SubSeq(rest, a + 1, a + k)
      BY <1>9, <1>11, <2>4
    <2>6. SubSeq(middle \o end, Len(middle) + o + 1, Len(middle) + o + k) = SubSeq(end, o + 1, o + k)
      <3>1. o + k <= Len(end)
        BY <1>11, <2>1
      <3>. QED  BY <3>1, SliceOfSecond
    <2>7. SubSeq(rest, a + 1, a + k) = p[i]
      BY <1>6, <1>8, <2>1, <2>4, <2>6
    <2>. QED  BY <2>2, <2>3, <2>4, <2>5, <2>7
  <1>15. ~(Len(raw) < CountSize) /\ ~(Len(raw) < CountSize * (n + 1))
    <2>1. ~(4 * (n + 1) + m < 4) /\ ~(4 * (n + 1) + m < 4 * (n + 1))
      OBVIOUS
    <2>. QED  BY <1>11, <2>1 DEF CountSize
  <1>16. n > 0 => OffsetAt(raw, 1) = CountSize * (n + 1)
    <2> SUFFICES ASSUME n > 0 PROVE OffsetAt(raw, 1) = 4 * (n + 1)
      BY DEF CountSize
    <2>1. 1 \in 1..n /\ off[1] = 0 /\ 4 * (n + 1) + 0 = 4 * (n + 1)
      BY <1>2 DEF Offsets
    <2>. QED  BY <1>12, <2>1
  <1>17. ~Exceeds(n, MaxMvItems)
    BY <1>1, WithinLimit
  <1>18. Slices(raw) = [kind |-> "slices", slices |-> [i \in 1..n |-> SubSeq(raw, OffsetAt(raw, i) + 1, End(i))]]
    BY <1>9, <1>14, <1>15, <1>16, <1>17 DEF Slices
  <1>19. [i \in 1..n |-> SubSeq(raw, OffsetAt(raw, i) + 1, End(i))] = p
    BY <1>1, <1>14
  <1>. QED  BY <1>10, <1>18, <1>19

LEMMA MvVariableWritten ==
    ASSUME NEW t \in DOMAIN MvVariableBase, NEW v \in Values(t)
    PROVE  IsWritten(t, v)
  <1> DEFINE b == MvVariableBase[t]
             given == v.items
             p == AllPlain(b, given)
  <1>1. b \in SingleTypes
    BY TypesAre
  <1>2. v \in Tuples(SingleValues(b)) /\ OffsetsFit(p)
    <2>1. Values(t) = {w \in Tuples(SingleValues(MvVariableBase[t])) :
                         OffsetsFit(AllPlain(MvVariableBase[t], w.items))}
      BY ValuesAre
    <2>. QED  BY <2>1
  <1>3. PICK n \in Nat : /\ v = [kind |-> "tuple", items |-> v.items] /\ v.kind = "tuple"
                         /\ n <= MaxMvItems /\ DOMAIN v.items = 1..n
                         /\ \A i \in 1..n : v.items[i] \in SingleValues(b)
                         /\ v.items = [i \in 1..n |-> v.items[i]]
    <2> HIDE DEF b
    <2>. QED  BY <1>2, TuplesAre
  <1>4. /\ v = [kind |-> "tuple", items |-> given] /\ DOMAIN given = 1..n
        /\ given = [i \in 1..n |-> given[i]] /\ \A i \in 1..n : given[i] \in SingleValues(b)
    BY <1>3
  <1>5. encode(t, v) = WithOffsets(p)
    <2>1. v.kind # "None"
      BY <1>3
    <2>. QED  BY <2>1, EncodeIs
  <1> HIDE DEF b, given
  <1>6. \A i \in 1..n : /\ Plain(b, given[i]) \in Seq(Byte) /\ ~IsRefusal(given[i])
                        /\ Single(b, Plain(b, given[i]), TRUE) = given[i]
    BY <1>1, <1>4, SingleWritten
  <1>7. /\ p \in Seq(Seq(Byte)) /\ Len(p) = n /\ DOMAIN p = 1..n
        /\ \A i \in 1..n : p[i] = Plain(b, given[i])
    <2>1. \A i \in 1..n : Plain(b, given[i]) \in Seq(Byte)
      BY <1>6
    <2>. QED  BY <1>4, <2>1, AllPlainIs
  <1> HIDE DEF p
  <1>8. /\ WithOffsets(p) \in Seq(Byte)
        /\ Slices(WithOffsets(p)) = [kind |-> "slices", slices |-> p]
    BY <1>2, <1>3, <1>7, SlicesWritten
  <1>9. MvVariable(t, WithOffsets(p), TRUE) = Tuple([i \in DOMAIN p |-> Single(b, p[i], TRUE)])
    <2>1. ~IsRefusal(Slices(WithOffsets(p)))
      BY <1>8, NoRefusalKinds
    <2>2. Slices(WithOffsets(p)).slices = p
      BY <1>8
    <2>. QED  BY <2>1, <2>2 DEF MvVariable, Given, b
  <1>10. [i \in DOMAIN p |-> Single(b, p[i], TRUE)] = given
    BY <1>4, <1>6, <1>7
  <1>11. Tuple(given) = v
    <2>1. \A i \in 1..n : ~IsRefusal(given[i])
      BY <1>6
    <2>2. Tuple(given) = [kind |-> "tuple", items |-> given]
      BY <1>4, <2>1, TupleWhole
    <2>. QED  BY <1>4, <2>2
  <1>12. decode(t, WithOffsets(p), TRUE) = v
    <2>1. decode(t, WithOffsets(p), TRUE) = MvVariable(t, WithOffsets(p), TRUE)
      BY DecodeIs
    <2>. QED  BY <1>9, <1>10, <1>11, <2>1
  <1>13. ~IsRefusal(v)
    BY <1>3, NoRefusalKinds
  <1>. QED  BY <1>5, <1>8, <1>12, <1>13 DEF IsWritten

LEMMA OffsetRead ==
    ASSUME NEW data \in Seq(Byte), NEW i \in Nat, CountSize * (i + 1) <= Len(data)
    PROVE  OffsetAt(data, i) \in Nat /\ OffsetAt(data, i) < Numbers[CountSize]
  <1>1. PICK a \in Nat, g \in Nat : a = 4 * i /\ g = 4 /\ a + g = 4 * (i + 1) /\ a + g <= Len(data)
    <2>1. 4 * i \in Nat /\ 4 \in Nat /\ 4 * i + 4 = 4 * (i + 1)
      OBVIOUS
    <2>2. 4 * (i + 1) <= Len(data)
      BY DEF CountSize
    <2>. QED  BY <2>1, <2>2
  <1>2. SubSeq(data, a + 1, a + g) \in Seq(Byte) /\ Len(SubSeq(data, a + 1, a + g)) = g
    BY <1>1, SliceIs
  <1>3. SubSeq(data, 4 * i + 1, 4 * (i + 1)) \in Seq(Byte) /\ Len(SubSeq(data, 4 * i + 1, 4 * (i + 1))) = 4
    BY <1>1, <1>2
  <1>. QED  BY <1>3, LittleEndianRange DEF OffsetAt, CountSize

(* What is cut follows the table without a gap.                            *)
LEMMA SlicesRead ==
    ASSUME NEW data \in Seq(Byte), ~IsRefusal(Slices(data))
    PROVE  \E n \in Nat : \E cut, off :
              /\ Slices(data) = [kind |-> "slices", slices |-> cut]
              /\ n <= MaxMvItems /\ DOMAIN cut = 1..n
              /\ n > 0 => off[1] = 4 * (n + 1)
              /\ \A i \in 1..n : /\ cut[i] \in Seq(Byte) /\ off[i] \in Nat /\ off[i] < Numbers[4]
                                 /\ i < n => off[i + 1] = off[i] + Len(cut[i])
  <1> DEFINE n == ItemCount(data)
             End(i) == IF i < n THEN OffsetAt(data, i + 1) ELSE Len(data)
             cut == [i \in 1..n |-> SubSeq(data, OffsetAt(data, i) + 1, End(i))]
             off == [i \in 1..n |-> OffsetAt(data, i)]
  <1>0. IsRefusal(Refused("PstLimitError"))
    BY DEF IsRefusal, Refused, Refusals
  <1>1. /\ ~(Len(data) < CountSize) /\ ~Exceeds(n, MaxMvItems)
        /\ ~(Len(data) < CountSize * (n + 1))
        /\ ~(n > 0 /\ OffsetAt(data, 1) # CountSize * (n + 1))
        /\ \A i \in 1..n : ~(End(i) < OffsetAt(data, i)) /\ ~(End(i) > Len(data))
        /\ Slices(data) = [kind |-> "slices", slices |-> cut]
    BY <1>0, BadFormatRefuses DEF Slices
  <1>2. PICK l \in Nat : l = Len(data)
    BY LenProperties
  <1>3. CountSize <= Len(data)
    BY <1>1, <1>2 DEF CountSize
  <1>4. n \in Nat /\ n < Numbers[4]
    BY <1>3, CountRead DEF CountSize
  <1>5. n <= MaxMvItems
    BY <1>1, <1>4, WithinLimit
  <1> HIDE DEF n
  <1>6. ASSUME NEW i \in 1..n PROVE OffsetAt(data, i) \in Nat /\ OffsetAt(data, i) < Numbers[4]
    <2>1. PICK k \in Nat : k = n /\ i \in 1..k /\ ~(l < 4 * (k + 1))
      BY <1>1, <1>2, <1>4 DEF CountSize
    <2>2. 4 * (i + 1) <= l
      BY <2>1
    <2>3. i \in Nat /\ CountSize * (i + 1) <= Len(data)
      BY <1>2, <2>2 DEF CountSize
    <2>. QED  BY <2>3, OffsetRead DEF CountSize
  <1>7. ASSUME NEW i \in 1..n
        PROVE  cut[i] \in Seq(Byte) /\ (i < n => off[i + 1] = off[i] + Len(cut[i]))
    <2>1. PICK o \in Nat : o = OffsetAt(data, i)
      BY <1>6
    <2>2. PICK e \in Nat : e = End(i)
      <3>1. CASE i < n
        <4>1. i + 1 \in 1..n
          BY <1>4, <3>1
        <4>. QED  BY <1>6, <3>1, <4>1
      <3>2. CASE ~(i < n)
        BY <1>2, <3>2
      <3>. QED  BY <3>1, <3>2
    <2>3. o <= e /\ e <= l
      BY <1>1, <1>2, <2>1, <2>2
    <2>4. PICK k \in Nat : e = o + k
      <3>1. e - o \in Nat /\ e = o + (e - o)
        BY <2>3
      <3>. QED  BY <3>1
    <2>5. o + k <= Len(data)
      BY <1>2, <2>3, <2>4
    <2>6. SubSeq(data, o + 1, o + k) \in Seq(Byte) /\ Len(SubSeq(data, o + 1, o + k)) = k
      BY <2>5, SliceIs
    <2>7. cut[i] = SubSeq(data, o + 1, o + k)
      BY <2>1, <2>2, <2>4
    <2>8. i < n => off[i + 1] = o + k /\ off[i] = o
      <3> SUFFICES ASSUME i < n PROVE off[i + 1] = o + k /\ off[i] = o
        OBVIOUS
      <3>1. i + 1 \in 1..n
        BY <1>4
      <3>. QED  BY <2>1, <2>2, <2>4, <3>1
    <2> HIDE DEF cut, off
    <2>. QED  BY <2>6, <2>7, <2>8
  <1>8. n > 0 => off[1] = 4 * (n + 1)
    <2> SUFFICES ASSUME n > 0 PROVE off[1] = 4 * (n + 1)
      OBVIOUS
    <2>1. 1 \in 1..n
      BY <1>4
    <2>2. OffsetAt(data, 1) = 4 * (n + 1)
      BY <1>1 DEF CountSize
    <2>. QED  BY <2>1, <2>2
  <1>9. \A i \in 1..n : off[i] = OffsetAt(data, i)
    OBVIOUS
  <1>10. DOMAIN cut = 1..n
    OBVIOUS
  <1> HIDE DEF cut, off
  <1>11. \A i \in 1..n : /\ cut[i] \in Seq(Byte) /\ off[i] \in Nat /\ off[i] < Numbers[4]
                         /\ i < n => off[i + 1] = off[i] + Len(cut[i])
    <2> SUFFICES ASSUME NEW i \in 1..n
                 PROVE  /\ cut[i] \in Seq(Byte) /\ off[i] \in Nat /\ off[i] < Numbers[4]
                        /\ i < n => off[i + 1] = off[i] + Len(cut[i])
      OBVIOUS
    <2>1. off[i] = OffsetAt(data, i)
      BY <1>9
    <2>2. off[i] \in Nat /\ off[i] < Numbers[4]
      BY <1>6, <2>1
    <2>3. cut[i] \in Seq(Byte) /\ (i < n => off[i + 1] = off[i] + Len(cut[i]))
      BY <1>7
    <2>. QED  BY <2>2, <2>3
  <1>. QED  BY <1>1, <1>4, <1>5, <1>8, <1>10, <1>11, ZenonT(60)

LEMMA MvVariableRead ==
    ASSUME NEW t \in DOMAIN MvVariableBase, NEW data \in Seq(Byte), NEW cp \in BOOLEAN,
           ~IsRefusal(MvVariable(t, data, cp))
    PROVE  MvVariable(t, data, cp) \in Values(t)
  <1> DEFINE b == MvVariableBase[t]
             items == [i \in DOMAIN Slices(data).slices |-> Single(b, Slices(data).slices[i], cp)]
  <1>1. b \in SingleTypes
    BY TypesAre
  <1>2. ~IsRefusal(Slices(data)) /\ MvVariable(t, data, cp) = Tuple(items)
    <2>1. ~(t = "MV_STRING8" /\ ~cp)
      BY DEF MvVariable, IsRefusal, Refused, Refusals
    <2>2. MvVariable(t, data, cp) = IF IsRefusal(Slices(data)) THEN Slices(data) ELSE Tuple(items)
      BY <2>1 DEF MvVariable, Given
    <2>. QED  BY <2>2
  <1>2a. PICK n \in Nat : \E cut, off :
              /\ Slices(data) = [kind |-> "slices", slices |-> cut]
              /\ n <= MaxMvItems /\ DOMAIN cut = 1..n
              /\ n > 0 => off[1] = 4 * (n + 1)
              /\ \A i \in 1..n : /\ cut[i] \in Seq(Byte) /\ off[i] \in Nat /\ off[i] < Numbers[4]
                                 /\ i < n => off[i + 1] = off[i] + Len(cut[i])
    BY <1>2, SlicesRead
  <1>3. PICK cut, off :
              /\ Slices(data) = [kind |-> "slices", slices |-> cut]
              /\ n <= MaxMvItems /\ DOMAIN cut = 1..n
              /\ n > 0 => off[1] = 4 * (n + 1)
              /\ \A i \in 1..n : /\ cut[i] \in Seq(Byte) /\ off[i] \in Nat /\ off[i] < Numbers[4]
                                 /\ i < n => off[i + 1] = off[i] + Len(cut[i])
    BY <1>2a
  <1>4. items = [i \in 1..n |-> Single(b, cut[i], cp)]
    BY <1>3
  <1>5. /\ DOMAIN items = 1..n /\ items = [i \in 1..n |-> items[i]]
        /\ \A i \in 1..n : items[i] = Single(b, cut[i], cp)
    BY <1>4
  <1>6. ~IsRefusal(Tuple(items))
    BY <1>2
  <1> HIDE DEF b, items
  <1>7. ASSUME NEW i \in 1..n, ~IsRefusal(items[i])
        PROVE  items[i] \in SingleValues(b) /\ Len(Plain(b, items[i])) <= Len(cut[i])
    <2>1. items[i] = Single(b, cut[i], cp) /\ cut[i] \in Seq(Byte)
      BY <1>3, <1>5
    <2>. QED  BY <1>1, <1>7, <2>1, SingleRead
  <1>8. /\ Tuple(items) \in Tuples(SingleValues(b))
        /\ Tuple(items) = [kind |-> "tuple", items |-> items]
    <2>1. \A i \in 1..n : ~IsRefusal(items[i]) => items[i] \in SingleValues(b)
      BY <1>7
    <2> DEFINE S == SingleValues(b)
    <2>2. \A i \in 1..n : ~IsRefusal(items[i]) => items[i] \in S
      BY <2>1
    <2> HIDE DEF S
    <2>3. DOMAIN items = 1..n /\ items = [i \in 1..n |-> items[i]] /\ n <= MaxMvItems
      BY <1>3, <1>5
    <2>4. Tuple(items) \in Tuples(S) /\ Tuple(items) = [kind |-> "tuple", items |-> items]
      BY <1>6, <2>2, <2>3, TupleRead, Zenon
    <2>. QED  BY <2>4 DEF S
  <1>9. \A i \in 1..n : ~IsRefusal(items[i])
    <2>1. DOMAIN items \in SUBSET Nat
      BY <1>5
    <2>2. \A i \in DOMAIN items : ~IsRefusal(items[i])
      BY <1>6, <2>1, TupleFirst
    <2>. QED  BY <1>5, <2>2
  <1> DEFINE p == AllPlain(b, items)
  <1>10. /\ p \in Seq(Seq(Byte)) /\ Len(p) = n /\ DOMAIN p = 1..n
         /\ \A i \in 1..n : p[i] = Plain(b, items[i])
    <2>1. \A i \in 1..n : Plain(b, items[i]) \in Seq(Byte)
      BY <1>1, <1>7, <1>9, SingleWritten
    <2>. QED  BY <1>5, <2>1, AllPlainIs
  <1> HIDE DEF p
  <1>11. PICK sum : /\ Offsets(p, sum)
                    /\ \A i \in 1..n : OffsetOf(p, i) = 4 * (n + 1) + sum[i]
    BY <1>10, SumsAre
  <1>12. \A k \in Nat : k \in 1..n => 4 * (n + 1) + sum[k] <= off[k]
    <2> DEFINE Good == {k \in Nat : k \in 1..n => 4 * (n + 1) + sum[k] <= off[k]}
    <2>1. 0 \in Good
      OBVIOUS
    <2>2. ASSUME NEW k \in Nat, k \in Good PROVE k + 1 \in Good
      <3> SUFFICES ASSUME k + 1 \in 1..n PROVE 4 * (n + 1) + sum[k + 1] <= off[k + 1]
        OBVIOUS
      <3>1. CASE k = 0
        <4>1. sum[1] = 0 /\ off[1] = 4 * (n + 1)
          BY <1>3, <1>11, <3>1 DEF Offsets
        <4>. QED  BY <3>1, <4>1
      <3>2. CASE k # 0
        <4>1. k \in 1..n /\ k < n /\ k \in 1..(n + 1)
          BY <3>2
        <4>2. PICK a \in Nat, c \in Nat, x \in Nat, y \in Nat :
                 /\ a = sum[k] /\ sum[k + 1] = a + x /\ x = Len(p[k])
                 /\ c = off[k] /\ off[k + 1] = c + y /\ y = Len(cut[k])
          <5>1. sum[k] \in Nat /\ sum[k + 1] = sum[k] + Len(p[k])
            BY <1>10, <1>11, <4>1 DEF Offsets
          <5>2. off[k] \in Nat /\ off[k + 1] = off[k] + Len(cut[k]) /\ Len(cut[k]) \in Nat
            BY <1>3, <4>1, LenProperties
          <5>3. Len(p[k]) \in Nat
            BY <1>10, <4>1, ElementOfSeq, LenProperties
          <5>. QED  BY <5>1, <5>2, <5>3
        <4>3. x <= y
          <5>1. ~IsRefusal(items[k])
            BY <1>9, <4>1
          <5>2. Len(Plain(b, items[k])) <= Len(cut[k])
            BY <1>7, <4>1, <5>1
          <5>. QED  BY <1>10, <4>1, <4>2, <5>2
        <4>4. 4 * (n + 1) + a <= c
          BY <2>2, <4>1, <4>2
        <4>5. 4 * (n + 1) + (a + x) <= c + y
          BY <4>3, <4>4
        <4>. QED  BY <4>2, <4>5
      <3>. QED  BY <3>1, <3>2
    <2> HIDE DEF Good
    <2>3. \A k \in Nat : k \in Good
      BY <2>1, <2>2, NatInduct
    <2>. QED  BY <2>3 DEF Good
  <1>13. OffsetsFit(p)
    <2> SUFFICES ASSUME NEW i \in 1..n PROVE OffsetOf(p, i) < Numbers[4]
      BY <1>10 DEF OffsetsFit, CountSize
    <2>1. PICK top \in Nat, o \in Nat, a \in Nat :
             top = Numbers[4] /\ o = off[i] /\ a = sum[i] /\ o < top /\ 4 * (n + 1) + a <= o
      <3>1. off[i] \in Nat /\ off[i] < Numbers[4]
        BY <1>3
      <3>2. sum[i] \in Nat
        <4>1. i \in 1..(n + 1)
          OBVIOUS
        <4>. QED  BY <1>10, <1>11, <4>1 DEF Offsets
      <3>3. 4 * (n + 1) + sum[i] <= off[i]
        BY <1>12
      <3>. QED  BY <3>1, <3>2, <3>3, NumbersAre
    <2>2. 4 * (n + 1) + a < top
      BY <2>1
    <2>. QED  BY <1>11, <2>1, <2>2
  <1>14. Values(t) = {w \in Tuples(SingleValues(b)) : OffsetsFit(AllPlain(b, w.items))}
    BY ValuesAre DEF b
  <1>15. OffsetsFit(AllPlain(b, Tuple(items).items))
    BY <1>8, <1>13 DEF p
  <1>. QED  BY <1>2, <1>8, <1>14, <1>15

LEMMA LayoutsAre ==
    PropType = DOMAIN ScalarSizes \cup DOMAIN MvFixedBase \cup DOMAIN MvVariableBase
               \cup {"NULL", "GUID", "MV_GUID", "OBJECT"} \cup SingleTypes
  BY DEF PropType, SingleTypes

LEMMA ScalarSized ==
    ASSUME NEW t \in DOMAIN ScalarSizes, NEW v \in Values(t)
    PROVE  IsWritten(t, v) /\ Len(encode(t, v)) = ScalarSizes[t]
  <1>1. v \in ScalarValues(t)
    BY ValuesAre
  <1>2. /\ Plain(t, v) \in Seq(Byte) /\ Scalar(t, Plain(t, v)) = v /\ ~IsRefusal(v)
        /\ Len(Plain(t, v)) = ScalarSizes[t]
    BY <1>1, ScalarWritten
  <1>3. v.kind # "None"
    <2>1. t \in IntegerTypes \cup FloatTypes \cup {"BOOLEAN", "SYSTIME"}
      BY SizesAre
    <2>2. \/ v \in [kind : {"int"}, int : Within(ScalarSizes[t])]
          \/ v \in [kind : {"float"}, bits : BytesOf(ScalarSizes[t])]
          \/ v \in [kind : {"datetime"}, microseconds : Times]
          \/ v \in [kind : {"bool"}, bool : BOOLEAN]
      BY <1>1, <2>1, ScalarValuesAre
    <2>. QED  BY <2>2
  <1>4. encode(t, v) = Plain(t, v)
    BY <1>3, EncodeIs
  <1>5. decode(t, Plain(t, v), TRUE) = Scalar(t, Plain(t, v))
    BY DecodeIs
  <1>. QED  BY <1>2, <1>4, <1>5 DEF IsWritten

LEMMA SingleWhole ==
    ASSUME NEW t \in SingleTypes, NEW v \in Values(t)
    PROVE  IsWritten(t, v)
  <1>1. v \in SingleValues(t)
    BY ValuesAre
  <1>2. /\ Plain(t, v) \in Seq(Byte) /\ Single(t, Plain(t, v), TRUE) = v /\ ~IsRefusal(v)
    BY <1>1, SingleWritten
  <1>3. v.kind # "None"
    <2>1. t \in {"BINARY", "UNICODE", "STRING8"}
      BY DEF SingleTypes
    <2>2. \/ v \in [kind : {"bytes"}, bytes : Seq(Byte)]
          \/ v \in [kind : {"str"}, units : Text]
          \/ v \in [kind : {"str"}, characters : Seq(Byte \ (UndefinedBytes \cup {0}))]
      BY <1>1, <2>1, SingleValuesAre
    <2>. QED  BY <2>2
  <1>4. encode(t, v) = Plain(t, v)
    BY <1>3, EncodeIs
  <1>5. decode(t, Plain(t, v), TRUE) = Single(t, Plain(t, v), TRUE)
    BY DecodeIs
  <1>. QED  BY <1>2, <1>4, <1>5 DEF IsWritten

(* A value of any type, encoded as a writer does, is read back as it was:  *)
(* decode of prop_type.py undoes encode, for every byte base and limit.    *)
THEOREM RoundTrip ==
    ASSUME NEW t \in PropType, NEW v \in Values(t)
    PROVE  IsWritten(t, v)
  <1>1. CASE t = "NULL"
    <2>1. v = None
      BY <1>1, ValuesAre
    <2>2. encode(t, v) = <<>>
      BY <1>1, <2>1, TypesAre DEF encode, None
    <2>3. decode(t, <<>>, TRUE) = None
      BY <1>1, DecodeIs
    <2>4. ~IsRefusal(v)
      BY <2>1, NoRefusalKinds DEF None
    <2>5. <<>> \in Seq(Byte)
      BY EmptySeq
    <2>. QED  BY <2>1, <2>2, <2>3, <2>4, <2>5 DEF IsWritten
  <1>2. CASE t = "GUID"
    <2>1. v \in GuidValues
      BY <1>2, ValuesAre
    <2>2. /\ Plain(t, v) \in Seq(Byte) /\ Guid(Plain(t, v)) = v /\ ~IsRefusal(v) /\ v.kind # "None"
      BY <2>1, GuidWritten
    <2>3. encode(t, v) = Plain(t, v) /\ decode(t, Plain(t, v), TRUE) = Guid(Plain(t, v))
      BY <1>2, <2>2, EncodeIs, DecodeIs, ZenonT(60)
    <2>. QED  BY <2>2, <2>3 DEF IsWritten
  <1>3. CASE t = "MV_GUID"
    BY <1>3, MvGuidWritten
  <1>4. CASE t = "OBJECT"
    BY <1>4, ObjectWritten
  <1>5. CASE t \in DOMAIN ScalarSizes
    BY <1>5, ScalarSized
  <1>6. CASE t \in DOMAIN MvFixedBase
    BY <1>6, MvFixedWritten
  <1>7. CASE t \in DOMAIN MvVariableBase
    BY <1>7, MvVariableWritten
  <1>8. CASE t \in SingleTypes
    BY <1>8, SingleWhole
  <1>. QED  BY <1>1, <1>2, <1>3, <1>4, <1>5, <1>6, <1>7, <1>8, LayoutsAre

(* Whatever bytes decode of prop_type.py does not refuse, it reads as a    *)
(* value of their type, whoever wrote them.                                *)
THEOREM DecodedIsValue ==
    ASSUME NEW t \in PropType, NEW data \in Seq(Byte), NEW cp \in BOOLEAN,
           ~IsRefusal(decode(t, data, cp))
    PROVE  decode(t, data, cp) \in Values(t)
  <1>1. CASE t = "NULL"
    <2>1. decode(t, data, cp) = None
      BY <1>1, DecodeIs, BadFormatRefuses
    <2>. QED  BY <1>1, <2>1, ValuesAre
  <1>2. CASE t = "GUID"
    <2>1. decode(t, data, cp) = Guid(data)
      BY <1>2, DecodeIs
    <2>2. Guid(data) \in GuidValues
      BY <2>1, GuidRead
    <2>. QED  BY <1>2, <2>1, <2>2, ValuesAre
  <1>3. CASE t = "MV_GUID"
    <2>1. decode(t, data, cp) = MvGuid(data)
      BY <1>3, DecodeIs
    <2>. QED  BY <1>3, <2>1, MvGuidRead
  <1>4. CASE t = "OBJECT"
    <2>1. decode(t, data, cp) = Object(data)
      BY <1>4, DecodeIs
    <2>. QED  BY <1>4, <2>1, ObjectRead
  <1>5. CASE t \in DOMAIN ScalarSizes
    <2>1. decode(t, data, cp) = Scalar(t, data)
      BY <1>5, DecodeIs
    <2>2. Scalar(t, data) \in ScalarValues(t)
      BY <1>5, <2>1, ScalarRead
    <2>. QED  BY <1>5, <2>1, <2>2, ValuesAre
  <1>6. CASE t \in DOMAIN MvFixedBase
    <2>1. decode(t, data, cp) = MvFixed(t, data)
      BY <1>6, DecodeIs
    <2>. QED  BY <1>6, <2>1, MvFixedRead
  <1>7. CASE t \in DOMAIN MvVariableBase
    <2>1. decode(t, data, cp) = MvVariable(t, data, cp)
      BY <1>7, DecodeIs
    <2>. QED  BY <1>7, <2>1, MvVariableRead
  <1>8. CASE t \in SingleTypes
    <2>1. decode(t, data, cp) = Single(t, data, cp)
      BY <1>8, DecodeIs
    <2>2. Single(t, data, cp) \in SingleValues(t)
      BY <1>8, <2>1, SingleRead
    <2>. QED  BY <1>8, <2>1, <2>2, ValuesAre
  <1>. QED  BY <1>1, <1>2, <1>3, <1>4, <1>5, <1>6, <1>7, <1>8, LayoutsAre

-----------------------------------------------------------------------------
(* The records of a context, and what is read of one.                      *)
LEMMA RecordKnown ==
    ASSUME NEW ctx, IsContext(ctx), ~IsRefusal(Records(ctx)), NEW id \in Ids(Records(ctx))
    PROVE  LET record == RecordOf(Records(ctx), id)
           IN record \in RecordType /\ record.type \in PropType /\ record.id = id
  <1> DEFINE sorted == InIdOrder(ctx.records)
  <1>1. /\ Records(ctx) = [kind |-> "records", records |-> sorted]
        /\ \A i \in DOMAIN ctx.records : RecordRefusal(ctx, i) = NoError
    BY RecordsRead
  <1>2. ctx.records \in Seq(RecordType)
    BY DEF IsContext, RecordType
  <1>3. DOMAIN ctx.records = 1..Len(ctx.records) /\ Len(ctx.records) \in Nat
    BY <1>2, LenProperties
  <1>4. \A i, j \in DOMAIN ctx.records : ctx.records[i].id = ctx.records[j].id => i = j
    <2>1. \A i \in DOMAIN ctx.records : \A j \in 1..(i - 1) :
             ctx.records[j].id # ctx.records[i].id
      BY <1>1 DEF RecordRefusal, NoError
    <2>2. \A i, j \in DOMAIN ctx.records : i # j => j \in 1..(i - 1) \/ i \in 1..(j - 1)
      BY <1>3
    <2>. QED  BY <2>1, <2>2
  <1>5. ToSet(sorted) = ToSet(ctx.records)
    BY <1>2, <1>4, OrderedById
  <1> HIDE DEF sorted
  <1>6. PICK i \in DOMAIN sorted : sorted[i].id = id /\ RecordOf(Records(ctx), id) = sorted[i]
    <2> DEFINE at == CHOOSE i \in DOMAIN sorted : sorted[i].id = id
    <2>1. Records(ctx).records = sorted
      BY <1>1
    <2>2. \E i \in DOMAIN sorted : sorted[i].id = id
      BY <2>1 DEF Ids
    <2>3. at \in DOMAIN sorted /\ sorted[at].id = id
      BY <2>2
    <2>4. RecordOf(Records(ctx), id) = sorted[at]
      BY <2>1 DEF RecordOf
    <2>. QED  BY <2>3, <2>4
  <1>7. sorted[i] \in ToSet(ctx.records)
    BY <1>5, <1>6 DEF ToSet
  <1>8. PICK j \in DOMAIN ctx.records : ctx.records[j] = sorted[i]
    BY <1>7 DEF ToSet
  <1>9. ctx.records[j] \in RecordType
    BY <1>2, <1>3, ElementOfSeq
  <1>10. ctx.records[j].type \in PropType
    BY <1>1 DEF RecordRefusal, NoError
  <1>. QED  BY <1>6, <1>8, <1>9, <1>10

LEMMA WidthsAre ==
    ASSUME NEW t \in DOMAIN InlineWidths
    PROVE  /\ InlineWidths[t] \in Nat /\ t \in PropType
           /\ t # "NULL" => t \in DOMAIN ScalarSizes /\ InlineWidths[t] = ScalarSizes[t]
           /\ t = "NULL" => InlineWidths[t] = 0
  BY DEF InlineWidths, ScalarSizes, PropType

LEMMA ContentIs ==
    ASSUME NEW c, IsContent(c), ~IsRefusal(c)
    PROVE  c = Binary(c.bytes) /\ c.bytes \in Seq(Byte)
  BY DEF IsContent, Binary

LEMMA DataIs ==
    ASSUME NEW ctx, IsContext(ctx), NEW record \in RecordType, NEW open \in BOOLEAN,
           ~IsRefusal(Data(ctx, record, open))
    PROVE  LET data == Data(ctx, record, open) IN data = Binary(data.bytes) /\ data.bytes \in Seq(Byte)
  <1>1. CASE record.type \in DOMAIN InlineWidths
    <2> DEFINE width == InlineWidths[record.type]
    <2>1. width \in Nat /\ record.raw \in Nat
      BY <1>1, WidthsAre DEF RecordType
    <2>2. PICK m \in Nat \ {0} : m = Numbers[width]
      BY <2>1, NumbersAre
    <2>3. record.raw % Numbers[width] \in Nat
      BY <2>1, <2>2, Division
    <2>4. ToBytes(record.raw % Numbers[width], width) \in Seq(Byte)
      BY <2>1, <2>3, ToBytesType
    <2>5. Data(ctx, record, open) = Binary(ToBytes(record.raw % Numbers[width], width))
      BY <1>1 DEF Data, Inline
    <2>. QED  BY <2>4, <2>5 DEF Binary
  <1>2. CASE record.type \notin DOMAIN InlineWidths
    <2>1. Data(ctx, record, open) = Fetch(ctx, record.raw, open)
      BY <1>2, BadFormatRefuses DEF Data
    <2>2. IsRefusal(Refused("PstNotFoundError")) /\ IsRefusal(Refused("ValueError"))
      BY DEF IsRefusal, Refused, Refusals
    <2>3. IsContent(Fetch(ctx, record.raw, open))
      BY <2>1, <2>2, BadFormatRefuses DEF Fetch, IsContext
    <2>. QED  BY <2>1, <2>3, ContentIs
  <1>. QED  BY <1>1, <1>2

(* Any value that is read is one of its type, of whatever bytes.           *)
LEMMA ValueIsOfType ==
    ASSUME NEW ctx, IsContext(ctx), NEW record \in RecordType, record.type \in PropType,
           NEW open \in BOOLEAN, Whole(Value(ctx, record, open))
    PROVE  Value(ctx, record, open) \in Values(record.type)
  <1> DEFINE data == Data(ctx, record, open)
  <1>1. ~IsNull(record)
    BY DEF Value, Whole
  <1>2. ~IsRefusal(data) /\ Value(ctx, record, open) = decode(record.type, data.bytes, ctx.codepage)
    BY <1>1 DEF Value, Given, Whole
  <1>3. data.bytes \in Seq(Byte)
    BY <1>2, DataIs
  <1>4. ctx.codepage \in BOOLEAN
    BY DEF IsContext
  <1> HIDE DEF data
  <1>. QED  BY <1>2, <1>3, <1>4, DecodedIsValue DEF Whole

(* What a writer stored is read as it was.                                 *)
LEMMA StoredIsReadBack ==
    ASSUME NEW ctx, ctx.codepage = TRUE, NEW record \in RecordType, record.type \in PropType,
           NEW v, IsStored(ctx, record, v)
    PROVE  ~IsNull(record) /\ Value(ctx, record, TRUE) = v /\ ~IsRefusal(v)
  <1> DEFINE bytes == encode(record.type, v)
  <1>1. v \in Values(record.type)
    BY DEF IsStored
  <1>2. bytes \in Seq(Byte) /\ decode(record.type, bytes, TRUE) = v /\ ~IsRefusal(v)
    BY <1>1, RoundTrip DEF IsWritten
  <1>3. ~IsNull(record) /\ Data(ctx, record, TRUE) = Binary(bytes)
    <2>1. CASE record.type \in DOMAIN InlineWidths
      <3> DEFINE width == InlineWidths[record.type]
      <3>1. ~IsNull(record)
        BY <2>1 DEF IsNull
      <3>2. Len(bytes) = width
        <4>1. CASE record.type = "NULL"
          <5>1. v = None
            BY <1>1, <4>1, ValuesAre
          <5>2. bytes = <<>>
            BY <4>1, <5>1, TypesAre DEF encode, None
          <5>. QED  BY <2>1, <4>1, <5>2, WidthsAre, EmptySeq
        <4>2. CASE record.type # "NULL"
          <5>1. record.type \in DOMAIN ScalarSizes /\ width = ScalarSizes[record.type]
            BY <2>1, <4>2, WidthsAre
          <5>. QED  BY <1>1, <5>1, ScalarSized
        <4>. QED  BY <4>1, <4>2
      <3>3. record.raw % Numbers[width] = LittleEndian(bytes)
        BY <2>1 DEF IsStored
      <3>4. ToBytes(LittleEndian(bytes), Len(bytes)) = bytes
        BY <1>2, BytesOfNumber
      <3>5. Data(ctx, record, TRUE) = Binary(ToBytes(record.raw % Numbers[width], width))
        BY <2>1 DEF Data, Inline
      <3> HIDE DEF bytes, width
      <3>. QED  BY <3>1, <3>2, <3>3, <3>4, <3>5
    <2>2. CASE record.type \notin DOMAIN InlineWidths
      BY <2>2 DEF IsStored, IsNull, Data
    <2>. QED  BY <2>1, <2>2
  <1> HIDE DEF bytes
  <1>4. ~IsRefusal(Binary(bytes)) /\ Binary(bytes).bytes = bytes
    BY NoRefusalKinds DEF Binary
  <1>5. Value(ctx, record, TRUE) = decode(record.type, bytes, TRUE)
    BY <1>3, <1>4 DEF Value, Given
  <1>. QED  BY <1>2, <1>3, <1>5

-----------------------------------------------------------------------------
(* A subject is split where it was joined.                                 *)
Parts(prefix, normalized) == [kind |-> "subject", prefix |-> prefix, normalized |-> normalized]

LEMMA SplitJoined ==
    ASSUME NEW prefix \in Seq(Seq(Nat)), NEW normalized \in Seq(Seq(Nat))
    PROVE  Split(Joined(prefix, normalized)) = Parts(prefix, normalized)
  <1>1. PICK l \in Nat, m \in Nat : l = Len(prefix) /\ m = Len(normalized)
    BY LenProperties
  <1>2. PICK body \in Seq(Seq(Nat)) : body = prefix \o normalized /\ Len(body) = l + m
    <2>1. prefix \o normalized \in Seq(Seq(Nat)) /\ Len(prefix \o normalized) = Len(prefix) + Len(normalized)
      BY ConcatProperties
    <2>. QED  BY <1>1, <2>1
  <1>3. PICK front \in Seq(Seq(Nat)) :
           /\ front = <<PrefixMarker, <<l + 1>>>> /\ Len(front) = 2
           /\ front[1] = <<1>> /\ front[2] = <<l + 1>>
    <2> DEFINE pair == <<PrefixMarker, <<l + 1>>>>
    <2>1. <<1>> \in Seq(Nat) /\ <<l + 1>> \in Seq(Nat)
      OBVIOUS
    <2>2. pair \in Seq(Seq(Nat)) /\ Len(pair) = 2 /\ pair[1] = <<1>> /\ pair[2] = <<l + 1>>
      BY <2>1 DEF PrefixMarker
    <2>. QED  BY <2>2
  <1>4. Joined(prefix, normalized) = front \o body
    <2>1. (front \o prefix) \o normalized = front \o (prefix \o normalized)
      BY ConcatAssociative, SMTT(30)
    <2>. QED  BY <1>1, <1>2, <1>3, <2>1 DEF Joined
  <1>5. PICK raw \in Seq(Seq(Nat)) :
           /\ raw = front \o body /\ Len(raw) = 2 + (l + m)
           /\ raw[1] = <<1>> /\ raw[2] = <<l + 1>>
    <2>1. /\ front \o body \in Seq(Seq(Nat)) /\ Len(front \o body) = Len(front) + Len(body)
          /\ \A i \in 1..(Len(front) + Len(body)) :
                (front \o body)[i] = IF i <= Len(front) THEN front[i] ELSE body[i - Len(front)]
      BY ConcatProperties
    <2>2. Len(front) = 2 /\ Len(body) = l + m
      BY <1>2, <1>3
    <2>3. 1 \in 1..(2 + (l + m)) /\ 2 \in 1..(2 + (l + m))
      OBVIOUS
    <2>4. (front \o body)[1] = front[1] /\ (front \o body)[2] = front[2]
      BY <2>1, <2>2, <2>3
    <2>. QED  BY <1>3, <2>1, <2>2, <2>4
  <1>6. SubSeq(raw, 3, Len(raw)) = body
    <2>1. PICK z \in Nat, k \in Nat :
             /\ z = 0 /\ k = Len(body) /\ z + k <= Len(body) /\ z + 1 = 1 /\ z + k = k
             /\ Len(front) + z + 1 = 3 /\ Len(front) + z + k = Len(raw)
      <3>0. Len(front) = 2 /\ Len(body) = l + m /\ Len(raw) = 2 + (l + m) /\ l + m \in Nat
        BY <1>2, <1>3, <1>5
      <3>1. /\ 0 \in Nat /\ l + m \in Nat /\ 0 + (l + m) <= l + m /\ 0 + 1 = 1 /\ 0 + (l + m) = l + m
            /\ 2 + 0 + 1 = 3 /\ 2 + 0 + (l + m) = 2 + (l + m)
        OBVIOUS
      <3>. QED  BY <3>0, <3>1
    <2>2. SubSeq(front \o body, Len(front) + z + 1, Len(front) + z + k) = SubSeq(body, z + 1, z + k)
      <3>1. PICK T : T = Seq(Nat)
        OBVIOUS
      <3>2. front \in Seq(T) /\ body \in Seq(T) /\ z + k <= Len(body)
        BY <2>1, <3>1
      <3>. QED  BY <3>2, SliceOfSecond, SMTT(30)
    <2>3. SubSeq(body, 1, Len(body)) = body
      BY SubSeqFull
    <2>. QED  BY <1>5, <2>1, <2>2, <2>3
  <1>7. SubSeq(body, 1, l) = prefix
    <2>1. PICK z \in Nat, k \in Nat : z = 0 /\ k = l /\ z + k <= Len(prefix) /\ z + 1 = 1 /\ z + k = l
      <3>1. 0 \in Nat /\ 0 + l <= Len(prefix) /\ 0 + 1 = 1 /\ 0 + l = l
        BY <1>1
      <3>. QED  BY <3>1
    <2>2. SubSeq(prefix \o normalized, z + 1, z + k) = SubSeq(prefix, z + 1, z + k)
      BY <2>1, SliceOfFirst
    <2>3. SubSeq(prefix, 1, Len(prefix)) = prefix
      BY SubSeqFull
    <2>. QED  BY <1>1, <1>2, <2>1, <2>2, <2>3
  <1>8. SubSeq(body, l + 1, Len(body)) = normalized
    <2>1. PICK z \in Nat, k \in Nat :
             /\ z = 0 /\ k = m /\ z + k <= Len(normalized) /\ z + 1 = 1 /\ z + k = m
             /\ Len(prefix) + z + 1 = l + 1 /\ Len(prefix) + z + k = Len(body)
      <3>0. Len(prefix) = l /\ Len(normalized) = m /\ Len(body) = l + m
        BY <1>1, <1>2
      <3>1. /\ 0 \in Nat /\ 0 + m <= m /\ 0 + 1 = 1 /\ 0 + m = m
            /\ l + 0 + 1 = l + 1 /\ l + 0 + m = l + m
        OBVIOUS
      <3>. QED  BY <3>0, <3>1
    <2>2. SubSeq(prefix \o normalized, Len(prefix) + z + 1, Len(prefix) + z + k)
             = SubSeq(normalized, z + 1, z + k)
      <3>1. PICK T : T = Seq(Nat)
        OBVIOUS
      <3>2. prefix \in Seq(T) /\ normalized \in Seq(T) /\ z + k <= Len(normalized)
        BY <2>1, <3>1
      <3>. QED  BY <3>2, SliceOfSecond
    <2>3. SubSeq(normalized, 1, Len(normalized)) = normalized
      BY SubSeqFull
    <2>. QED  BY <1>1, <1>2, <2>1, <2>2, <2>3
  <1>9. Ord(raw[2]) - 1 = l
    <2>1. Len(<<l + 1>>) = 1 /\ <<l + 1>>[1] = l + 1
      OBVIOUS
    <2>2. Ord(raw[2]) = l + 1
      BY <1>5, <2>1 DEF Ord
    <2>. QED  BY <2>2
  <1>10. raw # <<>> /\ Head(raw) = PrefixMarker /\ ~(Len(raw) < 2) /\ ~(l < 0 \/ l > Len(body))
    <2>1. Len(raw) # 0 /\ ~(Len(raw) < 2)
      BY <1>5
    <2>2. Len(<<>>) = 0
      OBVIOUS
    <2>3. Head(raw) = raw[1]
      BY <2>1, <2>2, HeadTailProperties
    <2>. QED  BY <1>2, <1>5, <2>1, <2>2, <2>3 DEF PrefixMarker
  <1>11. Split(raw) = Parts(prefix, normalized)
    BY <1>6, <1>7, <1>8, <1>9, <1>10 DEF Split, Parts
  <1>. QED  BY <1>4, <1>5, <1>11

LEMMA SubjectIs ==
    ASSUME NEW prefix \in Seq(Seq(Nat)), NEW normalized \in Seq(Seq(Nat)), NEW text,
           IsSubject(text, prefix, normalized)
    PROVE  Split(text) = Parts(prefix, normalized)
  <1>1. CASE text = Joined(prefix, normalized)
    BY <1>1, SplitJoined
  <1>2. CASE prefix = <<>> /\ text = normalized /\ (text = <<>> \/ Head(text) # PrefixMarker)
    BY <1>2 DEF Split, Parts
  <1>. QED  BY <1>1, <1>2 DEF IsSubject

LEMMA SubjectAccessors ==
    /\ Accessors["subject"] = Reads("message", "subject", FALSE)
    /\ Accessors["subject_prefix"] = Reads("message", "prefix", FALSE)
    /\ Accessors["subject_raw"] = Reads("message", "text", FALSE)
    /\ Accessors["normalized_subject"] = Reads("message", "text", FALSE)
  <1>1. ASSUME NEW n \in {"subject", "subject_prefix", "subject_raw", "normalized_subject"}
        PROVE  Accessors[n] = MessageAccessors[n]
    <2>1. n \in DOMAIN MessageAccessors
      BY DEF MessageAccessors
    <2>2. n \notin DOMAIN StoreAccessors
      BY DEF StoreAccessors
    <2>3. n \notin DOMAIN FolderAccessors
      BY DEF FolderAccessors
    <2>4. n \notin DOMAIN AttachmentAccessors
      BY DEF AttachmentAccessors
    <2> HIDE DEF StoreAccessors, FolderAccessors, MessageAccessors, AttachmentAccessors
    <2>. QED  BY <2>1, <2>2, <2>3, <2>4 DEF Accessors
  <1>2. /\ MessageAccessors["subject"] = Reads("message", "subject", FALSE)
        /\ MessageAccessors["subject_prefix"] = Reads("message", "prefix", FALSE)
        /\ MessageAccessors["subject_raw"] = Reads("message", "text", FALSE)
        /\ MessageAccessors["normalized_subject"] = Reads("message", "text", FALSE)
    BY DEF MessageAccessors
  <1>. QED  BY <1>1, <1>2

LEMMA MeantIsRead ==
    ASSUME NEW ctx, IsContext(ctx), HasWhatWasMeant(ctx), NEW id \in DOMAIN ctx.meant
    PROVE  LET record == RecordOf(Records(ctx), id)
           IN /\ ~IsRefusal(Records(ctx)) /\ id \in Ids(Records(ctx)) /\ ~IsNull(record)
              /\ Value(ctx, record, TRUE) = ctx.meant[id] /\ ~IsRefusal(ctx.meant[id])
  <1>1. /\ ctx.codepage /\ ~IsRefusal(Records(ctx)) /\ id \in Ids(Records(ctx))
        /\ IsStored(ctx, RecordOf(Records(ctx), id), ctx.meant[id])
    BY DEF HasWhatWasMeant
  <1>2. ctx.codepage = TRUE
    BY <1>1 DEF IsContext
  <1>3. /\ RecordOf(Records(ctx), id) \in RecordType
        /\ RecordOf(Records(ctx), id).type \in PropType
    BY <1>1, RecordKnown
  <1>. QED  BY <1>1, <1>2, <1>3, StoredIsReadBack

LEMMA SaidIsRead ==
    ASSUME NEW ctx, IsContext(ctx), HasWhatWasMeant(ctx), SaysSubject(ctx), NEW name \in DOMAIN ctx.said
    PROVE  LET records == Records(ctx)
           IN /\ ~IsRefusal(records) /\ name \in {"subject", "subject_prefix", "normalized_subject"}
              /\ name = "normalized_subject" => NormalizedSubject(ctx, records, TRUE) = ctx.said[name]
              /\ name # "normalized_subject" => Access(ctx, records, name, TRUE) = ctx.said[name]
  <1> DEFINE id == Tag["subject"]
             records == Records(ctx)
             record == RecordOf(records, id)
             v == ctx.meant[id]
             prefix == ctx.said["subject_prefix"].text
             normalized == ctx.said["normalized_subject"].text
             Said(text) == [kind |-> "text", text |-> text]
  <1>1. /\ id \in DOMAIN ctx.meant /\ v.kind = "str" /\ Tag["normalized_subject"] \notin Ids(records)
        /\ prefix \in Seq(Seq(Nat)) /\ normalized \in Seq(Seq(Nat))
        /\ IsSubject(Characters(v), prefix, normalized)
        /\ ctx.said = [subject |-> Said(prefix \o normalized), subject_prefix |-> Said(prefix),
                       normalized_subject |-> Said(normalized)]
    BY DEF SaysSubject
  <1>2. /\ ~IsRefusal(records) /\ id \in Ids(records) /\ ~IsNull(record)
        /\ Value(ctx, record, TRUE) = v /\ ~IsRefusal(v)
    BY <1>1, MeantIsRead
  <1>3. SplitSubject(v) = Parts(prefix, normalized) /\ ~IsRefusal(Parts(prefix, normalized))
    <2>1. SplitSubject(v) = Parts(prefix, normalized)
      BY <1>1, SubjectIs DEF SplitSubject
    <2>2. ~IsRefusal(Parts(prefix, normalized))
      BY DEF Parts, IsRefusal, Refusals
    <2>. QED  BY <2>1, <2>2
  <1>4. /\ DOMAIN ctx.said = {"subject", "subject_prefix", "normalized_subject"}
        /\ ctx.said["subject"] = Said(prefix \o normalized) /\ ctx.said["subject_prefix"] = Said(prefix)
        /\ ctx.said["normalized_subject"] = Said(normalized)
    <2> HIDE DEF prefix, normalized
    <2>1. ctx.said = [subject |-> Said(prefix \o normalized), subject_prefix |-> Said(prefix),
                      normalized_subject |-> Said(normalized)]
      BY <1>1
    <2>. QED  BY <2>1
  <1>5. Tag["subject_prefix"] = id /\ Tag["subject_raw"] = id
    BY TagAssumption
  <1> HIDE DEF records, record, v, prefix, normalized
  <1>6. Taken("text", v) = v
    BY <1>1 DEF Taken
  <1>7. Taken("subject", v) = Said(prefix \o normalized) /\ Taken("prefix", v) = Said(prefix)
    <2>1. /\ Parts(prefix, normalized).prefix = prefix
          /\ Parts(prefix, normalized).normalized = normalized
      BY DEF Parts
    <2>2. /\ Taken("subject", v) = Given(SplitSubject(v), LAMBDA split :
                [kind |-> "text", text |-> split.prefix \o split.normalized])
          /\ Taken("prefix", v) = Given(SplitSubject(v), LAMBDA split :
                [kind |-> "text", text |-> split.prefix])
      BY <1>1 DEF Taken
    <2>. QED  BY <1>3, <2>1, <2>2 DEF Given
  <1>8. ASSUME NEW n \in {"subject", "subject_prefix", "subject_raw"}
        PROVE  Access(ctx, records, n, TRUE) = Taken(Accessors[n].reads, v)
    <2>1. Tag[n] = id
      BY <1>5
    <2>2. Accessors[n].reads \notin {"ticks", "time"}
      BY SubjectAccessors DEF Reads
    <2>3. RecordOf(records, Tag[n]) = record
      BY <2>1 DEF record
    <2> HIDE DEF id
    <2>. QED  BY <1>2, <2>1, <2>2, <2>3 DEF Access, Given
  <1>9. /\ Access(ctx, records, "subject", TRUE) = Said(prefix \o normalized)
        /\ Access(ctx, records, "subject_prefix", TRUE) = Said(prefix)
        /\ Access(ctx, records, "subject_raw", TRUE) = v
    <2>1. /\ Accessors["subject"].reads = "subject" /\ Accessors["subject_prefix"].reads = "prefix"
          /\ Accessors["subject_raw"].reads = "text"
      BY SubjectAccessors DEF Reads
    <2>. QED  BY <1>6, <1>7, <1>8, <2>1
  <1>10. NormalizedSubject(ctx, records, TRUE) = Said(normalized)
    <2>1. Access(ctx, records, "normalized_subject", TRUE) = None
      <3>1. Accessors["normalized_subject"].required = FALSE
        BY SubjectAccessors DEF Reads
      <3>2. Tag["normalized_subject"] \notin Ids(records)
        BY <1>1
      <3>. QED  BY <3>1, <3>2 DEF Access
    <2>2. ~IsRefusal(None) /\ v # None
      BY <1>1, NoRefusalKinds DEF None
    <2>3. Parts(prefix, normalized).normalized = normalized
      BY DEF Parts
    <2>. QED  BY <1>2, <1>3, <1>9, <2>1, <2>2, <2>3 DEF NormalizedSubject, Given
  <1>. QED  BY <1>2, <1>4, <1>9, <1>10 DEF records

(* What is asked for by its id or by an accessor is asked of an object of  *)
(* the file.                                                               *)
ValueAsked == answer.call.op \in {"get", "access"} => answer.call.owner \in Owners

LEMMA ReadsBackOf ==
    ASSUME file \in Files, AnswersAreFiles, ValueAsked
    PROVE  ReadsWhatWasWritten
  <1> DEFINE call == answer.call
             ctx == Context(call.owner)
             value == answer.value
             record == RecordOf(Records(ctx), call.id)
  <1>1. ASSUME call.op \in {"get", "access"}
        PROVE  /\ value = Answers(call, NothingKept, TRUE) \/ value = Refused("ValueError")
               /\ call.owner \in Owners /\ IsContext(ctx) /\ HasWhatWasMeant(ctx) /\ SaysSubject(ctx)
               /\ Answers(call, NothingKept, TRUE) =
                     Given(Records(ctx), LAMBDA records : OnContext(ctx, records, call, TRUE))
    <2>1. value = Fresh(call)[TRUE] \/ value = Refused("ValueError")
      BY <1>1 DEF AnswersAreFiles, Agrees
    <2>2. Fresh(call)[TRUE] = Answers(call, NothingKept, TRUE)
      BY DEF Fresh
    <2>3. call.owner \in Owners
      BY <1>1 DEF ValueAsked
    <2>4. IsContext(ctx) /\ HasWhatWasMeant(ctx) /\ SaysSubject(ctx)
      BY <2>3, FilesAssumption, WrittenAssumption DEF Context
    <2>5. RecordsIn(ctx, NothingKept[call.owner]) = Records(ctx)
      BY <2>3, NothingKeptParts DEF RecordsIn
    <2>6. Answers(call, NothingKept, TRUE) = Reading(call, NothingKept, TRUE)
      BY <1>1 DEF Answers, OnContextOps, NamesOps
    <2>. QED  BY <2>1, <2>2, <2>3, <2>4, <2>5, <2>6 DEF Reading
  <1> HIDE DEF ctx
  <1>2. ASSUME call.op = "get", call.id \in DOMAIN ctx.meant
        PROVE  value \in {ctx.meant[call.id], Refused("ValueError")}
    <2>1. IsContext(ctx) /\ HasWhatWasMeant(ctx)
      BY <1>1, <1>2
    <2>2. /\ ~IsRefusal(Records(ctx)) /\ call.id \in Ids(Records(ctx))
          /\ Value(ctx, RecordOf(Records(ctx), call.id), TRUE) = ctx.meant[call.id]
      BY <1>2, <2>1, MeantIsRead
    <2>3. OnContext(ctx, Records(ctx), call, TRUE) = ctx.meant[call.id]
      BY <1>2, <2>2 DEF OnContext, GetValue
    <2>. QED  BY <1>1, <1>2, <2>2, <2>3 DEF Given
  <1>3. ASSUME call.op = "access", call.name \in DOMAIN ctx.said
        PROVE  value \in {ctx.said[call.name], Refused("ValueError")}
    <2>1. IsContext(ctx) /\ HasWhatWasMeant(ctx) /\ SaysSubject(ctx)
      BY <1>1, <1>3
    <2>2. /\ ~IsRefusal(Records(ctx))
          /\ call.name = "normalized_subject" =>
                NormalizedSubject(ctx, Records(ctx), TRUE) = ctx.said[call.name]
          /\ call.name # "normalized_subject" =>
                Access(ctx, Records(ctx), call.name, TRUE) = ctx.said[call.name]
      BY <1>3, <2>1, SaidIsRead
    <2>3. OnContext(ctx, Records(ctx), call, TRUE) = ctx.said[call.name]
      BY <1>3, <2>2 DEF OnContext
    <2>. QED  BY <1>1, <1>3, <2>2, <2>3 DEF Given
  <1>4. ASSUME call.op = "get", Whole(value)
        PROVE  decode(record.type, encode(record.type, value), TRUE) = value
    <2>1. ~IsRefusal(value) /\ value # None /\ value # Refused("ValueError")
      BY <1>4 DEF Whole, Refused, IsRefusal
    <2>2. IsContext(ctx)
      BY <1>1, <1>4
    <2>3. value = Given(Records(ctx), LAMBDA records : OnContext(ctx, records, call, TRUE))
      BY <1>1, <1>4, <2>1
    <2>4. ~IsRefusal(Records(ctx)) /\ value = OnContext(ctx, Records(ctx), call, TRUE)
      BY <2>1, <2>3 DEF Given
    <2>5. OnContext(ctx, Records(ctx), call, TRUE) = GetValue(ctx, Records(ctx), call.id, TRUE)
      BY <1>4 DEF OnContext
    <2>6. call.id \in Ids(Records(ctx)) /\ value = Value(ctx, record, TRUE)
      BY <2>1, <2>4, <2>5 DEF GetValue
    <2>7. record \in RecordType /\ record.type \in PropType
      BY <2>2, <2>4, <2>6, RecordKnown
    <2> HIDE DEF record, value
    <2>8. value \in Values(record.type)
      BY <1>4, <2>2, <2>6, <2>7, ValueIsOfType
    <2>. QED  BY <2>7, <2>8, RoundTrip DEF IsWritten
  <1>. QED  BY <1>2, <1>3, <1>4 DEF ReadsWhatWasWritten, ctx

(* A value a writer encoded is read back as it was, by its id and by the   *)
(* accessors of the subject, and any value that is answered is what its    *)
(* own bytes, as a writer has them, are read as: of every file, every      *)
(* type, every value and every order of calls.                             *)
THEOREM ReadsBack == StoreSpec => []ReadsWhatWasWritten
  <1>1. StoreInit => ValueAsked
    BY DEF StoreInit, ValueAsked, Ask
  <1>2. StoreTypeOK /\ ValueAsked /\ [StoreNext]_storevars => ValueAsked'
    <2>0. SUFFICES ASSUME StoreTypeOK, ValueAsked, [StoreNext]_storevars PROVE ValueAsked'
      OBVIOUS
    <2>1. CASE OpenStore \/ Close
      BY <2>1 DEF OpenStore, Close, Ask, ValueAsked
    <2>2. CASE Read
      <3>1. PICK c \in ReadCalls : answer'.call = c
        BY <2>2 DEF Read
      <3>2. c.owner \in Owners
        BY <2>0, CallShapes DEF StoreTypeOK
      <3>. QED  BY <3>1, <3>2 DEF ValueAsked
    <2>3. CASE OpenObject
      <3>1. PICK c \in OpenCalls : answer'.call = c
        BY <2>3 DEF OpenObject
      <3>2. c.op \notin {"get", "access"}
        BY CallShapes DEF OnContextOps
      <3>. QED  BY <3>1, <3>2 DEF ValueAsked
    <2>4. CASE Next
      BY <2>4 DEF Next, ValueAsked
    <2>5. CASE Iterate \/ UNCHANGED storevars
      BY <2>0, <2>5 DEF Iterate, storevars, ValueAsked
    <2>. QED  BY <2>0, <2>1, <2>2, <2>3, <2>4, <2>5 DEF StoreNext
  <1>3. StoreInv => file \in Files
    BY DEF StoreInv, KeptIsFresh
  <1>. QED  BY <1>1, <1>2, <1>3, ReadsBackOf, SessionInvariant, StoreTypeCorrect, AnswersFresh, PTL DEF StoreSpec

-----------------------------------------------------------------------------
(* The hash table.  A NAMEID is its fields, and the fields a NAMEID's.     *)
IsNameId(raw) == raw \in Seq(Byte) /\ Len(raw) = NameIdSize

LEMMA NameIdsAre ==
    ASSUME NEW bytes \in Seq(Byte)
    PROVE  LET n == Len(bytes) \div NameIdSize
               Slice(i) == SubSeq(bytes, (i - 1) * NameIdSize + 1, i * NameIdSize)
           IN /\ n \in Nat /\ NameIds(bytes) = {Slice(i) : i \in 1..n}
              /\ \A i \in 1..n : IsNameId(Slice(i))
  <1>1. PICK l \in Nat : l = Len(bytes)
    BY LenProperties
  <1>2. PICK n \in Nat, r \in Nat : n = l \div 8 /\ l = n * 8 + r
    <2>1. l \div 8 \in Nat
      BY DivisionOfNat
    <2>2. l % 8 \in Nat /\ l = (l \div 8) * 8 + (l % 8)
      BY Division
    <2>. QED  BY <2>1, <2>2
  <1>3. ASSUME NEW i \in 1..n PROVE IsNameId(SubSeq(bytes, (i - 1) * 8 + 1, i * 8))
    <2>1. PICK k \in Nat : i = k + 1 /\ k + 1 <= n
      <3>1. i - 1 \in Nat /\ i = (i - 1) + 1
        OBVIOUS
      <3>. QED  BY <3>1
    <2>2. PICK a \in Nat : a = k * 8 /\ (i - 1) * 8 = a /\ i * 8 = a + 8 /\ a + 8 <= l
      BY <1>2, <2>1
    <2>3. SubSeq(bytes, a + 1, a + 8) \in Seq(Byte) /\ Len(SubSeq(bytes, a + 1, a + 8)) = 8
      BY <1>1, <2>2, SliceIs
    <2>. QED  BY <2>2, <2>3 DEF IsNameId, NameIdSize
  <1>. QED  BY <1>1, <1>2, <1>3 DEF NameIds, NameIdSize

LEMMA FieldsAre ==
    ASSUME NEW raw, IsNameId(raw)
    PROVE  IdField(raw) \in Nat /\ FlagField(raw) \in Nat /\ IndexField(raw) \in Nat
  <1>2. raw \in Seq(Byte) /\ Len(raw) = 8
    BY DEF IsNameId, NameIdSize
  <1>3. ASSUME NEW a \in Nat, NEW k \in Nat, a + k <= 8
        PROVE  SubSeq(raw, a + 1, a + k) \in Seq(Byte)
    <2>1. a + k <= Len(raw)
      BY <1>2, <1>3
    <2>2. IsSlice(Byte, raw, a, k)
      BY <1>2, <2>1, SliceOf
    <2>. QED  BY <2>2 DEF IsSlice
  <1>4. /\ 0 + 4 <= 8 /\ 4 + 2 <= 8 /\ 6 + 2 <= 8
        /\ 0 + 1 = 1 /\ 0 + 4 = 4 /\ 4 + 1 = 5 /\ 4 + 2 = 6 /\ 6 + 1 = 7 /\ 6 + 2 = 8
    OBVIOUS
  <1>5. SubSeq(raw, 1, 4) \in Seq(Byte)
    <2>1. PICK a \in Nat, k \in Nat : a = 0 /\ k = 4 /\ a + k <= 8 /\ a + 1 = 1 /\ a + k = 4
      BY <1>4
    <2>. QED  BY <1>3, <2>1
  <1>6. SubSeq(raw, 5, 6) \in Seq(Byte)
    <2>1. PICK a \in Nat, k \in Nat : a = 4 /\ k = 2 /\ a + k <= 8 /\ a + 1 = 5 /\ a + k = 6
      BY <1>4
    <2>. QED  BY <1>3, <2>1
  <1>7. SubSeq(raw, 7, 8) \in Seq(Byte)
    <2>1. PICK a \in Nat, k \in Nat : a = 6 /\ k = 2 /\ a + k <= 8 /\ a + 1 = 7 /\ a + k = 8
      BY <1>4
    <2>. QED  BY <1>3, <2>1
  <1>. QED  BY <1>5, <1>6, <1>7, LittleEndianRange DEF IdField, FlagField, IndexField

LEMMA NameIdIs ==
    ASSUME NEW raw
    PROVE  /\ IndexField(raw) >= NamedBase => NameId(raw) = BadFormat
           /\ ~(IndexField(raw) >= NamedBase) =>
                NameId(raw) = [kind |-> "entry", name_id |-> IdField(raw), guid |-> FlagField(raw) \div 2,
                               is_string |-> FlagField(raw) % 2 = 1, prop_id |-> NamedBase + IndexField(raw)]
  BY DEF NameId, IdField, FlagField, IndexField

(* The property set's number and the flag are put together as they were.   *)
LEMMA FlagsTogether ==
    ASSUME NEW f \in Nat
    PROVE  2 * (f \div 2) + (IF f % 2 = 1 THEN 1 ELSE 0) = f
  OBVIOUS

(* What is unpacked of a stream of entries, and when it is.                *)
LEMMA EntriesAre ==
    ASSUME NEW bytes \in Seq(Byte)
    PROVE  LET n == Len(bytes) \div NameIdSize
               items == [i \in 1..n |->
                            NameId(SubSeq(bytes, (i - 1) * NameIdSize + 1, i * NameIdSize))]
               entries == EntriesIn(Binary(bytes))
           IN /\ ~IsRefusal(entries) =>
                   /\ entries = [kind |-> "entries", items |-> items]
                   /\ \A raw \in NameIds(bytes) : ~IsRefusal(NameId(raw))
              /\ (/\ Len(bytes) % NameIdSize = 0 /\ n <= MaxItems
                  /\ \A raw \in NameIds(bytes) : ~IsRefusal(NameId(raw))) =>
                   entries = [kind |-> "entries", items |-> items]
  <1> DEFINE n == Len(bytes) \div NameIdSize
             Slice(i) == SubSeq(bytes, (i - 1) * NameIdSize + 1, i * NameIdSize)
             items == [i \in 1..n |-> NameId(Slice(i))]
             entries == EntriesIn(Binary(bytes))
             unpacked == [kind |-> "entries", items |-> items]
  <1>1. n \in Nat /\ NameIds(bytes) = {Slice(i) : i \in 1..n}
    BY NameIdsAre
  <1>2. ~IsRefusal(Binary(bytes)) /\ Binary(bytes).bytes = bytes
    BY NoRefusalKinds DEF Binary
  <1>3. entries = IF Len(bytes) % NameIdSize # 0 THEN BadFormat
                  ELSE IF Exceeds(n, MaxItems) THEN Refused("PstLimitError")
                  ELSE Given(Tuple(items), LAMBDA tuple : [kind |-> "entries", items |-> tuple.items])
    BY <1>2 DEF EntriesIn, Unpacked, Given
  <1>4. IsRefusal(Refused("PstLimitError")) /\ ~IsRefusal(unpacked)
    BY DEF IsRefusal, Refused, Refusals
  <1>5. n <= MaxItems => ~Exceeds(n, MaxItems)
    BY <1>1, NamedPropsAssumption DEF Exceeds
  <1>6. DOMAIN items = 1..n /\ \A i \in 1..n : items[i] = NameId(Slice(i))
    OBVIOUS
  <1> HIDE DEF n, entries, items, Slice
  <1>7. DOMAIN items \in SUBSET Nat
    BY <1>1, <1>6
  <1>8. (\A i \in 1..n : ~IsRefusal(items[i])) <=> \A raw \in NameIds(bytes) : ~IsRefusal(NameId(raw))
    BY <1>1, <1>6
  <1>8a. \/ (\A i \in 1..n : ~IsRefusal(items[i])) /\ ~IsRefusal(Tuple(items)) /\ Tuple(items).items = items
         \/ IsRefusal(Tuple(items)) /\ \E i \in 1..n : IsRefusal(items[i])
    <2>1. [kind |-> "tuple", items |-> items].items = items
      OBVIOUS
    <2>. QED  BY <1>6, <1>7, <2>1, TupleFirst
  <1>9. ~IsRefusal(Tuple(items)) => Tuple(items).items = items /\ \A i \in 1..n : ~IsRefusal(items[i])
    BY <1>8a
  <1>10. (\A i \in 1..n : ~IsRefusal(items[i])) => ~IsRefusal(Tuple(items)) /\ Tuple(items).items = items
    BY <1>8a
  <1>11. ~IsRefusal(entries) => entries = unpacked /\ \A i \in 1..n : ~IsRefusal(items[i])
    BY <1>3, <1>4, <1>9, BadFormatRefuses DEF Given
  <1>12. Len(bytes) % NameIdSize = 0 /\ n <= MaxItems /\ (\A i \in 1..n : ~IsRefusal(items[i]))
            => entries = unpacked
    BY <1>3, <1>5, <1>10 DEF Given
  <1>. QED  BY <1>8, <1>11, <1>12 DEF n, entries, items, Slice
(* A stream that a writer meant is read as its bytes.                      *)
LEMMA MeantStream ==
    ASSUME NEW ctx, IsContext(ctx), HasWhatWasMeant(ctx),
           NEW id \in DOMAIN ctx.meant, ctx.meant[id] \in Values("BINARY")
    PROVE  /\ ctx.meant[id].bytes \in Seq(Byte)
           /\ id \in Ids(RecordsIn(ctx, KeptByNames))
           /\ Stream(ctx, KeptByNames, id, TRUE) = Binary(ctx.meant[id].bytes)
  <1>1. ctx.meant[id] \in [kind : {"bytes"}, bytes : Seq(Byte)]
    BY ValuesAre, SingleValuesAre DEF SingleTypes
  <1>2. ctx.meant[id].kind = "bytes" /\ ctx.meant[id] = Binary(ctx.meant[id].bytes)
    BY <1>1 DEF Binary
  <1>3. RecordsIn(ctx, KeptByNames) = Records(ctx)
    BY NewMapIsFresh
  <1>4. /\ ~IsRefusal(Records(ctx)) /\ id \in Ids(Records(ctx))
        /\ Value(ctx, RecordOf(Records(ctx), id), TRUE) = ctx.meant[id] /\ ~IsRefusal(ctx.meant[id])
    BY MeantIsRead
  <1>5. Stream(ctx, KeptByNames, id, TRUE) = ctx.meant[id]
    BY <1>2, <1>3, <1>4 DEF Stream, Given
  <1>. QED  BY <1>1, <1>2, <1>3, <1>4, <1>5

(* The count of buckets is the one that was meant.                         *)
LEMMA MeantCount ==
    ASSUME NEW ctx, IsContext(ctx), HasWhatWasMeant(ctx), BucketCountId \in DOMAIN ctx.meant,
           RecordOf(Records(ctx), BucketCountId).type = "LONG",
           ctx.meant[BucketCountId].int \in 1..MaxBucketCount,
           \A id \in Ids(Records(ctx)) : id - BucketBase < ctx.meant[BucketCountId].int
    PROVE  /\ BucketCount(ctx, KeptByNames, TRUE) = ctx.meant[BucketCountId]
           /\ ~IsRefusal(ctx.meant[BucketCountId]) /\ ctx.meant[BucketCountId].int # 0
  <1> DEFINE count == ctx.meant[BucketCountId]
  <1>1. RecordsIn(ctx, KeptByNames) = Records(ctx)
    BY NewMapIsFresh
  <1>2. /\ ~IsRefusal(Records(ctx)) /\ BucketCountId \in Ids(Records(ctx))
        /\ Value(ctx, RecordOf(Records(ctx), BucketCountId), TRUE) = count /\ ~IsRefusal(count)
    BY MeantIsRead
  <1>3. CountRecord(ctx, KeptByNames, TRUE) = count
    BY <1>1, <1>2 DEF CountRecord, Given
  <1>4. MaxBucketCount \in Int
    <2>1. PICK m \in Nat : m = Numbers[2]
      BY NumbersAre
    <2>. QED  BY <2>1, NamedPropsAssumption DEF MaxBucketCount
  <1>5. count.int \in 0..MaxBucketCount /\ count.int # 0
    BY <1>4
  <1>6. ~\E id \in Ids(Records(ctx)) : id - BucketBase >= count.int
    <2>1. ASSUME NEW id \in Ids(Records(ctx)) PROVE ~(id - BucketBase >= count.int)
      <3>1. RecordOf(Records(ctx), id) \in RecordType /\ RecordOf(Records(ctx), id).id = id
        BY <1>2, RecordKnown
      <3>2. id \in Nat
        BY <3>1 DEF RecordType
      <3>3. PICK k \in Nat, b \in Nat : k = count.int /\ b = BucketBase /\ id - b < k
        BY <1>5, NamedPropsAssumption
      <3>. QED  BY <3>2, <3>3
    <2>. QED  BY <2>1
  <1> HIDE DEF count
  <1>. QED  BY <1>1, <1>2, <1>3, <1>5, <1>6 DEF BucketCount, Given, count

(* An entry is hashed as its NAMEID is.                                    *)
EntryOfRaw(raw) ==
    [kind |-> "entry", name_id |-> IdField(raw), guid |-> FlagField(raw) \div 2,
     is_string |-> FlagField(raw) % 2 = 1, prop_id |-> NamedBase + IndexField(raw)]

LEMMA EntryIsHashed ==
    ASSUME NEW ctx, NEW strings \in Seq(Byte),
           Stream(ctx, KeptByNames, StringStream, TRUE) = Binary(strings),
           NEW raw, IsNameId(raw), FlagField(raw) % 2 = 1 => LiesAt(strings, IdField(raw))
    PROVE  LET hashed == HashEntry(ctx, KeptByNames, EntryOfRaw(raw), TRUE)
           IN ~IsRefusal(hashed) /\ HashValue(hashed) = ExclusiveOr(HashedId(strings, raw), FlagField(raw))
  <1> DEFINE entry == EntryOfRaw(raw)
             string == FlagField(raw) % 2 = 1
             hashed == HashEntry(ctx, KeptByNames, entry, TRUE)
  <1>1. IdField(raw) \in Nat /\ FlagField(raw) \in Nat
    BY FieldsAre
  <1>2. /\ hashed.kind = "entry" /\ hashed.name_id = HashedId(strings, raw)
        /\ hashed.guid = FlagField(raw) \div 2 /\ hashed.is_string = string
    <2>1. CASE ~string
      <3>1. hashed = entry
        BY <2>1 DEF HashEntry, EntryOfRaw
      <3>2. HashedId(strings, raw) = IdField(raw)
        BY <2>1 DEF HashedId
      <3>3. /\ entry.kind = "entry" /\ entry.name_id = IdField(raw)
            /\ entry.guid = FlagField(raw) \div 2 /\ entry.is_string = string
        BY DEF EntryOfRaw
      <3> HIDE DEF entry, hashed, string
      <3>. QED  BY <3>1, <3>2, <3>3
    <2>2. CASE string
      <3> DEFINE offset == IdField(raw)
                 found == StringAt(strings, offset)
      <3>1. LiesAt(strings, offset)
        BY <2>2
      <3>2. ~IsRefusal(Binary(strings)) /\ Binary(strings).bytes = strings
        BY NoRefusalKinds DEF Binary
      <3>3. PICK l \in Nat : l = Len(strings)
        BY LenProperties
      <3>4. PICK size : /\ size = LittleEndian(SubSeq(strings, offset + 1, offset + CountSize))
                        /\ size = SizeAt(strings, offset)
        BY DEF SizeAt
      <3>5. size \in Nat
        <4>1. offset + 4 <= Len(strings)
          BY <3>1 DEF LiesAt, CountSize
        <4>2. PICK k \in Nat : k = 4 /\ offset + k <= Len(strings)
          BY <4>1
        <4>3. IsSlice(Byte, strings, offset, k)
          BY <1>1, <4>2, SliceOf
        <4>4. SubSeq(strings, offset + 1, offset + CountSize) \in Seq(Byte)
          BY <4>2, <4>3 DEF IsSlice, CountSize
        <4>. QED  BY <3>4, <4>4, LittleEndianRange
      <3>6. ~(offset + CountSize > Len(strings))
        BY <1>1, <3>1, <3>3 DEF LiesAt, CountSize
      <3>7. ~(size % 2 # 0) /\ ~(offset + CountSize + size > Len(strings))
        <4>1. size % 2 = 0 /\ offset + CountSize + size <= l
          BY <3>1, <3>3, <3>4 DEF LiesAt
        <4>. QED  BY <1>1, <3>3, <3>5, <4>1 DEF CountSize
      <3>8. found = SubSeq(strings, offset + CountSize + 1, offset + CountSize + size)
        BY <3>4 DEF StringAt
      <3> HIDE DEF offset, found
      <3>9. StringBytes(ctx, KeptByNames, offset, TRUE) = Binary(found)
        BY <3>2, <3>4, <3>6, <3>7, <3>8 DEF StringBytes, Given
      <3>10. ~IsRefusal(Binary(found)) /\ Binary(found).bytes = found
        BY NoRefusalKinds DEF Binary
      <3>11. HashedId(strings, raw) = Crc(found)
        BY <2>2 DEF HashedId, found, offset
      <3>12. entry.is_string /\ entry.name_id = offset
        BY <2>2 DEF EntryOfRaw, offset
      <3> HIDE DEF entry
      <3>13. HashEntry(ctx, KeptByNames, entry, TRUE) = [entry EXCEPT !.name_id = Crc(found)]
        BY <3>9, <3>10, <3>12 DEF HashEntry, Given
      <3>14. [entry EXCEPT !.name_id = Crc(found)].name_id = Crc(found)
        BY DEF entry, EntryOfRaw
      <3>15. LET h == [entry EXCEPT !.name_id = Crc(found)]
             IN h.kind = "entry" /\ h.guid = FlagField(raw) \div 2 /\ h.is_string = string
        BY DEF entry, EntryOfRaw
      <3>. QED  BY <3>11, <3>13, <3>14, <3>15
    <2>. QED  BY <2>1, <2>2
  <1>4. ~IsRefusal(hashed)
    BY <1>2 DEF IsRefusal, Refusals
  <1> HIDE DEF hashed
  <1>5. 2 * hashed.guid + (IF hashed.is_string THEN 1 ELSE 0) = FlagField(raw)
    <2>1. 2 * (FlagField(raw) \div 2) + (IF FlagField(raw) % 2 = 1 THEN 1 ELSE 0) = FlagField(raw)
      BY <1>1, FlagsTogether
    <2>. QED  BY <1>2, <2>1
  <1>. QED  BY <1>2, <1>4, <1>5 DEF HashValue, hashed, entry

(* The bucket of an entry holds it, in a map as a writer leaves it.        *)
LEMMA BucketHolds ==
    ASSUME NEW ctx, IsContext(ctx), HasWhatWasMeant(ctx), IsHashed(ctx),
           NEW entry \in ToSet(ItemsOf(Entries(ctx, KeptByNames, TRUE)))
    PROVE  LET found == HashBucket(ctx, KeptByNames, entry, TRUE)
           IN found.kind = "entries" /\ \E e \in ToSet(found.items) : e.prop_id = entry.prop_id
  <1> DEFINE meant == ctx.meant
             count == meant[BucketCountId].int
             strings == meant[StringStream].bytes
             bytes == meant[EntryStream].bytes
             named == NameIds(bytes)
             BucketOf(raw) == BucketBase + (ExclusiveOr(HashedId(strings, raw), FlagField(raw)) % count)
  <1>1. /\ BucketCountId \in DOMAIN meant /\ EntryStream \in DOMAIN meant /\ StringStream \in DOMAIN meant
        /\ meant[EntryStream] \in Values("BINARY") /\ meant[StringStream] \in Values("BINARY")
        /\ RecordOf(Records(ctx), BucketCountId).type = "LONG" /\ count \in 1..MaxBucketCount
        /\ \A id \in Ids(Records(ctx)) : id - BucketBase < count
    BY DEF IsHashed
  <1>2. ASSUME NEW raw \in named
        PROVE  /\ FlagField(raw) % 2 = 1 => LiesAt(strings, IdField(raw))
               /\ BucketOf(raw) \in DOMAIN meant /\ meant[BucketOf(raw)] \in Values("BINARY")
               /\ HoldsCopies(meant[BucketOf(raw)].bytes, raw, named, strings)
    BY DEF IsHashed
  <1>3. /\ strings \in Seq(Byte) /\ Stream(ctx, KeptByNames, StringStream, TRUE) = Binary(strings)
        /\ bytes \in Seq(Byte) /\ Stream(ctx, KeptByNames, EntryStream, TRUE) = Binary(bytes)
    BY <1>1, MeantStream
  <1>4. ASSUME NEW raw \in named
        PROVE  /\ meant[BucketOf(raw)].bytes \in Seq(Byte)
               /\ BucketOf(raw) \in Ids(RecordsIn(ctx, KeptByNames))
               /\ Stream(ctx, KeptByNames, BucketOf(raw), TRUE) = Binary(meant[BucketOf(raw)].bytes)
    <2>1. PICK id : id = BucketOf(raw)
      OBVIOUS
    <2>2. id \in DOMAIN ctx.meant /\ ctx.meant[id] \in Values("BINARY")
      BY <1>2, <2>1
    <2>. QED  BY <2>1, <2>2, MeantStream
  <1>5. /\ BucketCount(ctx, KeptByNames, TRUE) = meant[BucketCountId]
        /\ ~IsRefusal(meant[BucketCountId]) /\ count # 0
    BY <1>1, MeantCount
  <1> HIDE DEF meant, strings, bytes, count
  <1>6. Entries(ctx, KeptByNames, TRUE) = EntriesIn(Binary(bytes))
    BY <1>3 DEF Entries, KeptByNames, EntriesIn
  <1>7. ~IsRefusal(EntriesIn(Binary(bytes))) /\ entry \in ToSet(EntriesIn(Binary(bytes)).items)
    <2>1. ToSet(<<>>) = {}
      BY DEF ToSet
    <2>. QED  BY <1>6, <2>1 DEF ItemsOf
  <1>8. /\ \A raw \in named : ~IsRefusal(NameId(raw))
        /\ \E raw \in named : entry = NameId(raw)
    <2> DEFINE n == Len(bytes) \div NameIdSize
               Slice(i) == SubSeq(bytes, (i - 1) * NameIdSize + 1, i * NameIdSize)
               items == [i \in 1..n |-> NameId(Slice(i))]
    <2>1. EntriesIn(Binary(bytes)).items = items /\ \A raw \in named : ~IsRefusal(NameId(raw))
      <3>1. EntriesIn(Binary(bytes)) = [kind |-> "entries", items |-> items]
        BY <1>3, <1>7, EntriesAre
      <3>2. \A raw \in named : ~IsRefusal(NameId(raw))
        BY <1>3, <1>7, EntriesAre
      <3> HIDE DEF items, named
      <3>. QED  BY <3>1, <3>2
    <2>2. named = {Slice(i) : i \in 1..n}
      BY <1>3, NameIdsAre
    <2>3. PICK i \in 1..n : entry = NameId(Slice(i))
      BY <1>7, <2>1 DEF ToSet
    <2>. QED  BY <2>1, <2>2, <2>3
  <1>9. PICK raw \in named : entry = NameId(raw)
    BY <1>8
  <1>10. ASSUME NEW r \in named PROVE IsNameId(r) /\ ~(IndexField(r) >= NamedBase) /\ NameId(r) = EntryOfRaw(r)
    <2>1. IsNameId(r)
      BY <1>3, NameIdsAre
    <2>2. ~(IndexField(r) >= NamedBase)
      BY <1>8, NameIdIs, BadFormatRefuses
    <2>. QED  BY <2>1, <2>2, NameIdIs DEF EntryOfRaw
  <1>11. /\ entry = EntryOfRaw(raw) /\ ~IsRefusal(HashEntry(ctx, KeptByNames, entry, TRUE))
         /\ HashValue(HashEntry(ctx, KeptByNames, entry, TRUE)) =
                ExclusiveOr(HashedId(strings, raw), FlagField(raw))
    BY <1>2, <1>3, <1>9, <1>10, EntryIsHashed
  <1> DEFINE bucket == meant[BucketOf(raw)].bytes
             n == Len(bucket) \div NameIdSize
             Slice(i) == SubSeq(bucket, (i - 1) * NameIdSize + 1, i * NameIdSize)
             items == [i \in 1..n |-> NameId(Slice(i))]
  <1>12. bucket \in Seq(Byte) /\ HoldsCopies(bucket, raw, named, strings)
    BY <1>2, <1>4
  <1>13. HashBucket(ctx, KeptByNames, entry, TRUE) = EntriesIn(Binary(bucket))
    <2> DEFINE hashed == HashEntry(ctx, KeptByNames, entry, TRUE)
    <2>1. BucketBase + (HashValue(hashed) % count) = BucketOf(raw)
      BY <1>11
    <2>2. ~IsRefusal(hashed)
      BY <1>11
    <2>3. BucketOf(raw) \in Ids(RecordsIn(ctx, KeptByNames))
      BY <1>4
    <2>4. Stream(ctx, KeptByNames, BucketOf(raw), TRUE) = Binary(bucket)
      BY <1>4
    <2>5. meant[BucketCountId].int = count
      BY DEF count
    <2> HIDE DEF hashed, BucketOf, bucket, named
    <2>. QED  BY <1>5, <2>1, <2>2, <2>3, <2>4, <2>5 DEF HashBucket, Given, EntriesIn, hashed
  <1>14. ASSUME NEW copy \in NameIds(bucket)
         PROVE  ~IsRefusal(NameId(copy)) /\ NameId(copy).prop_id = NamedBase + IndexField(copy)
    <2>1. PICK other \in named : IsCopy(copy, other, strings)
      BY <1>12 DEF HoldsCopies
    <2>2. ~(IndexField(copy) >= NamedBase)
      BY <1>10, <2>1 DEF IsCopy
    <2>3. NameId(copy) = EntryOfRaw(copy)
      BY <2>2, NameIdIs DEF EntryOfRaw
    <2>4. EntryOfRaw(copy).kind = "entry" /\ EntryOfRaw(copy).prop_id = NamedBase + IndexField(copy)
      BY DEF EntryOfRaw
    <2>. QED  BY <2>3, <2>4 DEF IsRefusal, Refusals
  <1>15. EntriesIn(Binary(bucket)) = [kind |-> "entries", items |-> items]
    <2>1. Len(bucket) % NameIdSize = 0 /\ n <= MaxItems
      BY <1>12 DEF HoldsCopies
    <2> HIDE DEF bucket, named
    <2>. QED  BY <1>12, <1>14, <2>1, EntriesAre
  <1>16. PICK copy \in NameIds(bucket) : IsCopy(copy, raw, strings)
    BY <1>12 DEF HoldsCopies
  <1>17. NameId(copy) \in ToSet(items) /\ NameId(copy).prop_id = entry.prop_id
    <2>1. NameIds(bucket) = {Slice(i) : i \in 1..n}
      BY <1>12, NameIdsAre
    <2>2. PICK i \in 1..n : copy = Slice(i)
      BY <2>1
    <2>3. items[i] = NameId(copy) /\ i \in DOMAIN items
      BY <2>2
    <2>4. IndexField(copy) = IndexField(raw) /\ entry.prop_id = NamedBase + IndexField(raw)
      BY <1>11, <1>16 DEF IsCopy, EntryOfRaw
    <2> HIDE DEF items, bucket
    <2>. QED  BY <1>14, <2>3, <2>4 DEF ToSet
  <1>18. PICK its : its = items
    OBVIOUS
  <1>19. PICK found : found = HashBucket(ctx, KeptByNames, entry, TRUE)
    OBVIOUS
  <1>20. found = [kind |-> "entries", items |-> its]
    BY <1>13, <1>15, <1>18, <1>19
  <1>21. NameId(copy) \in ToSet(its)
    BY <1>17, <1>18
  <1> HIDE DEF items, bucket
  <1>22. found.kind = "entries" /\ found.items = its
    BY <1>20
  <1>23. \E e \in ToSet(found.items) : e.prop_id = entry.prop_id
    BY <1>17, <1>21, <1>22
  <1>. QED  BY <1>19, <1>22, <1>23

(* hash_bucket is asked of the map, for an entry of the file's.            *)
BucketAsked == answer.call.op = "hash_bucket" => answer.call.entry \in HeldEntries

LEMMA BucketCalls == \A c \in ReadCalls : c.op = "hash_bucket" => c.entry \in HeldEntries
  <1> SUFFICES ASSUME NEW c \in ReadCalls, c.op = "hash_bucket" PROVE c.entry \in HeldEntries
    OBVIOUS
  <1>1. c \notin NumberCalls /\ c \notin AccessCalls /\ \A o \in Owners : c # Ask("len", o)
    BY DEF NumberCalls, AccessCalls, Ask
  <1>2. c \in NamesCalls
    BY <1>1 DEF ReadCalls
  <1>. QED  BY <1>2 DEF NamesCalls, Ask

LEMMA BucketsHoldOf ==
    ASSUME file \in Files, AnswersAreFiles, NamesAsked, BucketAsked
    PROVE  BucketsHoldEntries
  <1> DEFINE names == Context("names")
             call == answer.call
             value == answer.value
  <1> SUFFICES ASSUME call.op = "hash_bucket", file.hashed
               PROVE  \/ value = Refused("ValueError")
                      \/ /\ value.kind = "entries"
                         /\ \E e \in ToSet(value.items) : e.prop_id = call.entry.prop_id
    BY DEF BucketsHoldEntries
  <1>1. value \in {Fresh(call)[TRUE], Refused("ValueError")}
    BY DEF AnswersAreFiles, Agrees, NamesOps
  <1>2. call.op \notin OnContextOps /\ call.owner = "names"
    BY DEF NamesAsked, NamesOps, OnContextOps
  <1>3. Fresh(call)[TRUE] = NamesAnswer(names, KeptByNames, call, TRUE)
    BY <1>2, NothingKeptParts DEF Fresh, Answers, NamesOps
  <1>4. NamesAnswer(names, KeptByNames, call, TRUE) = HashBucket(names, KeptByNames, call.entry, TRUE)
    BY DEF NamesAnswer
  <1>5. "names" \in Owners
    BY DEF Owners
  <1>6. IsContext(names) /\ HasWhatWasMeant(names) /\ IsHashed(names)
    BY <1>5, FilesAssumption, WrittenAssumption DEF Context
  <1>7. call.entry \in ToSet(ItemsOf(Entries(names, KeptByNames, TRUE)))
    BY DEF BucketAsked, HeldEntries, FreshEntries
  <1>8. PICK entry : entry = call.entry
    OBVIOUS
  <1>9. PICK ctx : ctx = names
    OBVIOUS
  <1> HIDE DEF names, call, value
  <1>10. /\ IsContext(ctx) /\ HasWhatWasMeant(ctx) /\ IsHashed(ctx)
         /\ entry \in ToSet(ItemsOf(Entries(ctx, KeptByNames, TRUE)))
    BY <1>6, <1>7, <1>8, <1>9
  <1>11. PICK found : found = HashBucket(ctx, KeptByNames, entry, TRUE)
    OBVIOUS
  <1>12. found.kind = "entries" /\ \E e \in ToSet(found.items) : e.prop_id = entry.prop_id
    BY <1>10, <1>11, BucketHolds
  <1>13. value = found \/ value = Refused("ValueError")
    BY <1>1, <1>3, <1>4, <1>8, <1>9, <1>11
  <1>. QED  BY <1>8, <1>12, <1>13

(* In every map that a writer made, and in every order of calls, the       *)
(* bucket hash_bucket reads for an entry has that entry in it.             *)
THEOREM BucketsAlwaysHold == StoreSpec => []BucketsHoldEntries
  <1>1. StoreInit => NamesAsked /\ BucketAsked
    BY DEF StoreInit, NamesAsked, BucketAsked, Ask, NamesOps
  <1>2. NamesAsked /\ BucketAsked /\ [StoreNext]_storevars => NamesAsked' /\ BucketAsked'
    <2>0. SUFFICES ASSUME NamesAsked, BucketAsked, [StoreNext]_storevars PROVE NamesAsked' /\ BucketAsked'
      OBVIOUS
    <2>1. file' = file
      BY <2>0 DEF StoreNext, OpenStore, Close, Read, OpenObject, Iterate, Next, storevars
    <2>2. HeldEntries' = HeldEntries
      BY <2>1 DEF HeldEntries, FreshEntries, Context
    <2>3. CASE OpenStore \/ Close
      BY <2>3 DEF OpenStore, Close, Ask, NamesAsked, BucketAsked, NamesOps
    <2>4. CASE Read
      <3>1. PICK c \in ReadCalls : answer'.call = c
        BY <2>4 DEF Read
      <3>. QED  BY <2>2, <3>1, CallShapes, BucketCalls DEF NamesAsked, BucketAsked
    <2>5. CASE OpenObject
      <3>1. PICK c \in OpenCalls : answer'.call = c
        BY <2>5 DEF OpenObject
      <3>2. c.op \notin NamesOps /\ c.op # "hash_bucket"
        BY CallShapes DEF NamesOps
      <3>. QED  BY <3>1, <3>2 DEF NamesAsked, BucketAsked
    <2>6. CASE Next
      BY <2>6 DEF Next, NamesAsked, BucketAsked, NamesOps
    <2>7. CASE Iterate \/ UNCHANGED storevars
      BY <2>0, <2>2, <2>7 DEF Iterate, storevars, NamesAsked, BucketAsked
    <2>. QED  BY <2>0, <2>3, <2>4, <2>5, <2>6, <2>7 DEF StoreNext
  <1>3. StoreInv => file \in Files
    BY DEF StoreInv, KeptIsFresh
  <1>. QED  BY <1>1, <1>2, <1>3, BucketsHoldOf, SessionInvariant, AnswersFresh, PTL DEF StoreSpec
=============================================================================
