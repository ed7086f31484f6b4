---------------------------- MODULE MCTableContext ----------------------------
(***************************************************************************)
(* TableContext over tables of no to three blocks with widths that leave   *)
(* padding, blocks with no row, matrices that refuse or are at and above   *)
(* the ceilings, schemas that are legal, illegal in one respect, or empty, *)
(* and indexes with ids repeated, missing or pointing past the last row.   *)
(***************************************************************************)
EXTENDS TableContext

CONSTANTS x, y

MCRowIds == {x, y}

Col(t, o, n, b) == [type |-> t, reserved |-> "none", offset |-> o, size |-> n, bit |-> b]
RowId == [Col("long", 0, 4, 0) EXCEPT !.reserved = "id"]
Version == [Col("long", 4, 4, 1) EXCEPT !.reserved = "version"]
Ends(a, b, c, d, columns) ==
    [end4 |-> a, end2 |-> b, end1 |-> c, endBitmap |-> d, columns |-> columns]

(* The plain schema: rows of 13 bytes. *)
Plain == Ends(12, 12, 12, 13, <<RowId, Version, Col("hnid", 8, 4, 2)>>)
Small == Ends(8, 8, 8, 9, <<RowId>>)
Infos == {Plain, Small,
          Ends(8, 8, 8, 9, <<RowId, Col("four", 4, 4, 1)>>),
          Ends(8, 8, 8, 9, <<Col("long", 4, 4, 1), [Col("four", 0, 4, 2) EXCEPT !.reserved = "id"]>>),
          Ends(12, 14, 15, 16, <<RowId, Col("two", 12, 2, 1), Col("one", 14, 1, 2), Col("four", 8, 4, 3)>>),
          Ends(8, 8, 8, 9, <<Col("hnid", 4, 4, 1)>>), Ends(16, 16, 16, 17, <<Col("eight", 8, 8, 0)>>),
          Ends(12, 12, 12, 13, <<RowId, Col("hnid", 8, 4, 2)>>),
          Ends(12, 12, 12, 14, [i \in 1..8 |-> Col("hnid", 8, 4, 8)]),
          Ends(12, 12, 12, 13, [i \in 1..8 |-> Col("hnid", 8, 4, i)]),
          Ends(4, 4, 4, 5, <<RowId>>), Ends(0, 0, 0, 0, <<>>), Ends(8, 8, 8, 8, <<>>)}
IllegalInfos == {Ends(12, 12, 12, 14, [i \in 1..9 |-> Col("hnid", 8, 4, i - 1)]),
                 Ends(6, 8, 8, 9, <<RowId>>), Ends(8, 9, 9, 10, <<RowId>>), Ends(8, 6, 8, 9, <<RowId>>),
                 Ends(8, 8, 6, 9, <<RowId>>), Ends(8, 8, 8, 10, <<RowId>>),
                 Ends(8, 8, 8, 9, <<Col("unknown", 9, 9, 9)>>), Ends(8, 8, 8, 9, <<Col("null", 0, 4, 0)>>),
                 Ends(8, 8, 8, 9, <<[RowId EXCEPT !.bit = 1]>>), Ends(8, 8, 8, 9, <<Version, RowId, Col("hnid", 8, 4, 2)>>),
                 Ends(8, 10, 10, 11, <<Col("two", 9, 2, 0)>>), Ends(8, 8, 9, 10, <<Col("one", 9, 1, 0)>>),
                 Ends(8, 8, 8, 9, <<Col("long", 4, 2, 0)>>), Ends(8, 8, 8, 9, <<Col("eight", 4, 8, 0)>>)}

(* A block of n bytes; the rows of one matrix are alike but for the last.  *)
RowOf(f, bits, v) == [bits |-> bits, values |-> [i \in DOMAIN f.columns |-> v]]
BlockOfLength(f, n, last) ==
    LET w == f.endBitmap
        count == IF w = 0 THEN 0 ELSE n \div w
    IN [length |-> n, rows |-> [j \in 1..count |->
           IF j = count THEN last ELSE RowOf(f, 0..8, "value")]]
Lasts(f) == {RowOf(f, 0..2, "null"), RowOf(f, {}, "PstFormatError"), RowOf(f, {0, 2}, "PstNotFoundError")}
Lengths(w) == {<<>>, <<0>>, <<w>>, <<w - 1>>, <<2 * w, w>>, <<2 * w - 1, 0, w + 3>>, <<0, w, 2 * w>>,
               <<w - 1, w - 1, w>>, <<2 * w + 1, 2 * w>>, <<5 * w, 1>>}
Matrix(f, lengths, last) ==
    [kind |-> "blocks", blocks |-> [b \in DOMAIN lengths |-> BlockOfLength(f, lengths[b], last)]]

At(id, n) == [id |-> id, ordinal |-> n]
Indexes == {[records |-> s, then |-> NoError] :
               s \in {<<>>, <<At(x, 2), At(y, 0)>>, <<At(x, 7)>>, <<At(x, 0), At(x, 1)>>}}
           \cup {[records |-> s, then |-> "PstLimitError"] : s \in {<<At(x, 0)>>, <<At(x, 0), At(x, 0)>>}}
Plainest == CHOOSE i \in Indexes : i.records # <<>> /\ i.then = NoError

Table(i, t, index, rows) == [info |-> i, item |-> NoError, tree |-> t, index |-> index, rows |-> rows]

MCTables ==
    {Table(i, NoError, index, rows) :
        i \in Infos, index \in Indexes, rows \in {[kind |-> "PstNotFoundError"]}}
    \cup UNION {{Table(i, NoError, index, Matrix(i, n, last)) :
                   index \in Indexes, last \in Lasts(i),
                   n \in IF i.endBitmap = 0 THEN {<<>>} ELSE Lengths(i.endBitmap)} : i \in Infos}
    \cup {Table(i, NoError, Plainest, Matrix(i, <<i.endBitmap>>, RowOf(i, 0..8, "value"))) :
             i \in IllegalInfos}
    \cup {Table(i, NoError, Plainest, Matrix(i, <<4>>, {})) : i \in {Ends(0, 0, 0, 0, <<>>)}}
    \cup {Table(Plain, "PstFormatError", Plainest, Matrix(Plain, <<>>, {})),
          [Table(Plain, NoError, Plainest, Matrix(Plain, <<>>, {})) EXCEPT !.item = "PstFormatError"]}

=============================================================================
