----------------------------- MODULE TableContext -----------------------------
(***************************************************************************)
(* ltp/table_context.py: a table of rows that are packed into the blocks   *)
(* of a row matrix, a schema that says where a cell is in a row, and an    *)
(* index from row id to the row's ordinal.  Matrix and index are read when *)
(* they are first needed, by whichever call needs them, and kept; rows()   *)
(* is a generator, and other calls run while it is suspended.              *)
(*                                                                         *)
(* A row is what its bytes parse to at a multiple of the row's width: a    *)
(* set of existence bits, and for each column what decoding its cell would *)
(* give, "value", "null" (an HNID of 0) or the class of the refusal.       *)
(***************************************************************************)
EXTENDS PstLimits, SequencesExt

CONSTANTS RowIds, Tables, MaxItems, MaxAllocation,
          MaxColumns,       \* that a TCINFO may state
          MaxOrdinal        \* of a row that a caller asks for

RowHeaderSize == 8
BitsPerByte == 8
Ordinals == 0..MaxOrdinal

(* The types a column may have, by width and region; of those of four      *)
(* bytes, LONG is treated apart.  Null is a type that no column may have,  *)
(* and an unknown type none at all.                                        *)
ColumnTypes == {"one", "two", "long", "four", "eight", "hnid", "null", "unknown"}

Width(type) == CASE type = "one" -> 1 [] type = "two" -> 2 [] type = "eight" -> 8
                 [] OTHER -> 4

Column == [type : ColumnTypes, reserved : {"id", "version", "none"},
           offset : Nat, size : Nat, bit : Nat]
Info == [end4 : Nat, end2 : Nat, end1 : Nat, endBitmap : Nat, columns : Seq(Column)]
Row == [bits : SUBSET Nat, values : Seq({"value", "null"} \cup Refusals)]
Block == [length : Nat, rows : Seq(Row)]
IndexEntry == [id : RowIds, ordinal : Nat]

VARIABLES table,          \* the file: the TCINFO, the row index, the row matrix
          opc,            \* "new", "open", "refused"
          cpc,            \* the running call: "idle", "need" the matrix, "sum" its rows
          asked,          \* what is called: a row, the number of rows, the next row
          matrix, starts, \* whether the matrix is kept; the ordinal each block starts at
          indexed,        \* whether the row index is kept
          gpc, at, out,   \* rows(): its state, its next ordinal, what it has handed out
          answer          \* of the last call

cache == <<matrix, starts, indexed>>
generator == <<gpc, at, out>>
tablevars == <<table, opc, cpc, asked, cache, generator, answer>>

Nothing == [kind |-> NoError]
Refused(class) == [kind |-> "refused", class |-> class]

info == table.info
width == info.endBitmap
Blocks == IF table.rows.kind = "blocks" THEN table.rows.blocks ELSE <<>>

ASSUME TablesAssumption ==
    \A t \in Tables :
        /\ t.info \in Info
        /\ t.rows \in [kind : {"blocks"}, blocks : Seq(Block)] \cup [kind : Refusals]
        /\ t.item \in Refusals \cup {NoError} /\ t.tree \in Refusals \cup {NoError}
        /\ t.index \in [records : Seq(IndexEntry), then : Refusals \cup {NoError}]
        /\ t.rows.kind = "blocks" =>
             \A b \in ToSet(t.rows.blocks) : t.info.endBitmap > 0 =>
                 Len(b.rows) = b.length \div t.info.endBitmap
ASSUME TableLimitsAssumption ==
    /\ MaxItems \in Nat \ {0} /\ MaxAllocation \in Nat \ {0} /\ MaxOrdinal \in Nat
    /\ MaxColumns \in Nat

Init == /\ table \in Tables
        /\ opc = "new" /\ cpc = "idle" /\ asked = Nothing
        /\ matrix = FALSE /\ starts = <<>> /\ indexed = FALSE
        /\ gpc = "new" /\ at = 0 /\ out = <<>>
        /\ answer = Nothing

-----------------------------------------------------------------------------
(* TableContext.__init__: the item with the TCINFO, its columns' types,    *)
(* then the regions and the columns, and the BTH of the row index last.    *)
BitmapSize == (Len(info.columns) + BitsPerByte - 1) \div BitsPerByte

RegionsRefused ==
    \/ Len(info.columns) > MaxColumns
    \/ info.end4 % 4 # 0
    \/ info.end2 % 2 # 0 \/ info.end2 < info.end4
    \/ info.end1 < info.end2
    \/ info.endBitmap < info.end1 \/ info.endBitmap - info.end1 # BitmapSize

ColumnRefused(c) ==
    \/ c.type = "long" /\ c.reserved = "id" /\ (c.offset # 0 \/ c.bit # 0)
    \/ c.type = "long" /\ c.reserved = "version" /\ (c.offset # 4 \/ c.bit # 1)
    \/ c.type = "null"
    \/ c.type = "one" /\ ~(info.end2 <= c.offset /\ c.offset < info.end1)
    \/ c.type = "two" /\ (c.offset % 2 # 0 \/ c.offset < info.end4 \/ c.offset + 2 > info.end2)
    \/ c.type \in {"long", "four", "eight", "hnid"} /\
          (c.offset % 4 # 0 \/ c.offset + Width(c.type) > info.end4)
    \/ c.size # Width(c.type)
    \/ c.bit > Len(info.columns)

OpenRefusal ==
    IF table.item # NoError THEN table.item
    ELSE IF \E c \in ToSet(info.columns) : c.type = "unknown" THEN "PstUnsupportedError"
    ELSE IF RegionsRefused \/ \E c \in ToSet(info.columns) : ColumnRefused(c) THEN "PstFormatError"
    ELSE table.tree

Open == /\ opc = "new"
        /\ opc' = IF OpenRefusal = NoError THEN "open" ELSE "refused"
        /\ answer' = IF OpenRefusal = NoError THEN Nothing ELSE Refused(OpenRefusal)
        /\ UNCHANGED <<table, cpc, asked, cache, generator>>

-----------------------------------------------------------------------------
(* row_index: the whole index at once.  The BTH hands out records and may  *)
(* then refuse; nothing is kept if it does, or if an id comes twice.       *)
RecordRefusal(i) ==
    LET r == table.index.records
    IN IF \E j \in 1..(i - 1) : r[j].id = r[i].id THEN "PstFormatError"
       ELSE IF Exceeds(i, MaxItems) THEN "PstLimitError"
       ELSE NoError

IndexRefusal ==
    LET bad == {i \in DOMAIN table.index.records : RecordRefusal(i) # NoError}
    IN IF bad # {} THEN RecordRefusal(Min(bad)) ELSE table.index.then

Ordinal(id) ==
    LET r == table.index.records
    IN {r[i].ordinal : i \in {j \in DOMAIN r : r[j].id = id}}

-----------------------------------------------------------------------------
(* The calls.  Each needs the matrix; find_row needs the index first.      *)
Idle == opc = "open" /\ cpc = "idle"

Call(c) == /\ asked' = c /\ cpc' = "need"
           /\ UNCHANGED <<table, opc, matrix, starts, generator>>

AskRow == /\ Idle
          /\ \E i \in Ordinals : Call([kind |-> "row", index |-> i])
          /\ answer' = Nothing /\ UNCHANGED indexed

AskCount == /\ Idle
            /\ Call([kind |-> "count"])
            /\ answer' = Nothing /\ UNCHANGED indexed

FindRow(id) ==
    /\ Idle
    /\ indexed' = (indexed \/ IndexRefusal = NoError)
    /\ IF ~indexed' \/ Ordinal(id) = {}
       THEN /\ asked' = [kind |-> "find", id |-> id]
            /\ answer' = Refused(IF indexed' THEN "PstNotFoundError" ELSE IndexRefusal)
            /\ UNCHANGED <<table, opc, cpc, matrix, starts, generator>>
       ELSE /\ Call([kind |-> "find", id |-> id])
            /\ answer' = Nothing

AskNext == /\ Idle /\ gpc \in {"new", "running"}
           /\ Call([kind |-> "next"])
           /\ answer' = Nothing /\ UNCHANGED indexed

-----------------------------------------------------------------------------
(* _read_matrix *)
RowsIn(block) == block.length \div width

TotalLength == MapThenSumSet(LAMBDA b : Blocks[b].length, DOMAIN Blocks)

MatrixRefusal ==
    IF table.rows.kind # "blocks" THEN table.rows.kind
    ELSE IF Exceeds(TotalLength, MaxAllocation) THEN "PstLimitError"
    ELSE IF width = 0 /\ Blocks # <<>> THEN "ZeroDivisionError"
    ELSE NoError

(* Mutant: counts no rows against the ceiling. *)
SumsRefusalUncounted ==
    IF Last(starts) > 0 /\ info.end4 < RowHeaderSize THEN "PstFormatError" ELSE NoError

SumsRefusal ==
    IF Last(starts) > 0 /\ info.end4 < RowHeaderSize THEN "PstFormatError"
    ELSE IF Exceeds(Last(starts), MaxItems) THEN "PstLimitError"
    ELSE NoError

Needs == cpc = "need" /\ ~matrix

Raise(class) == /\ cpc' = "idle" /\ answer' = Refused(class)
                /\ gpc' = IF asked.kind = "next" THEN "refused" ELSE gpc
                /\ UNCHANGED <<table, opc, asked, matrix, indexed, at, out>>

RefuseMatrix == /\ Needs /\ MatrixRefusal # NoError
                /\ Raise(MatrixRefusal) /\ UNCHANGED starts

StartSums == /\ Needs /\ MatrixRefusal = NoError
             /\ starts' = <<0>> /\ cpc' = "sum"
             /\ UNCHANGED <<table, opc, asked, matrix, indexed, generator, answer>>

(* Mutant: counts the rows of all blocks read so far by their total length.*)
AppendStartOfTotal ==
    /\ cpc = "sum" /\ Len(starts) <= Len(Blocks)
    /\ starts' = Append(starts,
           MapThenSumSet(LAMBDA b : Blocks[b].length, 1..Len(starts)) \div width)
    /\ UNCHANGED <<table, opc, cpc, asked, matrix, indexed, generator, answer>>

AppendStart == /\ cpc = "sum" /\ Len(starts) <= Len(Blocks)
               /\ starts' = Append(starts, Last(starts) + RowsIn(Blocks[Len(starts)]))
               /\ UNCHANGED <<table, opc, cpc, asked, matrix, indexed, generator, answer>>

Summed == cpc = "sum" /\ Len(starts) = Len(Blocks) + 1

RefuseSums == /\ Summed /\ SumsRefusal # NoError
              /\ Raise(SumsRefusal) /\ starts' = <<>>

KeepMatrix == /\ Summed /\ SumsRefusal = NoError
              /\ matrix' = TRUE /\ cpc' = "need"
              /\ UNCHANGED <<table, opc, asked, starts, indexed, generator, answer>>

-----------------------------------------------------------------------------
(* _row_bytes and _read_row *)
BisectRight(s, x) == CHOOSE p \in 0..Len(s) : /\ \A i \in 1..p : s[i] <= x
                                              /\ \A i \in (p + 1)..Len(s) : s[i] > x

BlockOf(index) == BisectRight(starts, index)

(* Mutant: takes rows to be aligned to four bytes. *)
RowBytesAligned(index) ==
    [block |-> BlockOf(index),
     from |-> (index - starts[BlockOf(index)]) * (((width + 3) \div 4) * 4)]

RowBytes(index) ==
    [block |-> BlockOf(index), from |-> (index - starts[BlockOf(index)]) * width]

RowAt(slice) == Blocks[slice.block].rows[slice.from \div width + 1]

(* The region _check_offset asks a cell to be in; of the bytes that every  *)
(* row starts with, only a LONG is read.                                   *)
OutsideRegion(c) ==
    CASE c.type = "one" -> c.offset < info.end2 \/ c.offset + c.size > info.end1
      [] c.type = "two" -> c.offset < info.end4 \/ c.offset + c.size > info.end2
      [] c.type = "long" /\ c.offset \in {0, 4} -> FALSE
      [] OTHER -> c.offset < RowHeaderSize \/ c.offset + c.size > info.end4

Cell(row, i) ==
    LET c == info.columns[i]
    IN IF c.bit >= BitmapSize * BitsPerByte THEN "PstFormatError"
       ELSE IF c.bit \notin row.bits THEN "absent"
       ELSE IF OutsideRegion(c) THEN "PstFormatError"
       ELSE row.values[i]

ReadRow(slice) ==
    LET cells == [i \in DOMAIN info.columns |-> Cell(RowAt(slice), i)]
        bad == {i \in DOMAIN cells : cells[i] \in Refusals}
    IN IF bad # {} THEN Refused(cells[Min(bad)])
       ELSE [kind |-> "row", slice |-> slice, cells |-> cells]

RowAnswer(index) == IF index >= Last(starts) THEN Refused("PstFormatError")
                    ELSE ReadRow(RowBytes(index))

(* What a call goes on with once the matrix is there. *)
Ready == cpc = "need" /\ matrix

Return(a) == /\ cpc' = "idle" /\ answer' = a
             /\ UNCHANGED <<table, opc, asked, cache>>

AnswerRow == /\ Ready /\ asked.kind \in {"row", "find"}
             /\ \E i \in IF asked.kind = "row" THEN {asked.index} ELSE Ordinal(asked.id) :
                    Return(RowAnswer(i))
             /\ UNCHANGED generator

AnswerCount == /\ Ready /\ asked.kind = "count"
               /\ Return([kind |-> "count", rows |-> Last(starts)])
               /\ UNCHANGED generator

YieldRow == /\ Ready /\ asked.kind = "next" /\ at < Last(starts)
            /\ LET r == ReadRow(RowBytes(at))
               IN /\ Return(r)
                  /\ IF r.kind = "row"
                     THEN gpc' = "running" /\ at' = at + 1 /\ out' = Append(out, r)
                     ELSE gpc' = "refused" /\ UNCHANGED <<at, out>>

Exhaust == /\ Ready /\ asked.kind = "next" /\ at >= Last(starts)
           /\ Return([kind |-> "stop"])
           /\ gpc' = "done" /\ UNCHANGED <<at, out>>

Next == \/ Open \/ AskRow \/ AskCount \/ (\E id \in RowIds : FindRow(id)) \/ AskNext
        \/ RefuseMatrix \/ StartSums \/ AppendStart \/ RefuseSums \/ KeepMatrix
        \/ AnswerRow \/ AnswerCount \/ YieldRow \/ Exhaust

Spec == Init /\ [][Next]_tablevars

-----------------------------------------------------------------------------
(* The type of a table.  A matrix that is kept has one start per block and *)
(* one for the end, and its rows are within the ceiling.                   *)
TableTypeOK ==
    /\ opc \in {"new", "open", "refused"} /\ cpc \in {"idle", "need", "sum"}
    /\ asked.kind \in {NoError, "row", "find", "count", "next"}
    /\ matrix \in BOOLEAN /\ indexed \in BOOLEAN /\ starts \in Seq(Nat)
    /\ (starts = <<>>) <=> (~matrix /\ cpc # "sum")
    /\ Len(starts) <= Len(Blocks) + 1
    /\ matrix => cpc # "sum" /\ Len(starts) = Len(Blocks) + 1 /\ Last(starts) <= MaxItems
    /\ gpc \in {"new", "running", "done", "refused"} /\ at \in Nat

(* A row that is read lies inside its block, whole: the rows of a matrix   *)
(* never straddle two blocks and are never taken from the padding.         *)
Inside(slice) == /\ slice.block \in DOMAIN Blocks
                 /\ slice.from \in Nat
                 /\ slice.from + width <= Blocks[slice.block].length

RowsWithinBlocks ==
    /\ answer.kind = "row" => Inside(answer.slice)
    /\ \A i \in DOMAIN out : Inside(out[i].slice)

-----------------------------------------------------------------------------
(* References, from the file alone: the rows in the order of the blocks.   *)
AllRows == FlattenSeq([b \in DOMAIN Blocks |->
               [j \in 1..RowsIn(Blocks[b]) |-> [block |-> b, from |-> (j - 1) * width]]])

FileRefusal ==
    IF MatrixRefusal # NoError THEN MatrixRefusal
    ELSE IF AllRows # <<>> /\ info.end4 < RowHeaderSize THEN "PstFormatError"
    ELSE IF Exceeds(Len(AllRows), MaxItems) THEN "PstLimitError"
    ELSE NoError

RowOfFile(i) == IF FileRefusal # NoError THEN Refused(FileRefusal)
                ELSE IF i >= Len(AllRows) THEN Refused("PstFormatError")
                ELSE ReadRow(AllRows[i + 1])

Found(id) ==
    IF IndexRefusal # NoError THEN Refused(IndexRefusal)
    ELSE IF \A r \in ToSet(table.index.records) : r.id # id THEN Refused("PstNotFoundError")
    ELSE RowOfFile((CHOOSE r \in ToSet(table.index.records) : r.id = id).ordinal)

(* In whatever order calls read the matrix and the index, and whether an   *)
(* earlier one was refused, a row, the number of rows and a row found by   *)
(* its id are those of the file, and so is what rows() hands out while     *)
(* other calls run, in order and, when it ends, in full.  Of rows that     *)
(* have no width what the file gives is the ZeroDivisionError that         *)
(* OnlyPstErrors is about.                                                 *)
AnswersFromFile ==
    /\ (cpc = "idle" /\ answer # Nothing /\ opc = "open") =>
         answer = CASE asked.kind = "row" -> RowOfFile(asked.index)
                    [] asked.kind = "find" -> Found(asked.id)
                    [] asked.kind = "count" -> IF FileRefusal # NoError THEN Refused(FileRefusal)
                                               ELSE [kind |-> "count", rows |-> Len(AllRows)]
                    [] asked.kind = "next" ->
                         IF gpc = "done" THEN [kind |-> "stop"]
                         ELSE RowOfFile(IF gpc = "refused" THEN at ELSE at - 1)
    /\ \A i \in DOMAIN out : out[i] = RowOfFile(i - 1)
    /\ gpc = "done" => Len(out) = Len(AllRows)

(* What the module says of itself ("Nothing but PstError subclasses        *)
(* escapes for any input bytes"): a call refuses with one of its classes.  *)
OnlyPstErrors == answer.kind = "refused" => answer.class \in Refusals

=============================================================================
