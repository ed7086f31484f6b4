--------------------------- MODULE TableContextProofs ---------------------------
(***************************************************************************)
(* Theorems about TableContext, for every schema, matrix, index and limit. *)
(***************************************************************************)
EXTENDS TableContext, DataLemmas, TLAPS

(* The least that the types of the input give to a step.                   *)
InputInv == table \in Tables

LEMMA InputTypes ==
    ASSUME InputInv
    PROVE  /\ width \in Nat /\ info.end4 \in Nat
           /\ Blocks \in Seq(Block)
<1>1. table.info \in Info BY TablesAssumption DEF InputInv
<1>2. table.rows \in [kind : {"blocks"}, blocks : Seq(Block)] \cup [kind : Refusals]
  BY TablesAssumption DEF InputInv
<1>3. table.rows.kind = "blocks" => table.rows.blocks \in Seq(Block)
  BY <1>2 DEF Refusals
<1>4. QED BY <1>1, <1>3 DEF Info, Blocks, width, info

LEMMA QuotientType ==
    ASSUME NEW n \in Nat, NEW w \in Nat, w > 0
    PROVE  n \div w \in Nat
<1>1. n \div w \in Int OBVIOUS
<1>2. n \div w >= 0 OBVIOUS
<1>3. QED BY <1>1, <1>2

(* A block holds as many whole rows as fit, and they do fit.               *)
LEMMA RowsFit ==
    ASSUME NEW n \in Nat, NEW w \in Nat, w > 0,
           NEW k \in Nat, k < n \div w
    PROVE  k * w + w <= n
<1>1. w * (n \div w) <= n OBVIOUS
<1>2. n \div w \in Int OBVIOUS
<1>3. PICK d \in Nat : n \div w = k + 1 + d
  <2>1. n \div w - (k + 1) \in Nat BY <1>2
  <2>2. QED BY <1>2, <2>1
<1>4. w * (n \div w) = w * k + w + w * d BY <1>3
<1>5. w * d >= 0 OBVIOUS
<1>6. w * k \in Int /\ w * d \in Int /\ k * w = w * k OBVIOUS
<1>7. QED BY <1>1, <1>4, <1>5, <1>6

-----------------------------------------------------------------------------
(* The starts, while they are summed and once they are kept: they never    *)
(* fall, each is the one before it and the rows of its block, and between  *)
(* them they cover every ordinal below the last.  The cover is what        *)
(* bisection needs, and it grows with each start appended.                 *)
StartsInv ==
    starts # <<>> =>
        /\ Blocks # <<>> => width > 0
        /\ starts[1] = 0
        /\ \A b \in 1..(Len(starts) - 1) : starts[b + 1] = starts[b] + RowsIn(Blocks[b])
        /\ \A i, j \in 1..Len(starts) : i <= j => starts[i] <= starts[j]
        /\ \A n \in Nat : n < starts[Len(starts)] =>
              \E b \in 1..(Len(starts) - 1) : starts[b] <= n /\ n < starts[b + 1]

(* The block that bisection finds starts at or before the ordinal, and the *)
(* next one after it, also when blocks without a row start at one ordinal. *)
LEMMA BisectFindsBlock ==
    ASSUME starts \in Seq(Nat), starts # <<>>, StartsInv, NEW n \in Nat, n < Last(starts)
    PROVE  /\ BlockOf(n) \in 1..(Len(starts) - 1)
           /\ starts[BlockOf(n)] <= n /\ n < starts[BlockOf(n) + 1]
<1>0. /\ Len(starts) \in Nat \ {0} /\ starts \in [1..Len(starts) -> Nat] /\ starts[1] = 0
      /\ \A i, j \in 1..Len(starts) : i <= j => starts[i] <= starts[j]
      /\ n < starts[Len(starts)]
  BY DEF StartsInv, Last
<1>1. PICK b \in 1..(Len(starts) - 1) : starts[b] <= n /\ n < starts[b + 1]
  BY <1>0 DEF StartsInv
<1>. DEFINE P(p) == /\ \A i \in 1..p : starts[i] <= n
                    /\ \A i \in (p + 1)..Len(starts) : starts[i] > n
<1>2. b \in 0..Len(starts) /\ P(b)
  <2>1. ASSUME NEW i \in 1..b PROVE starts[i] <= n
    <3>1. i \in 1..Len(starts) /\ b \in 1..Len(starts) /\ i <= b BY <1>0, <1>1
    <3>2. starts[i] <= starts[b] /\ starts[i] \in Nat /\ starts[b] \in Nat BY <1>0, <3>1
    <3>3. QED BY <1>1, <3>2
  <2>2. ASSUME NEW i \in (b + 1)..Len(starts) PROVE starts[i] > n
    <3>1. i \in 1..Len(starts) /\ b + 1 \in 1..Len(starts) /\ b + 1 <= i BY <1>0, <1>1
    <3>2. starts[b + 1] <= starts[i] /\ starts[i] \in Nat /\ starts[b + 1] \in Nat
      BY <1>0, <3>1
    <3>3. QED BY <1>1, <3>2
  <2>3. QED BY <1>0, <1>1, <2>1, <2>2
<1>3. BlockOf(n) = CHOOSE p \in 0..Len(starts) : P(p) BY DEF BlockOf, BisectRight
<1>4. BlockOf(n) \in 0..Len(starts) /\ P(BlockOf(n)) BY <1>2, <1>3
<1>. HIDE DEF P
<1>5. BlockOf(n) # 0
  <2>1. 1 \in (0 + 1)..Len(starts) BY <1>0
  <2>2. ~(starts[1] > n) BY <1>0
  <2>3. QED BY <1>4, <2>1, <2>2 DEF P
<1>6. BlockOf(n) # Len(starts)
  <2>1. ~(starts[Len(starts)] <= n) BY <1>0
  <2>2. QED BY <1>0, <1>4, <2>1 DEF P
<1>7. BlockOf(n) \in 1..(Len(starts) - 1) BY <1>0, <1>4, <1>5, <1>6
<1>8. QED BY <1>0, <1>4, <1>7 DEF P

(* A row of a matrix that is kept lies in its block.                       *)
LEMMA RowInside ==
    ASSUME InputInv, TableTypeOK, StartsInv, matrix, NEW n \in Nat, n < Last(starts)
    PROVE  RowBytes(n) \in [block : Nat, from : Nat] /\ Inside(RowBytes(n))
<1>0. matrix => starts # <<>> BY DEF TableTypeOK
<1>1. starts \in Seq(Nat) /\ starts # <<>> /\ Len(starts) = Len(Blocks) + 1
  BY <1>0 DEF TableTypeOK
<1>. DEFINE b == BlockOf(n)
<1>2. b \in 1..(Len(starts) - 1) /\ starts[b] <= n /\ n < starts[b + 1]
  BY <1>1, BisectFindsBlock
<1>. HIDE DEF b
<1>3. Blocks \in Seq(Block) /\ width \in Nat BY InputTypes
<1>4. b \in DOMAIN Blocks /\ b \in Nat /\ Blocks # <<>> BY <1>1, <1>2, <1>3
<1>5. width > 0 BY <1>1, <1>4 DEF StartsInv
<1>6. Blocks[b].length \in Nat
  <2>1. Blocks[b] \in Block BY <1>3, <1>4
  <2>2. QED BY <2>1 DEF Block
<1>7. starts[b + 1] = starts[b] + Blocks[b].length \div width
  BY <1>1, <1>2 DEF StartsInv, RowsIn
<1>8. starts[b] \in Nat /\ starts[b + 1] \in Nat BY <1>1, <1>2
<1>9. Blocks[b].length \div width \in Int BY <1>3, <1>5, <1>6
<1>10. n - starts[b] \in Nat /\ n - starts[b] < Blocks[b].length \div width
  BY <1>2, <1>7, <1>8, <1>9
<1>11. (n - starts[b]) * width + width <= Blocks[b].length
  BY <1>3, <1>5, <1>6, <1>10, RowsFit
<1>12. (n - starts[b]) * width \in Nat BY <1>3, <1>10
<1>13. RowBytes(n) = [block |-> b, from |-> (n - starts[b]) * width] BY DEF RowBytes, b
<1>14. QED BY <1>4, <1>11, <1>12, <1>13 DEF Inside

-----------------------------------------------------------------------------
Step == [Next]_tablevars

(* What a row that was read is; reading gives one, or a refusal.           *)
RowRead(s) == [kind |-> "row", slice |-> s,
               cells |-> [i \in DOMAIN info.columns |-> Cell(RowAt(s), i)]]
WholeRows == {RowRead(s) : s \in {t \in [block : Nat, from : Nat] : Inside(t)}}

LEMMA ReadRowCases ==
    ASSUME NEW s
    PROVE  (ReadRow(s).kind = "row") => ReadRow(s) = RowRead(s)
<1>. DEFINE cells == [i \in DOMAIN info.columns |-> Cell(RowAt(s), i)]
            bad == {i \in DOMAIN cells : cells[i] \in Refusals}
<1>1. ReadRow(s) = IF bad # {} THEN Refused(cells[Min(bad)]) ELSE RowRead(s)
  BY DEF ReadRow, RowRead
<1>. HIDE DEF cells, bad
<1>2. Refused(cells[Min(bad)]).kind = "refused" BY DEF Refused
<1>3. QED BY <1>1, <1>2

(* What the invariants say of a call: a row asked for has an ordinal.      *)
AskedInv == asked.kind = "row" => asked.index \in Nat
AnswerInv == answer.kind = "row" => Inside(answer.slice)
OutInv == out \in Seq(WholeRows)
TableInv == InputInv /\ TableTypeOK /\ StartsInv /\ AskedInv /\ AnswerInv /\ OutInv

LEMMA InvInit == Init => TableInv
<1>. SUFFICES ASSUME Init PROVE TableInv OBVIOUS
<1>1. InputInv BY DEF Init, InputInv
<1>2. Len(Blocks) \in Nat BY <1>1, InputTypes
<1>3. TableTypeOK
  <2>1. /\ opc = "new" /\ cpc = "idle" /\ asked.kind = NoError /\ matrix = FALSE
        /\ starts = <<>> /\ indexed = FALSE /\ gpc = "new" /\ at = 0
    BY DEF Init, Nothing
  <2>2. starts \in Seq(Nat) /\ Len(starts) <= Len(Blocks) + 1 BY <1>2, <2>1
  <2>3. QED BY <2>1, <2>2 DEF TableTypeOK
<1>4. StartsInv BY DEF Init, StartsInv
<1>5. AskedInv /\ AnswerInv BY DEF Init, AskedInv, AnswerInv, Nothing, NoError
<1>6. OutInv BY DEF Init, OutInv
<1>7. QED BY <1>1, <1>3, <1>4, <1>5, <1>6 DEF TableInv

LEMMA TableConstant == Step => UNCHANGED table
BY DEF Step, Next, Open, AskRow, AskCount, FindRow, AskNext, Call, RefuseMatrix, StartSums,
       AppendStart, RefuseSums, KeepMatrix, AnswerRow, AnswerCount, YieldRow, Exhaust, Raise,
       Return, tablevars

(* Appending a start extends the cover by the ordinals of one block.       *)
LEMMA AppendKeepsStarts ==
    ASSUME TableInv, AppendStart
    PROVE  StartsInv' /\ starts' \in Seq(Nat) /\ Len(starts') = Len(starts) + 1
<1>1. /\ cpc = "sum" /\ Len(starts) <= Len(Blocks) /\ UNCHANGED table
      /\ starts' = Append(starts, Last(starts) + RowsIn(Blocks[Len(starts)]))
  BY DEF AppendStart
<1>2. starts \in Seq(Nat) /\ starts # <<>> /\ Len(starts) \in Nat \ {0}
  BY <1>1 DEF TableInv, TableTypeOK
<1>3. Blocks \in Seq(Block) /\ width \in Nat BY InputTypes DEF TableInv
<1>4. /\ width > 0 /\ starts[1] = 0
      /\ \A b \in 1..(Len(starts) - 1) : starts[b + 1] = starts[b] + RowsIn(Blocks[b])
      /\ \A i, j \in 1..Len(starts) : i <= j => starts[i] <= starts[j]
      /\ \A n \in Nat : n < starts[Len(starts)] =>
            \E b \in 1..(Len(starts) - 1) : starts[b] <= n /\ n < starts[b + 1]
  <2>1. Blocks # <<>> BY <1>1, <1>2, <1>3
  <2>2. QED BY <1>2, <2>1 DEF TableInv, StartsInv
<1>. DEFINE k == Len(starts)  r == RowsIn(Blocks[k])
<1>5. r \in Nat
  <2>1. Blocks[k] \in Block BY <1>1, <1>2, <1>3
  <2>2. Blocks[k].length \in Nat BY <2>1 DEF Block
  <2>3. Blocks[k].length \div width \in Nat BY <1>3, <1>4, <2>2, QuotientType
  <2>4. QED BY <2>3 DEF RowsIn
<1>6. starts' = Append(starts, starts[k] + r) BY <1>1 DEF Last
<1>. HIDE DEF r
<1>7. /\ starts' \in Seq(Nat) /\ Len(starts') = k + 1 /\ starts'[k + 1] = starts[k] + r
      /\ \A i \in 1..k : starts'[i] = starts[i] /\ starts[i] \in Nat
  BY <1>2, <1>5, <1>6
<1>8. UNCHANGED <<Blocks, width>> /\ \A b : RowsIn(Blocks[b])' = RowsIn(Blocks[b])
  BY <1>1 DEF Blocks, width, info, RowsIn
<1>9. ASSUME NEW b \in 1..(Len(starts') - 1)
      PROVE  starts'[b + 1] = starts'[b] + RowsIn(Blocks[b])
  <2>1. CASE b = k BY <1>2, <1>7, <2>1 DEF r
  <2>2. CASE b # k
    <3>1. b \in 1..(k - 1) /\ b \in 1..k /\ b + 1 \in 1..k BY <1>2, <1>7, <2>2
    <3>2. QED BY <1>4, <1>7, <3>1
  <2>3. QED BY <2>1, <2>2
<1>10. ASSUME NEW i \in 1..Len(starts'), NEW j \in 1..Len(starts'), i <= j
       PROVE  starts'[i] <= starts'[j]
  <2>1. CASE j \in 1..k
    <3>1. i \in 1..k BY <1>2, <1>7, <1>10, <2>1
    <3>2. QED BY <1>4, <1>7, <1>10, <2>1, <3>1
  <2>2. CASE j = k + 1 /\ i \in 1..k
    <3>1. starts[i] <= starts[k] BY <1>2, <1>4, <2>2
    <3>2. QED BY <1>2, <1>5, <1>7, <2>2, <3>1
  <2>3. CASE i = k + 1 /\ j = k + 1 BY <1>2, <1>5, <1>7, <2>3
  <2>4. QED BY <1>2, <1>7, <1>10, <2>1, <2>2, <2>3
<1>11. ASSUME NEW n \in Nat, n < starts'[Len(starts')]
       PROVE  \E b \in 1..(Len(starts') - 1) : starts'[b] <= n /\ n < starts'[b + 1]
  <2>1. CASE n < starts[k]
    <3>1. PICK b \in 1..(k - 1) : starts[b] <= n /\ n < starts[b + 1] BY <1>4, <2>1
    <3>2. b \in 1..k /\ b + 1 \in 1..k /\ b \in 1..(Len(starts') - 1) BY <1>2, <1>7, <3>1
    <3>3. QED BY <1>7, <3>1, <3>2
  <2>2. CASE ~(n < starts[k])
    <3>1. k \in 1..(Len(starts') - 1) /\ k \in 1..k BY <1>2, <1>7
    <3>2. starts'[k] <= n /\ n < starts'[k + 1] BY <1>7, <1>11, <2>2, <3>1
    <3>3. QED BY <3>1, <3>2
  <2>3. QED BY <2>1, <2>2
<1>12. starts'[1] = 0 BY <1>2, <1>4, <1>7
<1>13. QED BY <1>3, <1>4, <1>7, <1>8, <1>9, <1>10, <1>11, <1>12 DEF StartsInv

(* Nothing but the file decides which rows are whole.                      *)
LEMMA FileFrame ==
    ASSUME InputInv, UNCHANGED table
    PROVE  /\ InputInv' /\ UNCHANGED <<width, Blocks>>
           /\ WholeRows' = WholeRows /\ \A s : Inside(s)' = Inside(s)
           /\ (StartsInv /\ UNCHANGED starts) => StartsInv'
<1>1. InputInv' /\ UNCHANGED <<width, Blocks, info>> BY DEF InputInv, Blocks, width, info
<1>2. \A s : Inside(s)' = Inside(s) BY <1>1 DEF Inside
<1>3. WholeRows' = WholeRows
  <2>1. BitmapSize' = BitmapSize /\ \A c : OutsideRegion(c)' = OutsideRegion(c)
    BY <1>1 DEF BitmapSize, OutsideRegion
  <2>2. \A r, i : Cell(r, i)' = Cell(r, i)
    BY <1>1, <2>1 DEF Cell
  <2>3. \A s : RowAt(s)' = RowAt(s)
    BY <1>1 DEF RowAt
  <2>4. \A s : RowRead(s)' = RowRead(s)
    BY <1>1, <2>2, <2>3 DEF RowRead
  <2>5. QED BY <1>1, <1>2, <2>4 DEF WholeRows
<1>4. (StartsInv /\ UNCHANGED starts) => StartsInv' BY <1>1 DEF StartsInv, RowsIn
<1>5. QED BY <1>1, <1>2, <1>3, <1>4

(* The row of an ordinal in the matrix, or a refusal.                      *)
LEMMA RowAnswerInside ==
    ASSUME TableInv, matrix, NEW n \in Nat, RowAnswer(n).kind = "row"
    PROVE  Inside(RowAnswer(n).slice)
<1>1. ~(n >= Last(starts))
  <2>1. Refused("PstFormatError").kind # "row" BY DEF Refused
  <2>2. QED BY <2>1 DEF RowAnswer
<1>2. starts \in Seq(Nat) /\ starts # <<>>
  <2>1. matrix => starts # <<>> BY DEF TableInv, TableTypeOK
  <2>2. QED BY <2>1 DEF TableInv, TableTypeOK
<1>3. Last(starts) \in Nat BY <1>2 DEF Last
<1>4. n < Last(starts) BY <1>1, <1>3
<1>5. Inside(RowBytes(n)) BY <1>4, RowInside DEF TableInv
<1>6. RowAnswer(n) = ReadRow(RowBytes(n)) BY <1>1 DEF RowAnswer
<1>7. RowAnswer(n) = RowRead(RowBytes(n)) BY <1>6, ReadRowCases
<1>8. QED BY <1>5, <1>7 DEF RowRead

LEMMA OrdinalType ==
    ASSUME InputInv, NEW id
    PROVE  Ordinal(id) \subseteq Nat
<1>1. table.index \in [records : Seq(IndexEntry), then : Refusals \cup {NoError}]
  BY TablesAssumption DEF InputInv
<1>2. table.index.records \in Seq(IndexEntry) BY <1>1
<1>3. \A i \in DOMAIN table.index.records : table.index.records[i].ordinal \in Nat
  <2>1. \A i \in DOMAIN table.index.records : table.index.records[i] \in IndexEntry BY <1>2
  <2>2. \A e \in IndexEntry : e.ordinal \in Nat BY DEF IndexEntry
  <2>3. QED BY <2>1, <2>2
<1>4. QED BY <1>3 DEF Ordinal

LEMMA InvNext == TableInv /\ Step => TableInv'
<1>. SUFFICES ASSUME TableInv, Step PROVE TableInv' OBVIOUS
<1>0. UNCHANGED table BY TableConstant
<1>1. /\ InputInv' /\ UNCHANGED <<width, Blocks>> /\ WholeRows' = WholeRows
      /\ \A s : Inside(s)' = Inside(s) /\ (UNCHANGED starts => StartsInv')
  BY <1>0, FileFrame DEF TableInv
<1>2. /\ InputInv /\ StartsInv /\ AskedInv /\ AnswerInv /\ OutInv
      /\ opc \in {"new", "open", "refused"} /\ cpc \in {"idle", "need", "sum"}
      /\ asked.kind \in {NoError, "row", "find", "count", "next"}
      /\ matrix \in BOOLEAN /\ indexed \in BOOLEAN /\ starts \in Seq(Nat)
      /\ (starts = <<>>) <=> (~matrix /\ cpc # "sum")
      /\ Len(starts) \in Nat /\ Len(Blocks) \in Nat /\ Len(starts) <= Len(Blocks) + 1
      /\ matrix => cpc # "sum" /\ Len(starts) = Len(Blocks) + 1 /\ Last(starts) <= MaxItems
      /\ gpc \in {"new", "running", "done", "refused"} /\ at \in Nat
  <2>1. InputInv /\ StartsInv /\ AskedInv /\ AnswerInv /\ OutInv /\ TableTypeOK BY DEF TableInv
  <2>2. Blocks \in Seq(Block) BY <2>1, InputTypes
  <2>3. starts \in Seq(Nat) BY <2>1 DEF TableTypeOK
  <2>4. Len(starts) \in Nat /\ Len(Blocks) \in Nat BY <2>2, <2>3
  <2>5. /\ (starts = <<>>) <=> (~matrix /\ cpc # "sum")
        /\ matrix => cpc # "sum" /\ Len(starts) = Len(Blocks) + 1 /\ Last(starts) <= MaxItems
    BY <2>1 DEF TableTypeOK
  <2>6. /\ opc \in {"new", "open", "refused"} /\ cpc \in {"idle", "need", "sum"}
        /\ asked.kind \in {NoError, "row", "find", "count", "next"}
        /\ matrix \in BOOLEAN /\ indexed \in BOOLEAN /\ Len(starts) <= Len(Blocks) + 1
        /\ gpc \in {"new", "running", "done", "refused"} /\ at \in Nat
    BY <2>1 DEF TableTypeOK
  <2>7. QED BY <2>1, <2>3, <2>4, <2>5, <2>6
<1>3. (UNCHANGED out => OutInv') /\ (UNCHANGED answer => AnswerInv') /\ (UNCHANGED asked => AskedInv')
      /\ (answer'.kind # "row" => AnswerInv')
  BY <1>1, <1>2 DEF OutInv, AnswerInv, AskedInv
<1>4. Nothing.kind # "row" /\ \A class : Refused(class).kind # "row"
  BY DEF Nothing, NoError, Refused
<1>5. CASE Open
  <2>1. /\ opc' \in {"new", "open", "refused"} /\ answer' \in {Nothing, Refused(OpenRefusal)}
        /\ UNCHANGED <<cpc, asked, matrix, starts, indexed, gpc, at, out>>
    BY <1>5 DEF Open, cache, generator
  <2>2. QED BY <1>1, <1>2, <1>3, <1>4, <2>1 DEF TableInv, TableTypeOK
<1>6. CASE AskRow
  <2>1. PICK i \in Ordinals : asked' = [kind |-> "row", index |-> i] BY <1>6 DEF AskRow, Call
  <2>2. /\ cpc = "idle" /\ cpc' = "need" /\ answer' = Nothing
        /\ UNCHANGED <<opc, matrix, starts, indexed, gpc, at, out>>
    BY <1>6 DEF AskRow, Call, Idle, generator
  <2>3. asked'.kind = "row" /\ AskedInv'
    BY <2>1, TableLimitsAssumption DEF AskedInv, Ordinals
  <2>4. QED BY <1>1, <1>2, <1>3, <1>4, <2>2, <2>3 DEF TableInv, TableTypeOK
<1>7. CASE AskCount \/ AskNext
  <2>1. /\ cpc = "idle" /\ cpc' = "need" /\ answer' = Nothing /\ asked'.kind \in {"count", "next"}
        /\ UNCHANGED <<opc, matrix, starts, indexed, gpc, at, out>>
    BY <1>7 DEF AskCount, AskNext, Call, Idle, generator
  <2>2. AskedInv' BY <2>1 DEF AskedInv
  <2>3. QED BY <1>1, <1>2, <1>3, <1>4, <2>1, <2>2 DEF TableInv, TableTypeOK
<1>8. ASSUME NEW id \in RowIds, FindRow(id) PROVE TableInv'
  <2>1. /\ cpc = "idle" /\ cpc' \in {"idle", "need"} /\ asked'.kind = "find" /\ indexed' \in BOOLEAN
        /\ answer'.kind # "row"
        /\ UNCHANGED <<opc, matrix, starts, gpc, at, out>>
    BY <1>4, <1>8 DEF FindRow, Call, Idle, generator
  <2>2. AskedInv' BY <2>1 DEF AskedInv
  <2>3. QED BY <1>1, <1>2, <1>3, <2>1, <2>2 DEF TableInv, TableTypeOK
<1>9. CASE RefuseMatrix
  <2>1. /\ cpc = "need" /\ ~matrix /\ cpc' = "idle" /\ answer'.kind # "row"
        /\ gpc' \in {"new", "running", "done", "refused"}
        /\ UNCHANGED <<opc, asked, matrix, starts, indexed, at, out>>
    BY <1>2, <1>4, <1>9 DEF RefuseMatrix, Needs, Raise
  <2>2. QED BY <1>1, <1>2, <1>3, <2>1 DEF TableInv, TableTypeOK
<1>10. CASE StartSums
  <2>1. /\ cpc = "need" /\ ~matrix /\ cpc' = "sum" /\ starts' = <<0>> /\ MatrixRefusal = NoError
        /\ UNCHANGED <<opc, asked, matrix, indexed, gpc, at, out, answer>>
    BY <1>10 DEF StartSums, Needs, generator
  <2>2. starts' \in Seq(Nat) /\ Len(starts') = 1 /\ starts'[1] = 0 /\ starts' # <<>> BY <2>1
  <2>3. Blocks # <<>> => width > 0
    <3>1. ~(width = 0 /\ Blocks # <<>>)
      <4>1. Blocks # <<>> => table.rows.kind = "blocks" BY DEF Blocks
      <4>2. QED BY <2>1, <4>1 DEF MatrixRefusal, NoError
    <3>2. width \in Nat BY <1>2, InputTypes
    <3>3. QED BY <3>1, <3>2
  <2>4. StartsInv' BY <1>1, <2>2, <2>3 DEF StartsInv
  <2>5. QED BY <1>1, <1>2, <1>3, <2>1, <2>2, <2>4 DEF TableInv, TableTypeOK
<1>11. CASE AppendStart
  <2>1. /\ cpc = "sum" /\ Len(starts) <= Len(Blocks)
        /\ UNCHANGED <<opc, cpc, asked, matrix, indexed, gpc, at, out, answer>>
    BY <1>11 DEF AppendStart, generator
  <2>2. StartsInv' /\ starts' \in Seq(Nat) /\ Len(starts') = Len(starts) + 1 /\ starts' # <<>>
    BY <1>2, <1>11, AppendKeepsStarts
  <2>3. ~matrix BY <1>2, <2>1
  <2>4. QED BY <1>1, <1>2, <1>3, <2>1, <2>2, <2>3 DEF TableInv, TableTypeOK
<1>12. CASE RefuseSums
  <2>1. /\ cpc = "sum" /\ cpc' = "idle" /\ answer'.kind # "row" /\ starts' = <<>>
        /\ gpc' \in {"new", "running", "done", "refused"}
        /\ UNCHANGED <<opc, asked, matrix, indexed, at, out>>
    BY <1>2, <1>4, <1>12 DEF RefuseSums, Summed, Raise
  <2>2. ~matrix BY <1>2, <2>1
  <2>3. StartsInv' /\ starts' \in Seq(Nat) /\ Len(starts') = 0 BY <2>1 DEF StartsInv
  <2>4. QED BY <1>1, <1>2, <1>3, <2>1, <2>2, <2>3 DEF TableInv, TableTypeOK
<1>13. CASE KeepMatrix
  <2>1. /\ cpc = "sum" /\ Len(starts) = Len(Blocks) + 1 /\ SumsRefusal = NoError
        /\ matrix' = TRUE /\ cpc' = "need"
        /\ UNCHANGED <<opc, asked, starts, indexed, gpc, at, out, answer>>
    BY <1>13 DEF KeepMatrix, Summed, generator
  <2>2. Last(starts) \in Nat /\ starts # <<>> BY <1>2, <2>1 DEF Last
  <2>3. Last(starts) <= MaxItems
    BY <2>1, <2>2, TableLimitsAssumption DEF SumsRefusal, Exceeds, NoError
  <2>4. QED BY <1>1, <1>2, <1>3, <2>1, <2>2, <2>3 DEF TableInv, TableTypeOK, Last
<1>14. CASE AnswerRow
  <2>1. PICK n \in IF asked.kind = "row" THEN {asked.index} ELSE Ordinal(asked.id) :
            Return(RowAnswer(n))
    BY <1>14 DEF AnswerRow
  <2>2. /\ cpc = "need" /\ matrix /\ cpc' = "idle" /\ answer' = RowAnswer(n)
        /\ UNCHANGED <<opc, asked, matrix, starts, indexed, gpc, at, out>>
    BY <1>14, <2>1 DEF AnswerRow, Ready, Return, cache, generator
  <2>3. n \in Nat BY <1>2, <2>1, OrdinalType DEF AskedInv
  <2>4. AnswerInv' BY <1>1, <2>2, <2>3, RowAnswerInside DEF AnswerInv
  <2>5. QED BY <1>1, <1>2, <1>3, <2>2, <2>4 DEF TableInv, TableTypeOK
<1>15. CASE AnswerCount
  <2>1. /\ cpc = "need" /\ matrix /\ cpc' = "idle" /\ answer'.kind # "row"
        /\ UNCHANGED <<opc, asked, matrix, starts, indexed, gpc, at, out>>
    BY <1>15 DEF AnswerCount, Ready, Return, cache, generator
  <2>2. QED BY <1>1, <1>2, <1>3, <2>1 DEF TableInv, TableTypeOK
<1>16. CASE YieldRow
  <2>. DEFINE r == ReadRow(RowBytes(at))
  <2>1. /\ cpc = "need" /\ matrix /\ cpc' = "idle" /\ answer' = r /\ at < Last(starts)
        /\ UNCHANGED <<opc, asked, matrix, starts, indexed>>
        /\ IF r.kind = "row"
           THEN gpc' = "running" /\ at' = at + 1 /\ out' = Append(out, r)
           ELSE gpc' = "refused" /\ at' = at /\ out' = out
    BY <1>16 DEF YieldRow, Ready, Return, cache
  <2>2. RowBytes(at) \in [block : Nat, from : Nat] /\ Inside(RowBytes(at))
    BY <1>2, <2>1, RowInside DEF TableInv
  <2>3. r.kind = "row" => r = RowRead(RowBytes(at)) BY ReadRowCases
  <2>. HIDE DEF r
  <2>4. r.kind = "row" => r \in WholeRows /\ r.slice = RowBytes(at)
    BY <2>2, <2>3 DEF WholeRows, RowRead
  <2>5. AnswerInv' BY <1>1, <2>1, <2>2, <2>4 DEF AnswerInv
  <2>6. out' \in Seq(WholeRows)
    <3>1. out \in Seq(WholeRows) BY <1>2 DEF OutInv
    <3>2. CASE r.kind = "row"
      <4>1. out' = Append(out, r) /\ r \in WholeRows BY <2>1, <2>4, <3>2
      <4>2. QED BY <3>1, <4>1
    <3>3. CASE r.kind # "row" BY <2>1, <3>1, <3>3
    <3>4. QED BY <3>2, <3>3
  <2>7. OutInv' BY <1>1, <2>6 DEF OutInv
  <2>8. at' \in Nat /\ gpc' \in {"new", "running", "done", "refused"} BY <1>2, <2>1
  <2>9. QED BY <1>1, <1>2, <1>3, <2>1, <2>5, <2>7, <2>8 DEF TableInv, TableTypeOK
<1>17. CASE Exhaust
  <2>1. /\ cpc = "need" /\ matrix /\ cpc' = "idle" /\ answer'.kind # "row" /\ gpc' = "done"
        /\ UNCHANGED <<opc, asked, matrix, starts, indexed, at, out>>
    BY <1>17 DEF Exhaust, Ready, Return, cache
  <2>2. QED BY <1>1, <1>2, <1>3, <2>1 DEF TableInv, TableTypeOK
<1>18. CASE UNCHANGED tablevars
  BY <1>1, <1>2, <1>3, <1>18 DEF TableInv, TableTypeOK, tablevars, cache, generator
<1>19. QED
  BY <1>5, <1>6, <1>7, <1>8, <1>9, <1>10, <1>11, <1>12, <1>13, <1>14, <1>15, <1>16, <1>17,
     <1>18 DEF Step, Next

LEMMA TableInvariant == Spec => []TableInv
<1>1. TableInv /\ [Next]_tablevars => TableInv' BY InvNext DEF Step
<1>2. QED BY InvInit, <1>1, PTL DEF Spec

(* A table keeps its types; a matrix that is kept is within the ceiling.   *)
THEOREM TableTypeCorrect == Spec => []TableTypeOK
<1>1. TableInv => TableTypeOK BY DEF TableInv
<1>2. QED BY TableInvariant, <1>1, PTL

(* For every schema, every blocks of a matrix, empty ones and ones with    *)
(* padding included, and every order of calls: a row that _row_bytes cuts  *)
(* out of the matrix lies in one block, whole.                             *)
THEOREM RowsLieWithinBlocks == Spec => []RowsWithinBlocks
<1>1. TableInv => RowsWithinBlocks
  <2>. SUFFICES ASSUME TableInv PROVE RowsWithinBlocks OBVIOUS
  <2>1. ASSUME NEW i \in DOMAIN out PROVE Inside(out[i].slice)
    <3>1. out[i] \in WholeRows BY DEF TableInv, OutInv
    <3>2. QED BY <3>1 DEF WholeRows, RowRead
  <2>2. QED BY <2>1 DEF TableInv, AnswerInv, RowsWithinBlocks
<1>2. QED BY TableInvariant, <1>1, PTL

-----------------------------------------------------------------------------
(* The rows in the order of the blocks, and the starts.  A matrix is kept  *)
(* with one start per block and one for the end; then as many rows precede *)
(* a block as its start says, and a row is the one _row_bytes cuts out.    *)
Slices == [block : Nat, from : Nat]
RowsOf(b) == [j \in 1..RowsIn(Blocks[b]) |-> [block |-> b, from |-> (j - 1) * width]]
Full == starts # <<>> /\ Len(starts) = Len(Blocks) + 1

RowsUpTo(s, b) ==
    /\ s \in Seq(Slices) /\ Len(s) = starts[b + 1]
    /\ \A k \in 1..b : \A n \in Nat : (starts[k] <= n /\ n < starts[k + 1]) =>
          s[n + 1] = [block |-> k, from |-> (n - starts[k]) * width]

LEMMA RowsOfBlock ==
    ASSUME InputInv, width > 0, NEW b \in DOMAIN Blocks
    PROVE  /\ RowsIn(Blocks[b]) \in Nat /\ b \in Nat
           /\ RowsOf(b) \in Seq(Slices) /\ Len(RowsOf(b)) = RowsIn(Blocks[b])
           /\ \A j \in 1..RowsIn(Blocks[b]) :
                 RowsOf(b)[j] = [block |-> b, from |-> (j - 1) * width]
<1>1. Blocks \in Seq(Block) /\ width \in Nat BY InputTypes
<1>2. Blocks[b] \in Block /\ b \in Nat BY <1>1
<1>3. RowsIn(Blocks[b]) \in Nat BY <1>1, <1>2, QuotientType DEF Block, RowsIn
<1>4. PICK r \in Nat : r = RowsIn(Blocks[b]) BY <1>3
<1>5. \A j \in 1..r : [block |-> b, from |-> (j - 1) * width] \in Slices
  <2>1. ASSUME NEW j \in 1..r PROVE (j - 1) * width \in Nat
    <3>1. PICK i \in Nat : i = j - 1 OBVIOUS
    <3>2. i * width \in Nat BY <1>1
    <3>3. QED BY <3>1, <3>2
  <2>2. QED BY <1>2, <2>1 DEF Slices
<1>6. RowsOf(b) = [j \in 1..r |-> [block |-> b, from |-> (j - 1) * width]] BY <1>4 DEF RowsOf
<1>7. QED BY <1>2, <1>4, <1>5, <1>6

LEMMA RowsGrow ==
    ASSUME InputInv, StartsInv, starts \in Seq(Nat), Full, NEW b \in 1..Len(Blocks), NEW s,
           (b = 1 /\ s = <<>>) \/ (b # 1 /\ RowsUpTo(s, b - 1))
    PROVE  RowsUpTo(s \o RowsOf(b), b)
<1>0. /\ starts \in Seq(Nat) /\ Blocks \in Seq(Block) /\ Len(Blocks) \in Nat /\ width \in Nat
      /\ b \in DOMAIN Blocks /\ b \in Nat
  BY InputTypes
<1>1. /\ width > 0 /\ starts[1] = 0
      /\ \A k \in 1..(Len(starts) - 1) : starts[k + 1] = starts[k] + RowsIn(Blocks[k])
      /\ \A i, j \in 1..Len(starts) : i <= j => starts[i] <= starts[j]
  <2>1. Blocks # <<>> BY <1>0
  <2>2. QED BY <2>1 DEF StartsInv, Full
<1>2. b \in 1..Len(starts) /\ b + 1 \in 1..Len(starts) /\ \A k \in 1..Len(starts) : starts[k] \in Nat
  BY <1>0 DEF Full
<1>3. PICK r \in Nat, t \in Seq(Slices) :
        /\ t = RowsOf(b) /\ Len(t) = r /\ starts[b + 1] = starts[b] + r
        /\ \A j \in 1..r : t[j] = [block |-> b, from |-> (j - 1) * width]
  <2>1. starts[b + 1] = starts[b] + RowsIn(Blocks[b]) BY <1>0, <1>1 DEF Full
  <2>2. QED BY <1>0, <1>1, <2>1, RowsOfBlock
<1>4. s \in Seq(Slices) /\ Len(s) = starts[b]
  <2>1. CASE b = 1 BY <1>1, <2>1
  <2>2. CASE b # 1
    <3>1. (b - 1) + 1 = b BY <1>0
    <3>2. QED BY <2>2, <3>1 DEF RowsUpTo
  <2>3. QED BY <2>1, <2>2
<1>5. PICK p \in Nat : p = starts[b] /\ starts[b + 1] = p + r /\ Len(s) = p BY <1>2, <1>3, <1>4
<1>6. PICK c : c = s \o t OBVIOUS
<1>7. /\ c = s \o RowsOf(b) /\ c \in Seq(Slices) /\ Len(c) = p + r
      /\ \A i \in 1..(p + r) : c[i] = IF i <= p THEN s[i] ELSE t[i - p]
  <2>1. /\ s \o t \in Seq(Slices) /\ Len(s \o t) = Len(s) + Len(t)
        /\ \A i \in 1..(Len(s) + Len(t)) :
              (s \o t)[i] = IF i <= Len(s) THEN s[i] ELSE t[i - Len(s)]
    BY <1>4, ConcatProperties
  <2>2. Len(s) = p /\ Len(t) = r BY <1>3, <1>5
  <2>3. c = s \o RowsOf(b) BY <1>3, <1>6
  <2>4. QED BY <1>6, <2>1, <2>2, <2>3
<1>8. ASSUME NEW k \in 1..b, NEW n \in Nat, starts[k] <= n, n < starts[k + 1]
      PROVE  c[n + 1] = [block |-> k, from |-> (n - starts[k]) * width]
  <2>1. CASE k = b
    <3>1. p <= n /\ n < p + r BY <1>5, <1>8, <2>1
    <3>2. PICK j \in 1..r : j = (n + 1) - p /\ j - 1 = n - p BY <3>1
    <3>3. n + 1 \in 1..(p + r) /\ ~(n + 1 <= p) BY <3>1
    <3>4. c[n + 1] = t[j] BY <1>7, <3>2, <3>3
    <3>5. QED BY <1>3, <1>5, <2>1, <3>2, <3>4
  <2>2. CASE k # b
    <3>1. k \in 1..(b - 1) /\ b # 1 /\ k + 1 \in 1..Len(starts) /\ k + 1 <= b BY <1>0, <1>2, <2>2
    <3>2. starts[k + 1] <= p /\ starts[k + 1] \in Nat BY <1>1, <1>2, <1>5, <3>1
    <3>3. n + 1 \in 1..(p + r) /\ n + 1 <= p BY <1>8, <3>2
    <3>4. c[n + 1] = s[n + 1] BY <1>7, <3>3
    <3>5. s[n + 1] = [block |-> k, from |-> (n - starts[k]) * width] BY <1>8, <3>1 DEF RowsUpTo
    <3>6. QED BY <3>4, <3>5
  <2>3. QED BY <2>1, <2>2
<1>9. QED BY <1>5, <1>7, <1>8 DEF RowsUpTo

LEMMA RowsCovered ==
    ASSUME InputInv, StartsInv, starts \in Seq(Nat), Full, Blocks # <<>>
    PROVE  RowsUpTo(AllRows, Len(Blocks))
<1>1. Blocks \in Seq(Block) /\ Len(Blocks) \in Nat \ {0} /\ width \in Nat /\ width > 0
  BY InputTypes DEF StartsInv, Full
<1>2. PICK N \in Nat \ {0} : N = Len(Blocks) /\ DOMAIN Blocks = 1..N BY <1>1
<1>3. PICK ss \in Seq(Seq(Slices)) :
        Len(ss) = N /\ AllRows = FlattenSeq(ss) /\ \A b \in 1..N : ss[b] = RowsOf(b)
  <2>. DEFINE mine == [b \in 1..N |-> RowsOf(b)]
  <2>1. \A b \in 1..N : RowsOf(b) \in Seq(Slices) BY <1>1, <1>2, RowsOfBlock
  <2>2. mine \in Seq(Seq(Slices)) /\ Len(mine) = N BY <2>1
  <2>3. AllRows = FlattenSeq(mine) BY <1>2 DEF AllRows, RowsOf
  <2>4. QED BY <2>2, <2>3
<1>4. PICK g : IsFlatTo(g, ss, N) /\ AllRows = g[N] BY <1>2, <1>3, FlatIs
<1>5. \A b \in 1..N : g[b] = IF b = 1 THEN ss[b] ELSE g[b - 1] \o ss[b] BY <1>4 DEF IsFlatTo
<1>. DEFINE bad == {b \in 1..N : ~RowsUpTo(g[b], b)}
<1>6. SUFFICES ASSUME bad # {} PROVE FALSE BY <1>2, <1>4
<1>7. PICK b \in bad : \A k \in bad : b <= k
  <2>1. bad \in SUBSET Nat BY <1>2
  <2>2. QED BY <1>6, <2>1, LeastElement
<1>8. b \in 1..N /\ ~RowsUpTo(g[b], b) OBVIOUS
<1>9. CASE b = 1
  <2>1. g[1] = RowsOf(1) /\ RowsOf(1) \in Seq(Slices) BY <1>3, <1>5, <1>8, <1>9
  <2>2. <<>> \o RowsOf(1) = RowsOf(1) BY <2>1, ConcatEmptySeq
  <2>3. QED BY <1>2, <1>8, <1>9, <2>1, <2>2, RowsGrow
<1>10. CASE b # 1
  <2>1. b - 1 \in 1..N /\ ~(b <= b - 1) BY <1>8, <1>10
  <2>2. RowsUpTo(g[b - 1], b - 1) BY <1>7, <2>1
  <2>3. g[b] = g[b - 1] \o RowsOf(b) BY <1>3, <1>5, <1>8, <1>10
  <2>4. PICK s : s = g[b - 1] OBVIOUS
  <2>5. RowsUpTo(s \o RowsOf(b), b) BY <1>2, <1>8, <1>10, <2>2, <2>4, RowsGrow
  <2>6. QED BY <1>8, <2>3, <2>4, <2>5
<1>11. QED BY <1>9, <1>10

LEMMA RowsOfTheFile ==
    ASSUME InputInv, StartsInv, starts \in Seq(Nat), Full
    PROVE  /\ Last(starts) \in Nat /\ Len(AllRows) = Last(starts)
           /\ (AllRows # <<>>) = (Last(starts) > 0)
           /\ \A n \in Nat : n < Last(starts) => AllRows[n + 1] = RowBytes(n)
<1>1. /\ Blocks \in Seq(Block) /\ Len(Blocks) \in Nat /\ starts[1] = 0
      /\ Last(starts) = starts[Len(Blocks) + 1] /\ Last(starts) \in Nat
  BY InputTypes DEF Full, StartsInv, Last
<1>2. AllRows \in Seq(Slices) /\ Len(AllRows) = Last(starts)
  <2>1. CASE Blocks = <<>>
    <3>1. Last(starts) = 0 BY <1>1, <2>1
    <3>2. [b \in DOMAIN Blocks |-> RowsOf(b)] = <<>> BY <2>1
    <3>3. AllRows = FlattenSeq([b \in DOMAIN Blocks |-> RowsOf(b)]) BY DEF AllRows, RowsOf
    <3>4. AllRows = <<>> BY <3>2, <3>3, FlatEmpty
    <3>5. QED BY <3>1, <3>4
  <2>2. CASE Blocks # <<>> BY <1>1, <2>2, RowsCovered DEF RowsUpTo
  <2>3. QED BY <2>1, <2>2
<1>3. (AllRows # <<>>) = (Last(starts) > 0) BY <1>1, <1>2
<1>4. ASSUME NEW n \in Nat, n < Last(starts) PROVE AllRows[n + 1] = RowBytes(n)
  <2>1. PICK k : k = BlockOf(n) OBVIOUS
  <2>2. k \in 1..(Len(starts) - 1) /\ starts[k] <= n /\ n < starts[k + 1]
    BY <1>4, <2>1, BisectFindsBlock DEF Full
  <2>3. k \in 1..Len(Blocks) /\ Blocks # <<>> BY <1>1, <2>2 DEF Full
  <2>4. AllRows[n + 1] = [block |-> k, from |-> (n - starts[k]) * width]
    BY <2>2, <2>3, RowsCovered DEF RowsUpTo
  <2>5. QED BY <2>1, <2>4 DEF RowBytes
<1>5. QED BY <1>1, <1>2, <1>3, <1>4

-----------------------------------------------------------------------------
(* What the file refuses is what reading the matrix refuses.               *)
LEMMA SumsOfTheFile ==
    ASSUME InputInv, StartsInv, starts \in Seq(Nat), Full, MatrixRefusal = NoError
    PROVE  FileRefusal = SumsRefusal
BY RowsOfTheFile DEF FileRefusal, SumsRefusal

LEMMA MatrixFirst == MatrixRefusal # NoError => FileRefusal = MatrixRefusal
BY DEF FileRefusal

(* A row that is read from a matrix that is kept is that of the file.      *)
LEMMA RowAnswerOfFile ==
    ASSUME InputInv, StartsInv, starts \in Seq(Nat), Full, FileRefusal = NoError, NEW n \in Nat
    PROVE  RowAnswer(n) = RowOfFile(n) /\ (n < Last(starts) => ReadRow(RowBytes(n)) = RowOfFile(n))
<1>1. /\ Last(starts) \in Nat /\ Len(AllRows) = Last(starts)
      /\ (n < Last(starts) => AllRows[n + 1] = RowBytes(n))
  BY RowsOfTheFile
<1>2. CASE n < Last(starts)
  <2>1. ~(n >= Last(starts)) BY <1>1, <1>2
  <2>2. QED BY <1>1, <1>2, <2>1 DEF RowAnswer, RowOfFile
<1>3. CASE ~(n < Last(starts))
  <2>1. n >= Last(starts) BY <1>1, <1>3
  <2>2. QED BY <1>1, <1>3, <2>1 DEF RowAnswer, RowOfFile
<1>4. QED BY <1>2, <1>3

(* An index that is not refused has an id once, so that the ordinal of an  *)
(* id is the one of its only record.                                       *)
LEMMA IndexIsUnique ==
    ASSUME InputInv, IndexRefusal = NoError
    PROVE  \A i, j \in DOMAIN table.index.records :
              table.index.records[i].id = table.index.records[j].id => i = j
<1>. DEFINE r == table.index.records
            bad == {i \in DOMAIN r : RecordRefusal(i) # NoError}
<1>1. table.index \in [records : Seq(IndexEntry), then : Refusals \cup {NoError}]
  BY TablesAssumption DEF InputInv
<1>2. r \in Seq(IndexEntry) BY <1>1
<1>3. DOMAIN r \subseteq Nat /\ DOMAIN r = 1..Len(r) /\ Len(r) \in Nat BY <1>2
<1>4. bad = {}
  <2>1. SUFFICES ASSUME bad # {} PROVE FALSE OBVIOUS
  <2>2. bad \in SUBSET Nat BY <1>3
  <2>3. Min(bad) \in bad BY <2>1, <2>2, MinProperties
  <2>4. RecordRefusal(Min(bad)) = NoError BY <2>1 DEF IndexRefusal
  <2>5. QED BY <2>3, <2>4
<1>5. ASSUME NEW i \in DOMAIN r, NEW j \in DOMAIN r, r[i].id = r[j].id, i < j PROVE FALSE
  <2>1. RecordRefusal(j) = NoError BY <1>4
  <2>2. i \in 1..(j - 1) BY <1>3, <1>5
  <2>3. RecordRefusal(j) = "PstFormatError" BY <1>5, <2>2 DEF RecordRefusal
  <2>4. QED BY <2>1, <2>3 DEF NoError
<1>6. \A i, j \in DOMAIN r : i = j \/ i < j \/ j < i BY <1>3
<1>7. QED BY <1>5, <1>6

LEMMA OrdinalIsOfRecord ==
    ASSUME InputInv, NEW id
    PROVE  /\ (Ordinal(id) = {}) = (\A r \in ToSet(table.index.records) : r.id # id)
           /\ IndexRefusal = NoError => \A n \in Ordinal(id) :
                 n = (CHOOSE r \in ToSet(table.index.records) : r.id = id).ordinal
<1>. DEFINE r == table.index.records
<1>1. ToSet(r) = {r[i] : i \in DOMAIN r} BY DEF ToSet
<1>2. Ordinal(id) = {r[i].ordinal : i \in {j \in DOMAIN r : r[j].id = id}} BY DEF Ordinal
<1>3. ASSUME IndexRefusal = NoError, NEW n \in Ordinal(id)
      PROVE  n = (CHOOSE e \in ToSet(r) : e.id = id).ordinal
  <2>1. PICK i \in DOMAIN r : r[i].id = id /\ r[i].ordinal = n BY <1>2, <1>3
  <2>2. \A e \in ToSet(r) : e.id = id => e = r[i] BY <1>1, <1>3, <2>1, IndexIsUnique
  <2>3. PICK c : c = CHOOSE e \in ToSet(r) : e.id = id OBVIOUS
  <2>4. c \in ToSet(r) /\ c.id = id BY <1>1, <2>1, <2>3
  <2>5. c = r[i] BY <2>2, <2>4
  <2>6. QED BY <2>1, <2>3, <2>5
<1>4. (Ordinal(id) = {}) = (\A e \in ToSet(r) : e.id # id)
  <2>. HIDE DEF r
  <2>1. (Ordinal(id) = {}) <=> (\A e \in ToSet(r) : e.id # id) BY <1>1, <1>2
  <2>2. (Ordinal(id) = {}) \in BOOLEAN /\ (\A e \in ToSet(r) : e.id # id) \in BOOLEAN OBVIOUS
  <2>3. QED BY <2>1, <2>2
<1>5. QED BY <1>3, <1>4

-----------------------------------------------------------------------------
(* What a call is due, and the invariant: whatever is kept was accepted,   *)
(* and what was handed out, and the last answer, are the file's.           *)
Due == CASE asked.kind = "row" -> RowOfFile(asked.index)
         [] asked.kind = "find" -> Found(asked.id)
         [] asked.kind = "count" -> IF FileRefusal # NoError THEN Refused(FileRefusal)
                                    ELSE [kind |-> "count", rows |-> Len(AllRows)]
         [] asked.kind = "next" ->
              IF gpc = "done" THEN [kind |-> "stop"]
              ELSE RowOfFile(IF gpc = "refused" THEN at ELSE at - 1)

Accepted ==
    /\ cpc = "sum" => MatrixRefusal = NoError
    /\ matrix => FileRefusal = NoError
    /\ indexed => IndexRefusal = NoError
Running ==
    cpc # "idle" =>
        /\ asked.kind \in {"row", "find", "count", "next"}
        /\ asked.kind = "find" => IndexRefusal = NoError /\ Ordinal(asked.id) # {}
HandedOut ==
    /\ out \in Seq(WholeRows) /\ Len(out) = at
    /\ at # 0 => matrix /\ at <= Last(starts)
    /\ \A i \in 1..at : out[i] = RowOfFile(i - 1)
    /\ gpc = "done" => matrix /\ at = Last(starts)
Answered == (cpc = "idle" /\ answer # Nothing /\ opc = "open") => answer = Due
FileInv == Accepted /\ Running /\ HandedOut /\ Answered

LEMMA AnswersFrame ==
    ASSUME UNCHANGED table
    PROVE  /\ UNCHANGED <<MatrixRefusal, FileRefusal, IndexRefusal, AllRows>>
           /\ \A i : RowOfFile(i)' = RowOfFile(i)
           /\ \A id : Found(id)' = Found(id) /\ Ordinal(id)' = Ordinal(id)
<1>1. UNCHANGED <<Blocks, width, info>> BY DEF Blocks, width, info
<1>2. UNCHANGED TotalLength BY DEF TotalLength, Blocks, MapThenSumSet, MapThenFoldSet
<1>3. UNCHANGED AllRows BY <1>1 DEF AllRows, RowsIn
<1>4. UNCHANGED MatrixRefusal BY <1>1, <1>2 DEF MatrixRefusal
<1>5. UNCHANGED FileRefusal BY <1>1, <1>3, <1>4 DEF FileRefusal
<1>6. UNCHANGED IndexRefusal BY DEF IndexRefusal, RecordRefusal
<1>7. \A id : Ordinal(id)' = Ordinal(id) BY DEF Ordinal
<1>8. \A s : ReadRow(s)' = ReadRow(s)
  BY <1>1 DEF ReadRow, Cell, RowAt, OutsideRegion, BitmapSize
<1>9. \A i : RowOfFile(i)' = RowOfFile(i) BY <1>3, <1>5, <1>8 DEF RowOfFile
<1>10. \A id : Found(id)' = Found(id) BY <1>6, <1>9 DEF Found
<1>11. QED BY <1>3, <1>4, <1>5, <1>6, <1>7, <1>9, <1>10

LEMMA FileInit == Init => FileInv
<1>. SUFFICES ASSUME Init PROVE FileInv OBVIOUS
<1>1. /\ cpc = "idle" /\ matrix = FALSE /\ indexed = FALSE /\ gpc = "new" /\ at = 0 /\ out = <<>>
      /\ answer = Nothing
  BY DEF Init
<1>2. Accepted /\ Running /\ Answered BY <1>1 DEF Accepted, Running, Answered
<1>3. HandedOut
  <2>1. out \in Seq(WholeRows) /\ Len(out) = at BY <1>1
  <2>2. QED BY <1>1, <2>1 DEF HandedOut
<1>4. QED BY <1>2, <1>3 DEF FileInv

LEMMA FileNext == TableInv /\ FileInv /\ Step => FileInv'
<1>. SUFFICES ASSUME TableInv, FileInv, Step PROVE FileInv' OBVIOUS
<1>1. /\ InputInv /\ StartsInv /\ AskedInv /\ starts \in Seq(Nat)
      /\ UNCHANGED <<table, MatrixRefusal, FileRefusal, IndexRefusal, AllRows>>
      /\ \A i : RowOfFile(i)' = RowOfFile(i)
      /\ \A id : Found(id)' = Found(id) /\ Ordinal(id)' = Ordinal(id)
      /\ UNCHANGED WholeRows
  <2>1. UNCHANGED table BY TableConstant
  <2>2. InputInv /\ StartsInv /\ AskedInv /\ starts \in Seq(Nat) BY DEF TableInv, TableTypeOK
  <2>3. QED BY <2>1, <2>2, AnswersFrame, FileFrame
<1>2. Accepted /\ Running /\ HandedOut /\ Answered BY DEF FileInv
<1>3. /\ matrix => cpc # "sum" /\ Full
      /\ cpc = "sum" => starts # <<>> /\ ~matrix
      /\ cpc \in {"idle", "need", "sum"} /\ matrix \in BOOLEAN /\ indexed \in BOOLEAN
      /\ at \in Nat /\ gpc \in {"new", "running", "done", "refused"}
  <2>1. matrix => starts # <<>> BY DEF TableInv, TableTypeOK
  <2>2. QED BY <2>1 DEF TableInv, TableTypeOK, Full
<1>4. /\ UNCHANGED <<gpc, at, out>> /\ (at # 0 => UNCHANGED <<matrix, starts>>)
      /\ (gpc = "done" => UNCHANGED <<matrix, starts>>)
      => HandedOut'
  <2>. SUFFICES ASSUME UNCHANGED <<gpc, at, out>>, at # 0 => UNCHANGED <<matrix, starts>>,
                       gpc = "done" => UNCHANGED <<matrix, starts>>
                PROVE  HandedOut'
    OBVIOUS
  <2>1. at # 0 => Last(starts)' = Last(starts) BY DEF Last
  <2>2. gpc = "done" => Last(starts)' = Last(starts) BY DEF Last
  <2>3. QED BY <1>1, <1>2, <2>1, <2>2 DEF HandedOut
<1>5. matrix => /\ Last(starts) \in Nat /\ Len(AllRows) = Last(starts)
                /\ \A n \in Nat : RowAnswer(n) = RowOfFile(n)
                /\ \A n \in Nat : n < Last(starts) => ReadRow(RowBytes(n)) = RowOfFile(n)
  BY <1>1, <1>2, <1>3, RowsOfTheFile, RowAnswerOfFile DEF Accepted
<1>6. (at # 0 => matrix) /\ (gpc = "done" => matrix) BY <1>2 DEF HandedOut
<1>7. CASE Open
  <2>1. /\ (opc' = "open" => answer' = Nothing)
        /\ UNCHANGED <<cpc, asked, matrix, starts, indexed, gpc, at, out>>
    BY <1>7 DEF Open, cache, generator
  <2>2. Accepted' /\ Running' BY <1>1, <1>2, <2>1 DEF Accepted, Running
  <2>3. Answered' BY <2>1 DEF Answered, Nothing
  <2>4. QED BY <1>4, <2>1, <2>2, <2>3 DEF FileInv
<1>8. CASE AskRow \/ AskCount \/ AskNext
  <2>1. /\ cpc' = "need" /\ asked'.kind \in {"row", "count", "next"}
        /\ UNCHANGED <<opc, matrix, starts, indexed, gpc, at, out>>
    BY <1>8 DEF AskRow, AskCount, AskNext, Call, generator
  <2>2. Accepted' BY <1>1, <1>2, <2>1 DEF Accepted
  <2>3. Running' /\ Answered' BY <2>1 DEF Running, Answered
  <2>4. QED BY <1>4, <2>1, <2>2, <2>3 DEF FileInv
<1>9. ASSUME NEW id \in RowIds, FindRow(id) PROVE FileInv'
  <2>1. /\ asked' = [kind |-> "find", id |-> id] /\ UNCHANGED <<opc, matrix, starts, gpc, at, out>>
        /\ indexed' = (indexed \/ IndexRefusal = NoError) /\ cpc = "idle"
        /\ IF ~indexed' \/ Ordinal(id) = {}
           THEN UNCHANGED cpc /\ answer' = Refused(IF indexed' THEN "PstNotFoundError" ELSE IndexRefusal)
           ELSE cpc' = "need"
    BY <1>9 DEF FindRow, Call, generator, Idle
  <2>2. indexed' => IndexRefusal = NoError BY <1>2, <1>3, <2>1 DEF Accepted
  <2>3. asked'.kind = "find" /\ asked'.id = id BY <2>1
  <2>4. Accepted' BY <1>1, <1>2, <2>1, <2>2 DEF Accepted
  <2>5. CASE ~indexed'
    <3>1. IndexRefusal # NoError /\ answer' = Refused(IndexRefusal) /\ cpc' = "idle"
      BY <1>3, <2>1, <2>5
    <3>2. Found(id) = Refused(IndexRefusal) BY <3>1 DEF Found
    <3>3. Due' = Found(id)' BY <2>3 DEF Due
    <3>4. Answered' /\ Running' BY <1>1, <3>1, <3>2, <3>3 DEF Answered, Running
    <3>5. QED BY <1>4, <2>1, <2>4, <3>4 DEF FileInv
  <2>6. CASE indexed' /\ Ordinal(id) = {}
    <3>1. IndexRefusal = NoError /\ answer' = Refused("PstNotFoundError") /\ cpc' = "idle"
      BY <2>1, <2>2, <2>6
    <3>2. Found(id) = Refused("PstNotFoundError")
      BY <1>1, <2>6, <3>1, OrdinalIsOfRecord DEF Found
    <3>3. Due' = Found(id)' BY <2>3 DEF Due
    <3>4. Answered' /\ Running' BY <1>1, <3>1, <3>2, <3>3 DEF Answered, Running
    <3>5. QED BY <1>4, <2>1, <2>4, <3>4 DEF FileInv
  <2>7. CASE indexed' /\ Ordinal(id) # {}
    <3>1. cpc' = "need" BY <2>1, <2>7
    <3>2. Running' /\ Answered' BY <1>1, <2>2, <2>3, <2>7, <3>1 DEF Running, Answered
    <3>3. QED BY <1>4, <2>1, <2>4, <3>2 DEF FileInv
  <2>8. QED BY <2>5, <2>6, <2>7
<1>10. ASSUME NEW c, Raise(c), c = FileRefusal, c # NoError, cpc # "idle", ~matrix
       PROVE  FileInv'
  <2>1. /\ cpc' = "idle" /\ answer' = Refused(c)
        /\ gpc' = IF asked.kind = "next" THEN "refused" ELSE gpc
        /\ UNCHANGED <<table, opc, asked, matrix, indexed, at, out>>
    BY <1>10 DEF Raise
  <2>2. Accepted' /\ Running' BY <1>1, <1>2, <2>1 DEF Accepted, Running
  <2>3. at = 0 /\ gpc' # "done" BY <1>6, <1>10, <2>1
  <2>4. HandedOut' BY <1>1, <1>2, <2>1, <2>3 DEF HandedOut
  <2>5. Due' = Refused(FileRefusal)
    <3>1. PICK k : k = asked.kind /\ k \in {"row", "find", "count", "next"}
                   /\ (k = "find" => IndexRefusal = NoError /\ Ordinal(asked.id) # {})
      BY <1>2, <1>10 DEF Running
    <3>2. \A i : RowOfFile(i) = Refused(FileRefusal) BY <1>10 DEF RowOfFile
    <3>3. k = "find" => Found(asked.id) = Refused(FileRefusal)
      BY <1>1, <3>1, <3>2, OrdinalIsOfRecord DEF Found
    <3>4. k = "next" => gpc' = "refused" BY <2>1, <3>1
    <3>5. asked' = asked /\ asked'.kind = k BY <2>1, <3>1
    <3>6. CASE k = "row"
      <4>1. Due' = RowOfFile(asked.index)' BY <3>5, <3>6 DEF Due
      <4>2. QED BY <1>1, <2>1, <3>2, <4>1
    <3>7. CASE k = "find"
      <4>1. Due' = Found(asked.id)' BY <3>5, <3>7 DEF Due
      <4>2. QED BY <1>1, <2>1, <3>3, <3>7, <4>1
    <3>8. CASE k = "count" BY <1>1, <1>10, <3>5, <3>8 DEF Due, Refused
    <3>9. CASE k = "next"
      <4>1. Due' = RowOfFile(at)' BY <3>4, <3>5, <3>9 DEF Due
      <4>2. QED BY <1>1, <2>1, <3>2, <4>1
    <3>10. QED BY <3>1, <3>6, <3>7, <3>8, <3>9
  <2>6. Answered' BY <1>1, <1>10, <2>1, <2>5 DEF Answered
  <2>7. QED BY <2>2, <2>4, <2>6 DEF FileInv
<1>11. CASE RefuseMatrix
  <2>1. /\ Raise(MatrixRefusal) /\ MatrixRefusal # NoError /\ cpc = "need" /\ ~matrix
        /\ UNCHANGED starts
    BY <1>11 DEF RefuseMatrix, Needs
  <2>2. QED BY <1>1, <1>10, <2>1, MatrixFirst
<1>12. CASE StartSums
  <2>1. /\ ~matrix /\ cpc = "need" /\ cpc' = "sum" /\ MatrixRefusal = NoError
        /\ UNCHANGED <<opc, asked, matrix, indexed, gpc, at, out, answer>>
    BY <1>12 DEF StartSums, Needs, generator
  <2>2. Accepted' /\ Running' /\ Answered' BY <1>1, <1>2, <2>1 DEF Accepted, Running, Answered
  <2>3. QED BY <1>4, <1>6, <2>1, <2>2 DEF FileInv
<1>13. CASE AppendStart
  <2>1. /\ cpc = "sum" /\ UNCHANGED <<opc, cpc, asked, matrix, indexed, gpc, at, out, answer>>
    BY <1>13 DEF AppendStart, generator
  <2>2. Accepted' /\ Running' /\ Answered' BY <1>1, <1>2, <2>1 DEF Accepted, Running, Answered
  <2>3. QED BY <1>3, <1>4, <1>6, <2>1, <2>2 DEF FileInv
<1>14. CASE RefuseSums
  <2>1. /\ Raise(SumsRefusal) /\ SumsRefusal # NoError /\ cpc = "sum" /\ starts' = <<>>
        /\ Len(starts) = Len(Blocks) + 1
    BY <1>14 DEF RefuseSums, Summed
  <2>2. Full /\ MatrixRefusal = NoError BY <1>2, <1>3, <2>1 DEF Full, Accepted
  <2>3. FileRefusal = SumsRefusal BY <1>1, <2>2, SumsOfTheFile
  <2>4. QED BY <1>3, <1>10, <2>1, <2>3
<1>15. CASE KeepMatrix
  <2>1. /\ SumsRefusal = NoError /\ cpc = "sum" /\ Len(starts) = Len(Blocks) + 1
        /\ matrix' = TRUE /\ cpc' = "need" /\ ~matrix
        /\ UNCHANGED <<opc, asked, starts, indexed, gpc, at, out, answer>>
    BY <1>3, <1>15 DEF KeepMatrix, Summed, generator
  <2>2. Full /\ MatrixRefusal = NoError BY <1>2, <1>3, <2>1 DEF Full, Accepted
  <2>3. FileRefusal = NoError BY <1>1, <2>1, <2>2, SumsOfTheFile
  <2>4. Accepted' /\ Running' /\ Answered'
    BY <1>1, <1>2, <2>1, <2>3 DEF Accepted, Running, Answered
  <2>5. QED BY <1>4, <1>6, <2>1, <2>4 DEF FileInv
<1>16. CASE AnswerRow
  <2>1. PICK n \in IF asked.kind = "row" THEN {asked.index} ELSE Ordinal(asked.id) :
            Return(RowAnswer(n))
    BY <1>16 DEF AnswerRow
  <2>2. /\ cpc = "need" /\ matrix /\ cpc' = "idle" /\ answer' = RowAnswer(n)
        /\ asked.kind \in {"row", "find"}
        /\ UNCHANGED <<opc, asked, matrix, starts, indexed, gpc, at, out>>
    BY <1>16, <2>1 DEF AnswerRow, Ready, Return, cache, generator
  <2>3. n \in Nat BY <1>1, <2>1, OrdinalType DEF AskedInv
  <2>4. answer' = RowOfFile(n) BY <1>5, <2>2, <2>3
  <2>5. CASE asked.kind = "row"
    <3>1. Due' = RowOfFile(asked.index)' BY <2>2, <2>5 DEF Due
    <3>2. Answered' BY <1>1, <2>1, <2>2, <2>4, <2>5, <3>1 DEF Answered
    <3>3. Accepted' /\ Running' BY <1>1, <1>2, <2>2 DEF Accepted, Running
    <3>4. QED BY <1>4, <2>2, <3>2, <3>3 DEF FileInv
  <2>6. CASE asked.kind = "find"
    <3>1. IndexRefusal = NoError /\ n \in Ordinal(asked.id) BY <1>2, <2>1, <2>2, <2>6 DEF Running
    <3>2. Found(asked.id) = RowOfFile(n)
      BY <1>1, <3>1, OrdinalIsOfRecord DEF Found
    <3>3. Due' = Found(asked.id)' BY <2>2, <2>6 DEF Due
    <3>4. Answered' BY <1>1, <2>2, <2>4, <3>2, <3>3 DEF Answered
    <3>5. Accepted' /\ Running' BY <1>1, <1>2, <2>2 DEF Accepted, Running
    <3>6. QED BY <1>4, <2>2, <3>4, <3>5 DEF FileInv
  <2>7. QED BY <2>2, <2>5, <2>6
<1>17. CASE AnswerCount
  <2>1. /\ cpc = "need" /\ matrix /\ cpc' = "idle" /\ asked.kind = "count"
        /\ answer' = [kind |-> "count", rows |-> Last(starts)]
        /\ UNCHANGED <<opc, asked, matrix, starts, indexed, gpc, at, out>>
    BY <1>17 DEF AnswerCount, Ready, Return, cache, generator
  <2>2. FileRefusal = NoError BY <1>2, <2>1 DEF Accepted
  <2>3. Due' = [kind |-> "count", rows |-> Len(AllRows)] BY <1>1, <2>1, <2>2 DEF Due
  <2>4. Answered' BY <1>5, <2>1, <2>3 DEF Answered
  <2>5. Accepted' /\ Running' BY <1>1, <1>2, <2>1 DEF Accepted, Running
  <2>6. QED BY <1>4, <2>1, <2>4, <2>5 DEF FileInv
<1>18. CASE YieldRow
  <2>. DEFINE r == ReadRow(RowBytes(at))
  <2>1. /\ cpc = "need" /\ matrix /\ cpc' = "idle" /\ answer' = r /\ at < Last(starts)
        /\ asked.kind = "next" /\ UNCHANGED <<opc, asked, matrix, starts, indexed>>
        /\ IF r.kind = "row"
           THEN gpc' = "running" /\ at' = at + 1 /\ out' = Append(out, r)
           ELSE gpc' = "refused" /\ at' = at /\ out' = out
    BY <1>18 DEF YieldRow, Ready, Return, cache
  <2>2. r = RowOfFile(at) BY <1>3, <1>5, <2>1
  <2>3. r.kind = "row" => r \in WholeRows
    <3>1. RowBytes(at) \in [block : Nat, from : Nat] /\ Inside(RowBytes(at))
      BY <1>1, <1>3, <2>1, RowInside DEF TableInv
    <3>2. r.kind = "row" => r = RowRead(RowBytes(at)) BY ReadRowCases
    <3>3. QED BY <3>1, <3>2 DEF WholeRows
  <2>. HIDE DEF r
  <2>4. Accepted' /\ Running' BY <1>1, <1>2, <2>1 DEF Accepted, Running
  <2>5. CASE r.kind = "row"
    <3>1. gpc' = "running" /\ at' = at + 1 /\ out' = Append(out, r) BY <2>1, <2>5
    <3>2. Due' = RowOfFile(at - 1)' BY <2>1, <3>1 DEF Due
    <3>3. at' - 1 = at BY <1>3, <3>1
    <3>4. Answered' BY <1>1, <2>1, <2>2, <3>2, <3>3 DEF Answered
    <3>5. HandedOut'
      <4>1. out \in Seq(WholeRows) /\ Len(out) = at /\ \A i \in 1..at : out[i] = RowOfFile(i - 1)
        BY <1>2 DEF HandedOut
      <4>2. PICK e \in WholeRows : e = r BY <2>3, <2>5
      <4>3. out' \in Seq(WholeRows) /\ Len(out') = at + 1 /\ out'[at + 1] = r
            /\ \A i \in 1..at : out'[i] = out[i]
        BY <3>1, <4>1, <4>2, AppendProperties
      <4>4. ASSUME NEW i \in 1..at' PROVE out'[i] = RowOfFile(i - 1)
        <5>1. CASE i = at + 1
          <6>1. i - 1 = at BY <1>3, <5>1
          <6>2. QED BY <2>2, <4>3, <5>1, <6>1
        <5>2. CASE i # at + 1
          <6>1. i \in 1..at BY <1>3, <3>1, <5>2
          <6>2. QED BY <4>1, <4>3, <6>1
        <5>3. QED BY <5>1, <5>2
      <4>5. Last(starts)' = Last(starts) /\ at' <= Last(starts) BY <1>3, <1>5, <2>1, <3>1 DEF Last
      <4>6. QED BY <1>1, <2>1, <3>1, <4>3, <4>4, <4>5 DEF HandedOut
    <3>6. QED BY <2>4, <3>4, <3>5 DEF FileInv
  <2>6. CASE r.kind # "row"
    <3>1. gpc' = "refused" /\ at' = at /\ out' = out BY <2>1, <2>6
    <3>2. Due' = RowOfFile(at)' BY <2>1, <3>1 DEF Due
    <3>3. Answered' BY <1>1, <2>1, <2>2, <3>1, <3>2 DEF Answered
    <3>4. Last(starts)' = Last(starts) BY <2>1 DEF Last
    <3>5. HandedOut' BY <1>1, <1>2, <2>1, <3>1, <3>4 DEF HandedOut
    <3>6. QED BY <2>4, <3>3, <3>5 DEF FileInv
  <2>7. QED BY <2>5, <2>6
<1>19. CASE Exhaust
  <2>1. /\ cpc = "need" /\ matrix /\ cpc' = "idle" /\ answer' = [kind |-> "stop"] /\ gpc' = "done"
        /\ asked.kind = "next" /\ at >= Last(starts)
        /\ UNCHANGED <<opc, asked, matrix, starts, indexed, at, out>>
    BY <1>19 DEF Exhaust, Ready, Return, cache
  <2>2. Due' = [kind |-> "stop"] BY <2>1 DEF Due
  <2>3. at = Last(starts)
    <3>1. at # 0 => at <= Last(starts) BY <1>2 DEF HandedOut
    <3>2. QED BY <1>3, <1>5, <2>1, <3>1
  <2>4. Last(starts)' = Last(starts) BY <2>1 DEF Last
  <2>5. HandedOut' BY <1>1, <1>2, <2>1, <2>3, <2>4 DEF HandedOut
  <2>6. Accepted' /\ Running' /\ Answered' BY <1>1, <1>2, <2>1, <2>2 DEF Accepted, Running, Answered
  <2>7. QED BY <2>5, <2>6 DEF FileInv
<1>20. CASE UNCHANGED tablevars
  <2>1. UNCHANGED <<table, opc, cpc, asked, matrix, starts, indexed, gpc, at, out, answer>>
    BY <1>20 DEF tablevars, cache, generator
  <2>2. Due' = Due
    <3>1. RowOfFile(asked.index)' = RowOfFile(asked.index) /\ Found(asked.id)' = Found(asked.id)
      BY <1>1, <2>1
    <3>2. RowOfFile(IF gpc = "refused" THEN at ELSE at - 1)'
            = RowOfFile(IF gpc = "refused" THEN at ELSE at - 1)
      BY <1>1, <2>1
    <3>3. QED BY <1>1, <2>1, <3>1, <3>2 DEF Due, Refused
  <2>3. Accepted' /\ Running' /\ Answered' BY <1>1, <1>2, <2>1, <2>2 DEF Accepted, Running, Answered
  <2>4. QED BY <1>4, <2>1, <2>3 DEF FileInv
<1>21. QED
  BY <1>7, <1>8, <1>9, <1>11, <1>12, <1>13, <1>14, <1>15, <1>16, <1>17, <1>18, <1>19, <1>20
  DEF Step, Next

(* For every schema, matrix, index and limit, and calls in any order while *)
(* rows() is suspended: each answer is what the file alone gives, whatever *)
(* was kept or refused before; rows() hands out the rows in the order of   *)
(* the blocks, and all of them if it ends.                                 *)
THEOREM AnswersAreOfTheFile == Spec => []AnswersFromFile
<1>1. TableInv /\ FileInv /\ [Next]_tablevars => (TableInv /\ FileInv)'
  BY InvNext, FileNext DEF Step
<1>2. Spec => [](TableInv /\ FileInv) BY InvInit, FileInit, <1>1, PTL DEF Spec
<1>3. TableInv /\ FileInv => AnswersFromFile
  <2>. SUFFICES ASSUME TableInv, FileInv PROVE AnswersFromFile OBVIOUS
  <2>1. Answered /\ HandedOut /\ Accepted BY DEF FileInv
  <2>2. (cpc = "idle" /\ answer # Nothing /\ opc = "open") => answer = Due BY <2>1 DEF Answered
  <2>3. \A i \in DOMAIN out : out[i] = RowOfFile(i - 1)
    <3>1. DOMAIN out = 1..at BY <2>1 DEF HandedOut
    <3>2. QED BY <2>1, <3>1 DEF HandedOut
  <2>4. gpc = "done" => Len(out) = Len(AllRows)
    <3>1. matrix => Full /\ InputInv /\ StartsInv /\ starts \in Seq(Nat)
      <4>1. matrix => starts # <<>> BY DEF TableInv, TableTypeOK
      <4>2. QED BY <4>1 DEF TableInv, TableTypeOK, Full
    <3>2. QED BY <2>1, <3>1, RowsOfTheFile DEF HandedOut
  <2>5. QED BY <2>2, <2>3, <2>4 DEF AnswersFromFile, Due
<1>4. QED BY <1>2, <1>3, PTL

=============================================================================
