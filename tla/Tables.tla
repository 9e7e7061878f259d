-------------------------------- MODULE Tables --------------------------------
(***************************************************************************)
(* CSV tables that become points: the reader of csvToPoints.ts, and the    *)
(* columns that localDataset.ts offers for X, Y and Z after it has read    *)
(* the head of the file.                                                   *)
(*                                                                         *)
(* A text is a sequence of quotes, commas, line ends and the pieces        *)
(* between them: numbers, and words that Number() does not read as finite. *)
(* The byte order mark that is removed from the first name is left out.    *)
(***************************************************************************)
EXTENDS Integers, Sequences, FiniteSets, SequencesExt, FiniteSetsExt

CONSTANTS
    Quote, Comma, Newline, Return, EndOfText,
    Numbers, Words,     \* the pieces that are finite numbers, and those that are not
    NaN,
    Headers,            \* the first rows that a table may have
    DataRows,           \* the rows that may follow
    SampleBytes,        \* CSV_SAMPLE_BYTES: the pieces of the head
    SampleRows,         \* the rows whose cells tell a column's type, 50
    TableLimits,        \* what maxPoints may be
    MaxRows             \* bound: the rows of a table

Specials == {Quote, Comma, Newline, Return}
Characters == Specials \union Numbers \union Words

VARIABLES
    table,              \* the rows that were written
    text,               \* the file
    lineEnd,            \* of all its rows
    columns,            \* the columns that are offered: [name, numeric]
    drawn               \* what csvToPointData answered, and for which coordinates

tableVars == <<table, text, lineEnd, columns, drawn>>

-----------------------------------------------------------------------------
(* The writer, which is not part of the program *)

\* A quote is written twice.
WithChar(before, char) == before \o IF char = Quote THEN <<Quote, Quote>> ELSE <<char>>
Doubled(cell) ==
    LET texts[n \in 0..Len(cell)] == IF n = 0 THEN <<>> ELSE WithChar(texts[n - 1], cell[n])
    IN texts[Len(cell)]
CellText(cell) ==
    IF Range(cell) \intersect Specials = {} THEN cell ELSE <<Quote>> \o Doubled(cell) \o <<Quote>>

WithCell(before, cell, n) == (IF n = 1 THEN before ELSE Append(before, Comma)) \o CellText(cell)
RowText(row) ==
    LET texts[n \in 0..Len(row)] == IF n = 0 THEN <<>> ELSE WithCell(texts[n - 1], row[n], n)
    IN texts[Len(row)]

\* A line without any text is no row.
IsFilled(row) == \E n \in DOMAIN row : row[n] # <<>>
WithRow(rows, row) == IF IsFilled(row) THEN Append(rows, row) ELSE rows
Filled(rows) ==
    LET filled[n \in 0..Len(rows)] == IF n = 0 THEN <<>> ELSE WithRow(filled[n - 1], rows[n])
    IN filled[Len(rows)]

\* The first row has a text, and fits into the head with its line end.
\* No cell ends with the first half of a line end, which parseCsv would take away.
ASSUME TableAssumption ==
    /\ Quote \notin {Comma, Newline, Return, EndOfText} /\ Comma \notin {Newline, Return} /\ Newline # Return
    /\ SampleBytes \in Nat /\ TableLimits \subseteq Nat
    /\ Headers \subseteq Seq(Seq(Characters)) /\ DataRows \subseteq Seq(Seq(Characters)) \ {<<>>}
    /\ \A header \in Headers : IsFilled(header) /\ Len(RowText(header)) + 2 <= SampleBytes
    /\ \A row \in Headers \union DataRows : \A n \in DOMAIN row : row[n] = <<>> \/ Last(row[n]) # Return

-----------------------------------------------------------------------------
(* parseCsv, one character after the other *)

Unread == [rows |-> <<>>, row |-> <<>>, value |-> <<>>, quoted |-> FALSE, escaped |-> FALSE]

Chomped(value) == IF value # <<>> /\ Last(value) = Return THEN Front(value) ELSE value

RowEnds(s) ==
    [s EXCEPT !.row = <<>>, !.value = <<>>, !.rows = WithRow(@, Append(s.row, Chomped(s.value)))]

\* Within quotes, a quote ends them unless another one follows, which is then skipped.
InQuotesNoSkip(s, char, following) ==
    CASE char = Quote /\ following = Quote -> [s EXCEPT !.value = Append(@, Quote)]
      [] char = Quote /\ following # Quote -> [s EXCEPT !.quoted = FALSE]
      [] OTHER -> [s EXCEPT !.value = Append(@, char)]
InQuotes(s, char, following) ==
    CASE char = Quote /\ following = Quote -> [s EXCEPT !.value = Append(@, Quote), !.escaped = TRUE]
      [] char = Quote /\ following # Quote -> [s EXCEPT !.quoted = FALSE]
      [] OTHER -> [s EXCEPT !.value = Append(@, char)]
Unquoted(s, char) ==
    CASE char = Quote -> [s EXCEPT !.quoted = TRUE]
      [] char = Comma -> [s EXCEPT !.row = Append(@, s.value), !.value = <<>>]
      [] char = Newline -> RowEnds(s)
      [] OTHER -> [s EXCEPT !.value = Append(@, char)]

ReadChar(s, char, following) ==
    CASE s.escaped -> [s EXCEPT !.escaped = FALSE]
      [] ~s.escaped /\ s.quoted -> InQuotes(s, char, following)
      [] OTHER -> Unquoted(s, char)

\* What has been read of the characters when another one follows them.
ReadChars(chars, following) ==
    LET states[n \in 0..Len(chars)] ==
            IF n = 0 THEN Unread
            ELSE ReadChar(states[n - 1], chars[n], IF n < Len(chars) THEN chars[n + 1] ELSE following)
    IN states[Len(chars)]

ParseCsv(chars) == RowEnds(ReadChars(chars, EndOfText)).rows

-----------------------------------------------------------------------------
(* Cells *)

\* What trim() and Number() see of a cell, which a short row does not have.
Trimmed(cell) ==
    LET kept == {n \in DOMAIN cell : cell[n] \notin {Newline, Return}}
    IN IF kept = {} THEN <<>> ELSE SubSeq(cell, Min(kept), Max(kept))
CellAt(row, column) == IF column \in DOMAIN row THEN Trimmed(row[column]) ELSE <<>>
IsFinite(cell) == Len(cell) = 1 /\ cell[1] \in Numbers
NumberAt(row, column) == IF IsFinite(CellAt(row, column)) THEN CellAt(row, column)[1] ELSE NaN

HeaderOf(rows) == [column \in DOMAIN rows[1] |-> Trimmed(rows[1][column])]
\* Array.indexOf: the first column of that name, or 0.
IndexOf(header, name) ==
    LET named == {column \in DOMAIN header : header[column] = name}
    IN IF named = {} THEN 0 ELSE Min(named)

-----------------------------------------------------------------------------
(* csvColumnInfo of readCsvHead *)

ReadCsvHead(chars) ==
    LET head == SubSeq(chars, 1, SampleBytes)
        newlines == {n \in DOMAIN head : head[n] = Newline /\ n > 1}
    IN CASE Len(chars) <= SampleBytes -> chars
         [] Len(chars) > SampleBytes /\ newlines # {} -> SubSeq(head, 1, Max(newlines))
         [] OTHER -> head

IsNumericColumn(rows, column) ==
    LET values == {CellAt(rows[n], column) : n \in 2..(IF Len(rows) <= SampleRows THEN Len(rows) ELSE SampleRows + 1)}
                  \ {<<>>}
    IN values # {} /\ \A value \in values : IsFinite(value)

CsvColumnInfo(chars) ==
    LET rows == ParseCsv(chars)
    IN [column \in DOMAIN HeaderOf(rows) |->
            [name |-> HeaderOf(rows)[column], numeric |-> IsNumericColumn(rows, column)]]

-----------------------------------------------------------------------------
(* csvToPointData *)

NotDrawn(reason) == [error |-> reason]

HasCoordinates(row, indexes) == \A axis \in DOMAIN indexes : NumberAt(row, indexes[axis]) # NaN

AcceptedRows(rows, indexes) == SelectSeq(Tail(rows), LAMBDA row : HasCoordinates(row, indexes))

\* The named columns with a finite value, for the rows that are given.
PointArrays(header, rows) ==
    LET Values(column) == [n \in DOMAIN rows |-> NumberAt(rows[n], column)]
    IN [column \in {c \in DOMAIN header : header[c] # <<>> /\ \E n \in DOMAIN rows : Values(c)[n] # NaN} |->
            [name |-> header[column], values |-> Values(column)]]

\* A cell that is neither blank nor a number, in a column that is kept.
InvalidCells(arrays, rows) ==
    Cardinality({pair \in (DOMAIN arrays) \X (DOMAIN rows) :
        LET cell == CellAt(rows[pair[2]], pair[1]) IN cell # <<>> /\ ~IsFinite(cell)})

CsvToPointData(chars, names, limit) ==
    LET rows == ParseCsv(chars)
        header == HeaderOf(rows)
        indexes == [axis \in DOMAIN names |-> IndexOf(header, names[axis])]
        accepted == AcceptedRows(rows, indexes)
        arrays == PointArrays(header, accepted)
    IN CASE rows = <<>> -> NotDrawn("empty")
         [] rows # <<>> /\ (0 \in Range(indexes)) -> NotDrawn("not found")
         [] OTHER ->
              IF Len(accepted) > limit THEN NotDrawn("too many")
              ELSE IF accepted = <<>> THEN NotDrawn("no points")
              ELSE [error |-> "none", arrays |-> arrays, skipped |-> Len(Tail(rows)) - Len(accepted),
                    invalid |-> InvalidCells(arrays, accepted),
                    points |-> [n \in DOMAIN accepted |->
                                    [axis \in DOMAIN indexes |-> NumberAt(accepted[n], indexes[axis])]]]

-----------------------------------------------------------------------------
NothingDrawn == [names |-> <<>>, limit |-> 0, answer |-> NotDrawn("none")]

TablesInit ==
    /\ lineEnd \in {<<Newline>>, <<Return, Newline>>}
    /\ table = <<>> /\ text = <<>> /\ columns = <<>> /\ drawn = NothingDrawn

\* The last row may lack its line end, if it has any text.
WriteRow(row, ending) ==
    /\ Len(table) < MaxRows
    /\ table # <<>> => Last(text) = Newline
    /\ RowText(row) \o ending # <<>>
    /\ table' = Append(table, row) /\ text' = text \o RowText(row) \o ending
    /\ columns' = <<>> /\ drawn' = NothingDrawn /\ UNCHANGED lineEnd

OpenTable ==
    /\ table # <<>>
    /\ columns' = CsvColumnInfo(ReadCsvHead(text))
    /\ UNCHANGED <<table, text, lineEnd, drawn>>

\* The viewer renders a table only if X, Y and Z are three names.
TableReady(names) == IsInjective(names)

\* X, Y and Z are chosen among the numeric columns.
DrawTable(names, limit) ==
    /\ TableReady(names)
    /\ \A axis \in DOMAIN names : \E n \in DOMAIN columns :
        columns[n].numeric /\ columns[n].name = names[axis]
    /\ drawn' = [names |-> names, limit |-> limit, answer |-> CsvToPointData(text, names, limit)]
    /\ UNCHANGED <<table, text, lineEnd, columns>>

RowsToWrite == IF table = <<>> THEN Headers ELSE DataRows
Coordinates == {<<columns[x].name, columns[y].name, columns[z].name>> : x, y, z \in DOMAIN columns}

TablesNext ==
    \/ \E row \in RowsToWrite, ending \in {<<>>, lineEnd} : WriteRow(row, ending)
    \/ OpenTable
    \/ \E names \in Coordinates, limit \in TableLimits : DrawTable(names, limit)

TablesSpec == TablesInit /\ [][TablesNext]_tableVars

-----------------------------------------------------------------------------
(* Properties *)

(* What the head of a file says of its columns is what its rows say: the   *)
(* names are those of the table, and a column is offered for X, Y or Z     *)
(* exactly when the complete rows of the head hold numbers in it, whatever *)
(* row the limit cuts (readCsvHead, csvColumnInfo). Line ends within cells *)
(* are left out here: a row that is cut after one is kept.                 *)
OfferedColumns ==
    columns # <<>> /\ (\A n \in DOMAIN table : \A k \in DOMAIN table[n] : Newline \notin Range(table[n][k])) =>
        LET ends == {n \in DOMAIN text : text[n] = Newline /\ (n <= SampleBytes \/ Len(text) <= SampleBytes)}
            complete == IF Len(text) <= SampleBytes THEN Len(table) ELSE Cardinality(ends)
            rows == Filled(SubSeq(table, 1, complete))
        IN /\ [n \in DOMAIN columns |-> columns[n].name] = HeaderOf(table)
           /\ \A n \in DOMAIN columns : columns[n].numeric <=> IsNumericColumn(rows, n)

\* What is shown of these rows, for its names and its limit.
KeepsRows(written, shown) ==
    LET header == HeaderOf(written)
        indexes == [axis \in DOMAIN shown.names |-> IndexOf(header, shown.names[axis])]
        rows == AcceptedRows(written, indexes)
        answer == shown.answer
    IN  /\ answer.error =
            (IF rows = <<>> THEN "no points" ELSE IF Len(rows) > shown.limit THEN "too many" ELSE "none")
        /\ answer.error = "none" =>
            /\ answer.points = [n \in DOMAIN rows |-> [axis \in DOMAIN indexes |-> NumberAt(rows[n], indexes[axis])]]
            /\ answer.skipped = Len(written) - 1 - Len(rows)
            /\ \A column \in DOMAIN header :
                LET values == [n \in DOMAIN rows |-> NumberAt(rows[n], column)] IN
                IF header[column] # <<>> /\ \E n \in DOMAIN rows : values[n] # NaN
                THEN answer.arrays[column] = [name |-> header[column], values |-> values]
                ELSE column \notin DOMAIN answer.arrays

(* Every point of a drawn table keeps the row it comes from: the points are*)
(* the rows with three finite coordinates, in the order of the file, and   *)
(* every array has at a point what that row has in the column, whatever    *)
(* rows were skipped before it and whatever the cells hold (parseCsv,      *)
(* csvToPointData).                                                        *)
PointsKeepTheirRows == drawn # NothingDrawn => KeepsRows(Filled(table), drawn)

(* Together: a table is offered and drawn as it was written.               *)
TableIsDrawn == OfferedColumns /\ PointsKeepTheirRows
=============================================================================
