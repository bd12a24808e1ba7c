----------------------------- MODULE SheetCells -----------------------------
(***************************************************************************)
(* The cells of one tab of a Google spreadsheet, as a Sheet writes them    *)
(* and reads them back (interfaces/filetypes/sheets), while others edit    *)
(* the tab.  A Sheet takes the size of its tab from the payload it read    *)
(* last.  The service is external: it keeps the cells, parses what comes   *)
(* as if a user had typed it, skips the cells that come as None, makes the *)
(* tab larger for values that go beyond it, answers with texts and leaves  *)
(* out what is empty at the ends.                                          *)
(***************************************************************************)
EXTENDS Integers, Sequences, SequencesExt, FiniteSetsExt, Python

CONSTANTS
  Alphabet,    \* the number of letters that name the columns: 26
  MaxRows, MaxColumns,  \* bounds: the largest tab
  Frames,      \* frames: the names of their columns and their rows, in pairs
  MaxEdits     \* bound: the changes made to the tab

VARIABLES
  tab,         \* the service: the texts shown, by row, padded to the size
  seen,        \* the size that the Sheet's payload says
  meanwhile,   \* history: others have resized the tab since that payload
  inserted,    \* the frame that was inserted last, while nothing else touched the tab
  answer,      \* what the last read of the whole tab gave
  bundle,      \* the two forms of _repr_mimebundle_ that have been read
  edits

-----------------------------------------------------------------------------
(* Xlsx.column_to_excel: bijective numbers, as sequences of letters 0, 1...*)
ColumnToExcel(column) ==
  LET letters[n \in Nat] ==
        IF n = 0 THEN <<>> ELSE Append(letters[(n - 1) \div Alphabet], (n - 1) % Alphabet)
  IN letters[column]
\* the service counts the columns by their letters
ColumnNumber(letters) == FoldLeft(LAMBDA n, letter : n * Alphabet + letter + 1, 0, letters)

\* XlsxSheet.excel_range: the corners

Rows(grid) == Len(grid)
Columns(grid) == IF grid = <<>> THEN 0 ELSE Len(grid[1])
Size(grid) == <<Rows(grid), Columns(grid)>>
Blank(rows, columns) == [i \in 1..rows |-> [j \in 1..columns |-> ""]]
Resized(grid, rows, columns) ==
  [i \in 1..rows |-> [j \in 1..columns |-> IF i <= Rows(grid) /\ j <= Columns(grid) THEN grid[i][j] ELSE ""]]

(* A cell of a frame is a pair: its kind and its text.                     *)
Sendable(values) == \A i \in DOMAIN values : \A j \in DOMAIN values[i] : values[i][j][1] \notin {"nan", "time"}
Shown(cell, asUser) == IF cell[1] = "formula" /\ asUser THEN "result" ELSE cell[2]

\* values.update from the first row and column on
Updated(grid, values, asUser) ==
  LET rows == Max({Rows(grid), Len(values)})
      columns == Max({Columns(grid), Len(values[1])})
      larger == Resized(grid, rows, columns)
  IN [i \in 1..rows |-> [j \in 1..columns |->
       IF i <= Len(values) /\ j <= Len(values[1]) /\ values[i][j][1] # "none"
       THEN Shown(values[i][j], asUser) ELSE larger[i][j]]]

\* values.get of the first rows and columns: the ends that are empty are cut
Cut(row) == SubSeq(row, 1, Max({0} \cup {j \in DOMAIN row : row[j] # ""}))
Answered(grid, rows, columns) ==
  LET part == [i \in 1..rows |-> Cut(SubSeq(grid[i], 1, columns))]
  IN SubSeq(part, 1, Max({0} \cup {i \in DOMAIN part : part[i] # <<>>}))

-----------------------------------------------------------------------------
CellsInit ==
  /\ tab \in {Blank(1, 1), Blank(MaxRows, MaxColumns)}
  /\ seen = Size(tab)
  /\ meanwhile = FALSE
  /\ inserted = None
  /\ answer = None
  /\ bundle = <<>>
  /\ edits = 0

Edits == edits < MaxEdits /\ edits' = edits + 1

\* refresh: the payload of the tab as it is now
Refreshed == seen' = Size(tab') /\ meanwhile' = FALSE

\* insert_df: the index and the columns above the rows
WithHeading(frame) ==
  <<<<<<"text", "Index">>>> \o frame[1]>> \o
  [i \in DOMAIN frame[2] |-> <<<<"number", ToString(i)>>>> \o frame[2][i]]
\* reset_index refuses a column of the index's name
Nameable(frame) == \A j \in DOMAIN frame[1] : frame[1][j] # <<"text", "Index">>

\* Mutant of UpdateValues: the payload is not read again.
UpdateValuesUnread(values, asUser) ==
  /\ IF Sendable(values) THEN tab' = Updated(tab, values, asUser) ELSE UNCHANGED tab
  /\ UNCHANGED <<seen, meanwhile>>
\* update_values of Sheets and of Sheet: values that cannot be sent change nothing
UpdateValues(values, asUser) ==
  IF Sendable(values)
  THEN tab' = Updated(tab, values, asUser) /\ Refreshed
  ELSE UNCHANGED <<tab, seen, meanwhile>>

\* insert_df and insert, of the first cell on
InsertDf(frame, asUser) ==
  /\ Edits /\ Nameable(frame)
  /\ UpdateValues(WithHeading(frame), asUser)
  /\ inserted' = IF Sendable(WithHeading(frame)) THEN [frame |-> frame, asUser |-> asUser, over |-> tab]
                 ELSE inserted
  /\ UNCHANGED <<answer, bundle>>

Insert(values, asUser) ==
  /\ Edits
  /\ UpdateValues(values, asUser)
  /\ inserted' = IF Sendable(values) THEN None ELSE inserted
  /\ UNCHANGED <<answer, bundle>>

\* Others edit a cell, or make the tab larger or smaller.
OthersEdit ==
  /\ Edits
  /\ \E i \in 1..Rows(tab), j \in 1..Columns(tab) : tab' = [tab EXCEPT ![i][j] = "theirs"]
  /\ inserted' = None
  /\ UNCHANGED <<seen, meanwhile, answer, bundle>>
OthersResize ==
  /\ Edits
  /\ \E rows \in 1..MaxRows, columns \in 1..MaxColumns :
       /\ <<rows, columns>> # Size(tab)
       /\ tab' = Resized(tab, rows, columns)
  /\ meanwhile' = TRUE
  /\ inserted' = None
  /\ UNCHANGED <<seen, answer, bundle>>

\* The range that to_arrays asks for without one: A1 to the corner of the payload.
WholeRange == <<seen[1], ColumnNumber(ColumnToExcel(seen[2]))>>
\* a range beyond the tab is refused
WholeRangeIsThere == WholeRange[1] <= Rows(tab) /\ WholeRange[2] <= Columns(tab)

\* to_arrays
ToArrays == Answered(tab, WholeRange[1], WholeRange[2])

\* to_pandas: the rows are as long as the longest of them; the heading is a row
ToPandas(rows) ==
  LET width == Max({0} \cup {Len(rows[i]) : i \in DOMAIN rows})
  IN [i \in DOMAIN rows |-> [j \in 1..width |-> IF j <= Len(rows[i]) THEN rows[i][j] ELSE None]]

\* df, __repr__, _repr_html_ and _repr_latex_ each read the tab anew
ReadFrame ==
  /\ answer' = IF WholeRangeIsThere
               THEN [rows |-> ToArrays, frame |-> ToPandas(ToArrays), of |-> tab, stale |-> meanwhile,
                     inserted |-> inserted]
               ELSE None  \* the service refuses
  /\ UNCHANGED <<tab, seen, meanwhile, inserted, bundle, edits>>

\* _repr_mimebundle_: the HTML form, then the text, for each of which df is read
ReprMimebundle ==
  /\ WholeRangeIsThere
  /\ bundle' = IF Len(bundle) = 1 THEN Append(bundle, ToArrays) ELSE <<ToArrays>>
  /\ UNCHANGED <<tab, seen, meanwhile, inserted, answer, edits>>

Refresh == UNCHANGED <<tab, inserted, answer, bundle, edits>> /\ Refreshed

CellsNext ==
  \/ \E frame \in Frames, asUser \in BOOLEAN : InsertDf(frame, asUser) \/ Insert(frame[2], asUser)
  \/ OthersEdit \/ OthersResize \/ ReadFrame \/ ReprMimebundle \/ Refresh

-----------------------------------------------------------------------------
(* A frame that is inserted is read back as its index, heading and texts:  *)
(* but what looks like a formula is one when it is inserted as by a user,  *)
(* the default of insert_df though not of add_sheet_from_dataframe, and a  *)
(* cell that is None shows what was there before; no cell is missed by the *)
(* read, however the tab grew, unless others have resized it.              *)
FrameReadsBack ==
  answer # None /\ ~answer.stale /\ answer.inserted # None =>
    LET values == WithHeading(answer.inserted.frame)
        before == answer.inserted.over
        at(i, j) == IF i <= Len(answer.rows) /\ j <= Len(answer.rows[i]) THEN answer.rows[i][j] ELSE ""
    IN \A i \in DOMAIN values : \A j \in DOMAIN values[i] :
         at(i, j) = IF values[i][j][1] = "none"
                    THEN (IF i <= Rows(before) /\ j <= Columns(before) THEN before[i][j] ELSE "")
                    ELSE IF values[i][j][1] = "formula" /\ answer.inserted.asUser
                    THEN "result" ELSE values[i][j][2]
=============================================================================
