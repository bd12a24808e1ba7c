----------------------------- MODULE DataFiles -----------------------------
(***************************************************************************)
(* The data files of interfaces/filetypes: DataFile and its formats Csv,   *)
(* Parquet, Feather and XlsxSheet, the workbook Xlsx, and the save of the  *)
(* data frame accessor.  A frame is its rows, the engine that holds it,    *)
(* whether it has an index of its own, and the columns that were an index  *)
(* once; what the engines and pyarrow do to a file is external.            *)
(***************************************************************************)
EXTENDS Integers, Sequences, SequencesExt, Python

CONSTANTS
  Stem,      \* paths without their suffix
  Sheet,     \* sheet names
  RowSets,   \* the rows a new frame may have, as sequences of cells; a cell
             \* may be "broken", a text with a line break in it
  MaxWrites  \* bound on the writes

VARIABLES
  disk,      \* the files: by path, a sequence of sheets, or None
  written,   \* history: what each sheet of each file was last written with
  writes

Suffix == {".csv", ".parquet", ".feather", ".xlsx"}
Engine == {"pandas", "polars"}
FilePath == [stem : Stem, suffix : Suffix]
Frame(engine, rows, index, extra) == [engine |-> engine, rows |-> rows, index |-> index, extra |-> extra]

-----------------------------------------------------------------------------
(* What a file keeps: parquet keeps the index of a frame of pandas apart,  *)
(* csv and xlsx make a column of it when told to, feather refuses one.     *)
Keeps(suffix) == suffix = ".parquet"
Refuses(suffix, frame) == suffix = ".feather" /\ frame.index
Stored(suffix, frame, index) ==
  [rows |-> frame.rows, apart |-> Keeps(suffix) /\ index /\ frame.index,
   columns |-> frame.extra + (IF ~Keeps(suffix) /\ index THEN 1 ELSE 0)]

SheetAt(file, name) ==
  LET hits == {k \in DOMAIN file : file[k].name = name} IN IF hits = {} THEN None ELSE file[CHOOSE k \in hits : TRUE].stored
With(file, name, stored) ==
  LET at == SelectInSeq(file, LAMBDA s : s.name = name)
      sheet == [name |-> name, stored |-> stored]
  IN IF at = 0 THEN Append(file, sheet) ELSE [file EXCEPT ![at] = sheet]

\* polars does not know the index that pandas keeps apart: it is a column to it
FrameOf(stored, engine) ==
  Frame(engine, stored.rows, stored.apart /\ engine = "pandas",
        stored.columns + (IF stored.apart /\ engine = "polars" THEN 1 ELSE 0))

-----------------------------------------------------------------------------
Read(path, name, engine) == FrameOf(SheetAt(disk[path], name), engine)
IsThere(path, name) == disk[path] # None /\ SheetAt(disk[path], name) # None

\* the default of index= is the format's: csv and xlsx drop the index
DefaultIndex(suffix) == Keeps(suffix)

\* a frame of the other engine is refused, but by a sheet, which converts it
Accepts(suffix, engine, frame) == suffix = ".xlsx" \/ frame.engine = engine

\* Mutant of WriteTo: the workbook is not opened to append to it.
WriteToNew(path, name, frame, index) == <<[name |-> name, stored |-> Stored(path.suffix, frame, index)]>>
WriteTo(path, name, frame, index) ==
  IF path.suffix = ".xlsx" /\ disk[path] # None
  THEN With(disk[path], name, Stored(path.suffix, frame, index))
  ELSE <<[name |-> name, stored |-> Stored(path.suffix, frame, index)]>>

Note(path, name, frame) ==
  written' = [written EXCEPT ![path] = IF path.suffix = ".xlsx" THEN [@ EXCEPT ![name] = frame]
                                        ELSE [s \in Sheet |-> frame]]
Wrote == writes < MaxWrites /\ writes' = writes + 1

-----------------------------------------------------------------------------
DataFilesInit ==
  /\ disk = [p \in FilePath |-> None]
  /\ writes = 0
  /\ written = [p \in FilePath |-> [s \in Sheet |-> None]]

NameFor(path, name) == IF path.suffix = ".xlsx" THEN name ELSE None

(* Csv, Parquet, Feather and XlsxSheet.write.                              *)
Write(path, name, frame) ==
  /\ ~Refuses(path.suffix, frame) /\ Wrote
  /\ disk' = [disk EXCEPT ![path] =
                WriteTo(path, NameFor(path, name), frame,
                        frame.engine = "pandas" /\ DefaultIndex(path.suffix))]
  /\ Note(path, name, frame)

(* Xlsx.write: the whole workbook; none at all is refused.                 *)
WriteWorkbook(path, frames) ==
  /\ path.suffix = ".xlsx" /\ frames # <<>> /\ Wrote
  /\ disk' = [disk EXCEPT ![path] =
                [k \in DOMAIN frames |-> [name |-> frames[k].name, stored |-> Stored(".xlsx", frames[k].frame, FALSE)]]]
  /\ written' = [written EXCEPT ![path] =
                   [s \in Sheet |-> LET at == {k \in DOMAIN frames : frames[k].name = s}
                                    IN IF at = {} THEN None ELSE frames[CHOOSE k \in at : TRUE].frame]]

(* convert_to, of which to_csv, to_parquet, to_feather and to_xlsx are     *)
(* calls: what is read with the engine of the file is written with it.     *)
ConvertTo(path, name, target, sheet, engine) ==
  /\ IsThere(path, NameFor(path, name)) /\ path # target
  /\ LET frame == Read(path, NameFor(path, name), engine) IN
       /\ Accepts(target.suffix, engine, frame)
       /\ Write(target, sheet, frame)

(* The save of the accessor takes the format from the suffix, and writes   *)
(* the index of a frame of pandas in every one; feather it refuses.        *)
Saves(suffix) == suffix \in {".parquet", ".csv", ".xlsx"}
Save(path, frame) ==
  /\ Wrote /\ frame.engine = "pandas" /\ Saves(path.suffix)
  /\ \E sheet \in Sheet :
       /\ sheet = CHOOSE s \in Sheet : TRUE
       /\ disk' = [disk EXCEPT ![path] =
                     <<[name |-> NameFor(path, sheet), stored |-> Stored(path.suffix, frame, TRUE)]>>]
       /\ written' = [written EXCEPT ![path] =
            [s \in Sheet |-> IF path.suffix # ".xlsx" \/ s = sheet
                             THEN [frame EXCEPT !.extra = @ + (IF Keeps(path.suffix) THEN 0 ELSE 1)] ELSE None]]

NewFrames == {Frame(engine, rows, index, 0) : engine \in Engine, rows \in RowSets, index \in BOOLEAN}
Possible == {f \in NewFrames : f.engine = "polars" => ~f.index}

DataFilesNext ==
  \/ \E path \in FilePath, name \in Sheet, frame \in Possible : Write(path, name, frame)
  \/ \E path \in FilePath, a, b \in Sheet, frame \in Possible :
       WriteWorkbook(path, IF a = b THEN <<[name |-> a, frame |-> frame]>>
                           ELSE <<[name |-> a, frame |-> frame], [name |-> b, frame |-> frame]>>)
  \/ \E path, target \in FilePath, name, sheet \in Sheet, engine \in Engine :
       ConvertTo(path, name, target, sheet, engine)
  \/ \E path \in FilePath, frame \in Possible : Save(path, frame)

-----------------------------------------------------------------------------
(* row_count and iter_chunks of each format.                               *)
Lines(rows) == Len(rows) + Len(SelectSeq(rows, LAMBDA cell : cell = "broken"))
RowCount(path, name) ==
  LET rows == SheetAt(disk[path], name).rows IN
  IF path.suffix = ".csv" THEN Lines(rows) ELSE Len(rows)  \* the heading is not counted

Chunked(rows, size) ==
  [k \in 1..((Len(rows) + size - 1) \div size) |->
     SubSeq(rows, (k - 1) * size + 1, IF k * size < Len(rows) THEN k * size ELSE Len(rows))]
Piece(engine, rows) == [engine |-> engine, rows |-> rows]
Pieces(engine, rows, size) == LET parts == Chunked(rows, size) IN [k \in DOMAIN parts |-> Piece(engine, parts[k])]

SlicedChunks(engine, rows, size) == Pieces(engine, rows, size)  \* csv and xlsx
\* each batch of a parquet file as a frame of polars, and again as one of pandas
ParquetChunks(engine, rows, size) ==
  LET parts == Chunked(rows, size) IN
  IF engine = "pandas" THEN Pieces("pandas", rows, size)
  ELSE FlattenSeq([k \in DOMAIN parts |-> <<Piece("polars", parts[k]), Piece("pandas", parts[k])>>])
\* the frame of polars is made, and then one of pandas in its place
FeatherChunks(engine, rows, size) == Pieces("pandas", rows, size)

IterChunks(path, name, engine, size) ==
  LET rows == SheetAt(disk[path], name).rows IN
  CASE path.suffix = ".parquet" -> ParquetChunks(engine, rows, size)
    [] path.suffix = ".feather" -> FeatherChunks(engine, rows, size)
    [] OTHER -> SlicedChunks(engine, rows, size)

ChunksAreRead(path, name, engine, size) ==
  LET pieces == IterChunks(path, name, engine, size) IN
  /\ FlattenSeq([k \in DOMAIN pieces |-> pieces[k].rows]) = Read(path, name, engine).rows
  /\ \A k \in DOMAIN pieces : pieces[k].engine = engine /\ Len(pieces[k].rows) \in 1..size

SheetsOf(path) == IF disk[path] = None THEN {} ELSE {disk[path][k].name : k \in DOMAIN disk[path]}

(* A sheet holds what was last written to it, whatever was written to the  *)
(* other sheets of its workbook and whichever engine wrote them, until the *)
(* workbook is written anew; and there are no others.                      *)
SheetsSurvive ==
  \A path \in FilePath, s \in Sheet :
    IF written[path][s] = None THEN ~IsThere(path, NameFor(path, s))
    ELSE /\ IsThere(path, NameFor(path, s))
         /\ Read(path, NameFor(path, s), "pandas").rows = written[path][s].rows

(* However often a file is converted from one format to another, no index  *)
(* of pandas becomes a column of it: only a save of the accessor and the   *)
(* change of engine over a frame with an index of its own add one.         *)
ColumnsStay ==
  \A path \in FilePath : \A s \in SheetsOf(path) :
    LET last == written[path][IF s = None THEN CHOOSE x \in Sheet : TRUE ELSE s]
    IN SheetAt(disk[path], s).columns = last.extra

(* "Successive chunks whose concatenation equals the result of read ...    *)
(* its concrete type matches the resolved backend" (parquet:362-364), at   *)
(* most chunk_size rows each: so it is of every format read with pandas,   *)
(* and of csv and xlsx with polars.  It is not of parquet with polars,     *)
(* where every batch comes twice, once as a frame of pandas (399-405), nor *)
(* of feather with polars, whose chunks are frames of pandas               *)
(* (feather:406-414): ParquetChunks and FeatherChunks say what comes.      *)
(* Outside csv with line breaks, row_count counts the rows.                *)
ChunksOfPandas ==
  \A path \in FilePath : \A s \in SheetsOf(path), size \in 1..3 :
    /\ ChunksAreRead(path, s, "pandas", size)
    /\ path.suffix \in {".csv", ".xlsx"} => ChunksAreRead(path, s, "polars", size)
    /\ (path.suffix # ".csv" \/ \A k \in DOMAIN SheetAt(disk[path], s).rows : SheetAt(disk[path], s).rows[k] # "broken")
         => RowCount(path, s) = Len(Read(path, s, "pandas").rows)

=============================================================================
