------------------------------- MODULE Frames ------------------------------
(***************************************************************************)
(* Columns of a data frame that spell dates and times, and how a read      *)
(* makes real ones of them: objects/dataframes/temporal.py, the parsers of *)
(* the two engines, and map_dtypes of the accessor of pandas.  A cell is   *)
(* the kind of text it is ("hm" is a time without seconds, "time" one with *)
(* them), or a real date ("day"), datetime ("stamp") or time ("clock"), or *)
(* "null".  What each engine can read of a text is external.               *)
(***************************************************************************)
EXTENDS Integers, Sequences, FiniteSets, Python

CONSTANTS
  SampleSize,  \* TEMPORAL_SAMPLE_SIZE
  Cell,        \* kinds of cell that occur
  MaxCells,    \* bound on the length of a column
  MaxColumns   \* bound on the columns of a frame

VARIABLES
  engine,  \* the engine of the frame
  loaded,  \* the columns as the reader returned them
  frame,   \* the columns now
  asked,   \* history: the types that the caller has had each column cast to
  error    \* what the last call raised, None if nothing

framesVars == <<engine, loaded, frame, asked, error>>

\* A type is "object", that of texts and of what pandas has no type for, or one of
\* the engine's own.
Column(type, cells) == [type |-> type, cells |-> cells]
\* the first cells that are not null: what they are, for no more of them is looked at
Sample(cells) ==
  {cells[k] : k \in {k \in DOMAIN cells :
                       cells[k] # "null" /\ Cardinality({j \in 1 .. k : cells[j] # "null"}) <= SampleSize}}

-----------------------------------------------------------------------------
(* detect_temporal_kind: the one pattern that all of a sample follow.      *)
Texts == {"date", "datetime", "time", "hm", "text"}
Follows(kind) == CASE kind = "date" -> {"date"} [] kind = "datetime" -> {"datetime"} [] kind = "time" -> {"time", "hm"}
DetectTemporalKind(values) ==
  IF values = {} \/ ~(values \subseteq Texts) THEN None
  ELSE LET kinds == {kind \in {"date", "datetime", "time"} : values \subseteq Follows(kind)}
       IN IF kinds = {} THEN None ELSE CHOOSE kind \in kinds : TRUE

(* What to_datetime (with ISO8601, or mixed for times) and the casts of    *)
(* polars read, and the values that the cells of a column become; a cell   *)
(* they cannot read makes them raise.                                      *)
Readable(e, kind) ==
  CASE e = "pandas" /\ kind \in {"date", "datetime"} -> {"date", "datetime", "day", "stamp", "null"}
    [] e = "pandas" /\ kind = "time" -> {"date", "datetime", "time", "hm", "day", "stamp", "null"}
    [] e = "polars" /\ kind = "date" -> {"date", "null"}
    [] e = "polars" /\ kind = "datetime" -> {"datetime", "null"}
    [] e = "polars" /\ kind = "time" -> {"time", "null"}
ReadsAll(e, kind, cells) == \A k \in DOMAIN cells : cells[k] \in Readable(e, kind)
Value(kind) == CASE kind = "date" -> "day" [] kind = "datetime" -> "stamp" [] kind = "time" -> "clock"
Converted(kind, cells) == [k \in DOMAIN cells |-> IF cells[k] = "null" THEN "null" ELSE Value(kind)]
\* pandas has no dates of its own, which become datetimes, and no times, which are objects
KindFor(e, kind) == IF e = "pandas" /\ kind = "date" THEN "datetime" ELSE kind
TypeFor(e, kind) == IF e = "pandas" /\ kind = "time" THEN "object" ELSE KindFor(e, kind)

\* Mutant of ParseColumn: what cannot be read is dropped (errors="coerce").
ParseColumnCoerced(e, column) ==
  LET kind == DetectTemporalKind(Sample(column.cells)) IN
  IF column.type # "object" \/ kind = None THEN column
  ELSE Column(TypeFor(e, kind),
              [k \in DOMAIN column.cells |->
                 IF column.cells[k] \in Readable(e, kind) \ {"null"} THEN Value(KindFor(e, kind)) ELSE "null"])

\* A column of Python's dates is one of dates to pandas; any other is what its texts are.
ParseColumn(e, column) ==
  LET sample == Sample(column.cells)
      kind == IF e = "pandas" /\ sample = {"day"} THEN "date" ELSE DetectTemporalKind(sample)
  IN IF column.type = "object" /\ kind # None /\ ReadsAll(e, kind, column.cells)
     THEN Column(TypeFor(e, kind), Converted(KindFor(e, kind), column.cells)) ELSE column

\* the frame is replaced, never written to; other engines are refused
ParseTemporalColumns(e, columns) == [k \in DOMAIN columns |-> ParseColumn(e, columns[k])]

(* map_dtypes writes column after column into the frame, and raises at the *)
(* first that cannot be cast; those before it stay cast.  The format that  *)
(* fits the texts of a column is passed with it; dt.date and dt.time leave *)
(* a column of objects.                                                    *)
Casts(column, dtype) ==
  \A k \in DOMAIN column.cells : column.cells[k] \in {dtype, "day", "stamp", "null"}
CastType(dtype) == IF dtype = "datetime" THEN "datetime" ELSE "object"
CastTo(columns, dtypes) ==
  LET fails == {k \in DOMAIN columns : dtypes[k] # None /\ ~Casts(columns[k], dtypes[k])}
      done == {k \in DOMAIN columns : dtypes[k] # None /\ \A j \in fails : k < j}
  IN [done |-> done,
      columns |-> [k \in DOMAIN columns |->
                     IF k \in done THEN Column(CastType(dtypes[k]), Converted(dtypes[k], columns[k].cells))
                     ELSE columns[k]],
      error |-> IF fails = {} THEN None ELSE "TypeError"]

-----------------------------------------------------------------------------
Rectangles(n) == [1..n -> UNION {[1..m -> Cell] : m \in 0..MaxCells}]
FramesInit ==
  /\ engine \in {"pandas", "polars"}
  /\ \E n \in 1..MaxColumns : \E cells \in Rectangles(n) :
       /\ \A i, j \in 1..n : Len(cells[i]) = Len(cells[j])
       /\ loaded = [k \in 1..n |-> Column("object", cells[k])]
       /\ asked = [k \in 1..n |-> {}]
  /\ frame = loaded /\ error = None

ParseFrame ==
  /\ frame' = ParseTemporalColumns(engine, frame) /\ error' = None
  /\ UNCHANGED <<engine, loaded, asked>>

\* The accessor is of frames of pandas.
MapDtypes(dtypes) ==
  /\ engine = "pandas"
  /\ LET cast == CastTo(frame, dtypes) IN
       /\ frame' = cast.columns /\ error' = cast.error
       /\ asked' = [k \in DOMAIN frame |-> IF k \in cast.done THEN asked[k] \cup {dtypes[k]} ELSE asked[k]]
  /\ UNCHANGED <<engine, loaded>>
FramesNext ==
  \/ ParseFrame
  \/ \E dtypes \in [1..Len(frame) -> {None, "date", "datetime", "time"}] : MapDtypes(dtypes)

-----------------------------------------------------------------------------
\* What a cell tells of a date, a time of day, or neither.
Tells(cell) ==
  CASE cell \in {"date", "day"} -> {"date"}
    [] cell \in {"datetime", "stamp"} -> {"date", "time"}
    [] cell \in {"time", "hm", "clock"} -> {"time"}
    [] cell = "text" -> {"text"}
    [] OTHER -> {}

\* What a conversion may drop: dt.date the time and dt.time the date where the caller
\* casts to them, and pandas the date of a cell in a column of times.
Dropped(k) ==
  (IF "date" \in asked[k] THEN {"time"} ELSE {})
    \cup (IF "time" \in asked[k] \/ DetectTemporalKind(Sample(loaded[k].cells)) = "time" THEN {"date"} ELSE {})

(* "A column whose full conversion fails [...] is left unchanged rather    *)
(* than nulled" (dataframes.py, parse_temporal_columns): however parses and*)
(* casts follow each other, a cell tells what it told when it was loaded,  *)
(* one that the sample did not show included, and a column is converted    *)
(* whole or not at all.                                                    *)
CellsTell ==
  \A k \in DOMAIN frame :
    /\ \A c \in DOMAIN loaded[k].cells : Tells(loaded[k].cells[c]) \subseteq Tells(frame[k].cells[c]) \cup Dropped(k)
    /\ frame[k].cells # loaded[k].cells => \A c \in DOMAIN frame[k].cells : frame[k].cells[c] \notin Texts

(* "parsing is idempotent" (read.py, read_query): what a parse leaves is   *)
(* left by the next one, also after a cast, whose dates a parse makes into *)
(* datetimes.                                                              *)
ParsedOnce ==
  \A k \in DOMAIN frame :
    ParseColumn(engine, ParseColumn(engine, frame[k])) = ParseColumn(engine, frame[k])

(* Where both engines convert a column of texts, they tell the same of each*)
(* cell, unless pandas drops a date from a column of times.                *)
EnginesAgree ==
  \A k \in DOMAIN loaded :
    LET a == ParseColumn("pandas", loaded[k])
        b == ParseColumn("polars", loaded[k])
    IN b # loaded[k] =>
         /\ a # loaded[k]
         /\ \A c \in DOMAIN b.cells : Tells(b.cells[c]) \subseteq Tells(a.cells[c])

ConversionsKeepCells == CellsTell /\ ParsedOnce /\ EnginesAgree
=============================================================================
