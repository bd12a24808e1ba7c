---------------------------- MODULE DataHandles -----------------------------
(***************************************************************************)
(* The handles of data files (interfaces/filetypes): the registry of       *)
(* formats that DataFile.from_path looks suffixes up in, which is filled   *)
(* by the imports of their modules, and the previews of a handle and of a  *)
(* workbook, which look for a file, open it and read it in steps between   *)
(* which other programs write, break or delete it.                         *)
(***************************************************************************)
EXTENDS Integers, Sequences, FiniteSets, Python

CONSTANTS
  Suffix,     \* the formats: ".xlsx" and others
  MaxChanges  \* bound: what other programs do to the files

VARIABLES
  imported,  \* the formats whose modules this process has imported
  files,     \* the file of each suffix: whether it is there, and the names of its sheets
  handle,    \* the handle that is used, or None
  preview,   \* the preview under way: the steps left, and what was shown
  changes

Engine == {"pandas", "polars"}
File(state, sheets) == [state |-> state, sheets |-> sheets]
NoFile == File("none", <<>>)
Torn == File("torn", <<>>)
Whole == {File("whole", <<>>), File("whole", <<"s1">>), File("whole", <<"s1", "s2">>)}

Handle(suffix, class, engine, sheet) == [suffix |-> suffix, class |-> class, engine |-> engine, sheet |-> sheet]

\* What the module of a format declares: Xlsx itself is no DataFile.
Class(suffix) == IF suffix = ".xlsx" THEN "XlsxSheet" ELSE suffix

HandlesInit ==
  /\ imported = {}
  /\ files = [suffix \in Suffix |-> NoFile]
  /\ handle = None
  /\ preview = [steps |-> <<>>, shown |-> <<>>, raised |-> None]
  /\ changes = 0

Idle == preview.steps = <<>>
TheFile == files[handle.suffix]

-----------------------------------------------------------------------------
\* __init_subclass__, when the module of a format is imported
Import(suffix) ==
  /\ imported' = imported \cup {suffix}
  /\ UNCHANGED <<files, handle, preview, changes>>

\* from_path: the suffix in lower case must be in the registry; a sheet of a
\* workbook cannot be had without its name
FromPath(suffix, engine, sheet) ==
  /\ Idle
  /\ handle' = IF suffix \in imported /\ (suffix = ".xlsx" <=> sheet # None)
               THEN Handle(suffix, Class(suffix), engine, sheet) ELSE None
  /\ UNCHANGED <<imported, files, preview, changes>>

\* Xlsx.__init__; Xlsx.sheet gives a handle of a sheet with the same engine
OpenWorkbook(engine) ==
  /\ Idle
  /\ imported' = imported \cup {".xlsx"}
  /\ handle' = Handle(".xlsx", "Xlsx", engine, None)
  /\ UNCHANGED <<files, preview, changes>>
SheetOfWorkbook(sheet) ==
  /\ Idle /\ handle # None /\ handle.class = "Xlsx"
  /\ handle' = Handle(".xlsx", "XlsxSheet", handle.engine, sheet)
  /\ UNCHANGED <<imported, files, preview, changes>>

\* to_csv, to_parquet, to_feather and to_xlsx import the format they convert to
\* and give a handle with the engine of their own
ConvertTo(suffix, sheet) ==
  /\ Idle /\ handle # None /\ handle.class # "Xlsx" /\ TheFile.state = "whole"
  /\ imported' = imported \cup {suffix}
  /\ files' = [files EXCEPT ![suffix] = File("whole", <<sheet>>)]
  /\ handle' = Handle(suffix, Class(suffix), handle.engine, IF suffix = ".xlsx" THEN sheet ELSE None)
  /\ UNCHANGED <<preview, changes>>

\* with_backend, of which to_pandas and to_polars read
WithBackend(engine) ==
  /\ Idle /\ handle # None
  /\ handle' = [handle EXCEPT !.engine = engine]
  /\ UNCHANGED <<imported, files, preview, changes>>

-----------------------------------------------------------------------------
\* How a read of the engine ends, over the file as it is.
ReadError(engine, sheet) ==
  IF TheFile = NoFile THEN "OSError"
  ELSE IF TheFile = Torn THEN (IF engine = "pandas" THEN "ValueError" ELSE "PolarsError")
  ELSE IF sheet # None /\ \A k \in DOMAIN TheFile.sheets : TheFile.sheets[k] # sheet THEN "ValueError"
  ELSE None

\* What a preview does not let through.
PreviewErrors == {"OSError", "ValueError", "ImportError", "RuntimeError"}

\* A call of __repr__ or _repr_html_: whether there is a file, then the read, or
\* for a workbook the names of the sheets and the same for each of them.
Preview ==
  /\ Idle /\ handle # None
  /\ preview' = [shown |-> <<>>, raised |-> None,
                 steps |-> IF handle.class = "Xlsx" THEN <<<<"names", None>>>> ELSE <<<<"exists", handle.sheet>>>>]
  /\ UNCHANGED <<imported, files, handle, changes>>

Goes(steps) == preview' = [preview EXCEPT !.steps = steps]
Shows(what) == preview' = [preview EXCEPT !.steps = Tail(@), !.shown = Append(@, what)]
Raises(error) == preview' = [preview EXCEPT !.steps = <<>>, !.raised = error]

\* Mutant of ReadPreview: the preview reads what it has seen to be there.
ReadPreviewUncaught ==
  LET sheet == Head(preview.steps)[2]
      error == ReadError(handle.engine, sheet)
  IN
  /\ ~Idle /\ Head(preview.steps)[1] = "read"
  /\ IF error = None THEN Shows("rows") ELSE Raises(error)
  /\ UNCHANGED <<imported, files, handle, changes>>

Exists ==
  /\ ~Idle /\ Head(preview.steps)[1] = "exists"
  /\ IF TheFile = NoFile THEN Shows("header") ELSE Goes(<<<<"read", Head(preview.steps)[2]>>>> \o Tail(preview.steps))
  /\ UNCHANGED <<imported, files, handle, changes>>

ReadPreview ==
  LET sheet == Head(preview.steps)[2]
      error == ReadError(handle.engine, sheet)
  IN
  /\ ~Idle /\ Head(preview.steps)[1] = "read"
  /\ IF error = None THEN Shows("rows")
     ELSE IF error \in PreviewErrors THEN Shows("header")
     ELSE Raises(error)
  /\ UNCHANGED <<imported, files, handle, changes>>

\* sheet_names, all of whose errors are caught, and then the handle of each sheet
SheetNames ==
  /\ ~Idle /\ Head(preview.steps)[1] = "names"
  /\ IF TheFile.sheets = <<>> THEN Shows("header")
     ELSE Goes([k \in DOMAIN TheFile.sheets |-> <<"exists", TheFile.sheets[k]>>])
  /\ UNCHANGED <<imported, files, handle, changes>>

\* What other programs make of the files.
Changed ==
  /\ changes < MaxChanges /\ changes' = changes + 1
  /\ \E suffix \in Suffix : \E file \in (Whole \cup {NoFile, Torn}) \ {files[suffix]} :
       files' = [files EXCEPT ![suffix] = file]
  /\ UNCHANGED <<imported, handle, preview>>

HandlesNext ==
  \/ \E suffix \in Suffix : Import(suffix)
  \/ \E suffix \in Suffix, engine \in Engine, sheet \in {None, "s1"} : FromPath(suffix, engine, sheet)
  \/ \E engine \in Engine : OpenWorkbook(engine) \/ WithBackend(engine)
  \/ SheetOfWorkbook("s2")
  \/ \E suffix \in Suffix : ConvertTo(suffix, "s1")
  \/ Preview \/ Exists \/ ReadPreview \/ SheetNames \/ Changed

-----------------------------------------------------------------------------
(* "Any PREVIEW_ERRORS raised along the way [...] fall back to the header" *)
(* (filetypes, __repr__): showing a handle or a workbook never raises,     *)
(* whatever happens to the file between the steps, but what polars raises  *)
(* over a torn file, which is none of those errors.                        *)
PreviewsNeverRaise == preview.raised \in {None, "PolarsError"}
=============================================================================
