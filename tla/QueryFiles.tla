----------------------------- MODULE QueryFiles ----------------------------
(***************************************************************************)
(* How a query is found and rendered: the query folders, the search for a  *)
(* file of data/queries, the guess of data/read whether a string is SQL or *)
(* names a file, and the templates of data/queries/templating.  A string   *)
(* is a record of what the guess looks at; a text is a sequence of pieces. *)
(***************************************************************************)
EXTENDS Integers, Sequences, FiniteSets, SequencesExt, Python

CONSTANTS
  Name,      \* names of query files
  Packages,  \* packages of the project, each of which may have query folders
  Texts,     \* texts a query file may hold
  MaxFiles   \* bound on the query files at a time

\* A piece of a text is a word of one of these kinds, see Rendered.
Variables == {"jinja", "tight"}
PieceKind == Variables \cup {"text", "legacy", "blank", "semicolon"}
QueryAssumption == IsFiniteSet(Packages) /\ None \notin Texts /\ Texts \subseteq Seq(PieceKind \X Name)

VARIABLES
  files,    \* the query files: from [folder, name, suffix] to a text
  folders,  \* QUERIES_FOLDERS, as it was when the package was imported; None before
  sources   \* the packages that have a folder data/queries

QuerySuffix == {"", "sql", "v2"}
Folder == {"cwd", "queries", "mayutils"} \cup Packages
Value == [name : Name, suffix : QuerySuffix, slash : BOOLEAN, space : BOOLEAN, keyword : BOOLEAN]

-----------------------------------------------------------------------------
FileIn(folder, name, suffix) == [folder |-> folder, name |-> name, suffix |-> suffix]
Exists(f) == f \in DOMAIN files

(* read_query: a path without a suffix gets ".sql"; it is looked for as it *)
(* is, then in each folder.  None stands for the ValueError.               *)
Suffixed(suffix) == IF suffix = "" THEN "sql" ELSE suffix
Places(name, suffix) ==
  [k \in 1..Len(folders) + 1 |-> FileIn(IF k = 1 THEN "cwd" ELSE folders[k - 1], name, suffix)]
ReadQueryFile(name, suffix) ==
  LET places == Places(name, Suffixed(suffix))
      first == SelectInSeq(places, Exists)
  IN IF first = 0 THEN None ELSE files[places[first]]

(* looks_like_sql_path: by its end, by a slash, unless it has a keyword by *)
(* a file of that name, with ".sql" in the place of its suffix or not.     *)
MatchesFile(value) ==
  \E k \in DOMAIN folders : \E suffix \in {value.suffix, "sql"} : Exists(FileIn(folders[k], value.name, suffix))
\* Mutant of LooksLikeSqlPath: the space is not looked for.
LooksLikeSqlPathSpaced(value) ==
  \/ value.suffix = "sql"
  \/ value.slash
  \/ ~value.keyword /\ MatchesFile(value)
LooksLikeSqlPath(value) ==
  \/ value.suffix = "sql"
  \/ value.slash /\ ~value.space
  \/ ~value.keyword /\ MatchesFile(value)

-----------------------------------------------------------------------------
(* render_template.  A piece is text, a variable of Jinja ("jinja"; "tight"*)
(* when no space is left inside its braces), a str.format placeholder      *)
(* ("legacy"), a line end or a semicolon.  StrictUndefined raises for a    *)
(* variable that is not passed.                                            *)
Piece(kind, name) == <<kind, name>>
Kind(piece) == piece[1]
Named(piece) == piece[2]

RStrip(text) ==
  LET last == SelectLastInSeq(text, LAMBDA p : Kind(p) # "blank") IN SubSeq(text, 1, last)
RemoveSemicolon(text) ==
  IF text # <<>> /\ Kind(text[Len(text)]) = "semicolon" THEN SubSeq(text, 1, Len(text) - 1) ELSE text
Rendered(text, names, strip) ==
  IF \E k \in DOMAIN text : Kind(text[k]) \in Variables /\ Named(text[k]) \notin names THEN None
  ELSE LET out == [k \in DOMAIN text |->
                     IF Kind(text[k]) \in Variables THEN Piece("text", Named(text[k])) ELSE text[k]]
       IN IF strip THEN RemoveSemicolon(RStrip(out)) ELSE out
\* "{name}" is also found in "{{name}}"
Legacy(text, names) ==
  {Named(text[k]) : k \in {k \in DOMAIN text : Kind(text[k]) \in {"legacy", "tight"}}} \cap names

\* the files of this model are in no subfolder, so a slash names none
RenderQuery(value, inline, names) ==
  LET text == IF ~LooksLikeSqlPath(value) THEN inline
              ELSE IF value.slash THEN None ELSE ReadQueryFile(value.name, value.suffix)
  IN IF text = None THEN None ELSE Rendered(text, names, TRUE)

-----------------------------------------------------------------------------
NoFiles == [f \in {} |-> None]
QueryFilesInit == files = NoFiles /\ folders = None /\ sources \in SUBSET Packages

(* The package is imported: the folders that match src/*/data/queries then *)
(* are searched between the one of the project and the one of the package. *)
ImportQueries ==
  /\ folders = None
  /\ \E found \in SetToSeqs(sources) : folders' = <<"queries">> \o found \o <<"mayutils">>
  /\ UNCHANGED <<files, sources>>

AddQuery(f, text) ==
  /\ f.folder \in Packages => f.folder \in sources
  /\ ~Exists(f) /\ Cardinality(DOMAIN files) < MaxFiles
  /\ files' = [g \in DOMAIN files \cup {f} |-> IF g = f THEN text ELSE files[g]]
  /\ UNCHANGED <<folders, sources>>
RemoveQuery(f) ==
  /\ Exists(f)
  /\ files' = [g \in DOMAIN files \ {f} |-> files[g]]
  /\ UNCHANGED <<folders, sources>>
AddPackage(p) == p \notin sources /\ sources' = sources \cup {p} /\ UNCHANGED <<files, folders>>

QueryFilesNext ==
  \/ ImportQueries
  \/ \E f \in [folder : Folder, name : Name, suffix : QuerySuffix], text \in Texts :
       \/ AddQuery(f, text)
       \/ RemoveQuery(f)
  \/ \E p \in Packages : AddPackage(p)

(* A statement of SQL, with a keyword and spaces in it, is rendered as it  *)
(* is written whatever query files come and go, unless it ends in ".sql";  *)
(* and a name without a suffix that the guess takes for a file is rendered *)
(* from one that is in the folders, whichever the search comes to first.   *)
StatementsAreNotFiles ==
  folders # None =>
    \A value \in Value, inline \in Texts :
      /\ (value.keyword /\ value.space /\ value.suffix # "sql")
           => RenderQuery(value, inline, Name) = Rendered(inline, Name, TRUE)
      /\ (value.suffix # "v2" /\ ~value.slash /\ LooksLikeSqlPath(value)
            /\ \E k \in DOMAIN folders : Exists(FileIn(folders[k], value.name, "sql")))
           => \E f \in DOMAIN files :
                f.name = value.name /\ RenderQuery(value, inline, Name) = Rendered(files[f], Name, TRUE)

(* Every str.format placeholder of a name that is passed is warned of, for *)
(* it stays in the rendered query; nothing else of the template does: no   *)
(* variable; and of the semicolons none goes but the last.                 *)
PlaceholdersAreWarnedOf ==
  \A f \in DOMAIN files, names \in SUBSET Name :
    LET text == files[f]
        out == Rendered(text, names, TRUE) IN
    out # None =>
      /\ \A k \in DOMAIN out : Kind(out[k]) = "legacy" /\ Named(out[k]) \in names => Named(out[k]) \in Legacy(text, names)
      /\ \A k \in DOMAIN out : Kind(out[k]) \notin Variables
      /\ \A j, k \in DOMAIN text :
           j < k /\ Kind(text[j]) = "semicolon" /\ Kind(text[k]) = "semicolon" => j \in DOMAIN out /\ out[j] = text[j]
=============================================================================
