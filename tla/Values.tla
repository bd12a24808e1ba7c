------------------------------- MODULE Values -------------------------------
(***************************************************************************)
(* The components of the package that make, convert and show values.  They *)
(* share no state and a behaviour is one of one of them, so that the       *)
(* variables s1 to s11 stand for those of whichever component runs; it     *)
(* leaves the ones it has no use for at None.  MCValues has some more.     *)
(***************************************************************************)
EXTENDS Integers, Sequences, Python

CONSTANTS
  Parts,   \* the components that run
  QueryName, Packages, QueryText, MaxFiles,    \* QueryFiles
  SampleSize, Cell, MaxCells, MaxColumns,      \* Frames
  Dimensions, Default, Sizes, MaxSlides, MaxBoxes,       \* Deck
  HandleSuffix, MaxChanges,                    \* DataHandles
  Thread, Outcomes, MaxBuilds, MaxMethods,     \* Callables, and Thread of Exports
  Code, Capture, ReprOf, Address, MaxFunctions,        \* Callables
  Switch, Console, Zone, MaxBlocks,            \* ProcessSettings
  Html, Document, Siblings, Writes, Listed, Actual, MaxEdits, MaxExports  \* Exports

VARIABLES part,  \* the component that runs
  s1, s2, s3, s4, s5, s6, s7, s8, s9, s10, s11

valuesVars == <<part, s1, s2, s3, s4, s5, s6, s7, s8, s9, s10, s11>>

\* The variables from some place on, and that they are not in use.
From10 == <<s10, s11>>
From8 == <<s8, s9, From10>>
From7 == <<s7, From8>>
From6 == <<s6, From7>>
From4 == <<s4, s5, From6>>
From3 == <<s3, From4>>
Off10 == s10 = None /\ s11 = None
Off8 == s8 = None /\ s9 = None /\ Off10
Off7 == s7 = None /\ Off8
Off6 == s6 = None /\ Off7
Off4 == s4 = None /\ s5 = None /\ Off6
Off3 == s3 = None /\ Off4

-----------------------------------------------------------------------------
Queries == INSTANCE QueryFiles WITH
  Name <- QueryName, Texts <- QueryText,
  files <- s1, folders <- s2, sources <- s3

Loaded == INSTANCE Frames WITH
  engine <- s1, loaded <- s2, frame <- s3, asked <- s4, error <- s5

Slides == INSTANCE Deck WITH
  deck <- s1, slides <- s2, blocks <- s3, box <- s4, render <- s5, pdf <- s6, told <- s7, size <- s8,
  failed <- s9

Handles == INSTANCE DataHandles WITH
  Suffix <- HandleSuffix,
  imported <- s1, files <- s2, handle <- s3, preview <- s4, changes <- s5

Called == INSTANCE Callables WITH
  object <- s1, at <- s2, builds <- s3, together <- s4, got <- s5, chains <- s6, answer <- s7,
  functions <- s8, digests <- s9, added <- s10

\* requires of some distributions, and the modules of each.
Line(dist, extra, python) == [dist |-> dist, extra |-> extra, python |-> python]
Settings == INSTANCE ProcessSettings WITH
  Requires <- <<Line("pandas", <<"p", "and", "as">>, FALSE), Line("pillow", <<"pdf">>, TRUE),
                Line("pillow", <<"plotting">>, FALSE), Line("gcp", <<"google">>, FALSE), Line("rich", None, TRUE)>>,
  TopLevel <- [pandas |-> {<<"pandas">>}, pillow |-> {<<"PIL">>}, gcp |-> {<<"google", "cloud">>}, rich |-> {}],
  Fallback <- [pandas |-> {<<"pandas">>}, pillow |-> {<<"PIL">>}, gcp |-> {<<"google">>}, rich |-> {<<"rich">>}],
  printing <- s1, blocks <- s2, disturbed <- s3, zone <- s4, tests <- s5, leaked <- s6, chosen <- s7,
  installed <- s8, table <- s9, hint <- s10, settled <- s11

Exported == INSTANCE Exports WITH
  File <- Document,
  images <- s1, jobs <- s2, taken <- s3, sources <- s4, theirs <- s5, export <- s6, outputs <- s7,
  answer <- s8, counts <- s9

ASSUME Assumptions == Slides!DeckAssumption /\ Called!CallablesAssumption /\ Settings!SettingsAssumption
                      /\ Exported!ExportsAssumption /\ Queries!QueryAssumption

-----------------------------------------------------------------------------
Init ==
  /\ part \in Parts
  /\ \/ part = "queries" /\ Queries!QueryFilesInit /\ Off4
     \/ part = "frames" /\ Loaded!FramesInit /\ Off6
     \/ part = "slides" /\ Slides!DeckInit /\ Off10
     \/ part = "handles" /\ Handles!HandlesInit /\ Off6
     \/ part \in {"lazy", "methods", "hashing"} /\ Called!CallablesInit /\ s11 = None
     \/ part \in {"console", "zone", "extras"} /\ Settings!SettingsInit
     \/ part \in {"images", "documents"} /\ Exported!ExportsInit /\ Off10

Next ==
  /\ UNCHANGED part
  /\ \/ part = "queries" /\ Queries!QueryFilesNext /\ UNCHANGED From4
     \/ part = "frames" /\ Loaded!FramesNext /\ UNCHANGED From6
     \/ part = "slides" /\ Slides!DeckNext /\ UNCHANGED From10
     \/ part = "handles" /\ Handles!HandlesNext /\ UNCHANGED From6
     \/ part = "lazy" /\ Called!LazyNext /\ UNCHANGED s11
     \/ part = "methods" /\ Called!MethodsNext /\ UNCHANGED s11
     \/ part = "hashing" /\ Called!HashingNext /\ UNCHANGED s11
     \/ part = "console" /\ Settings!ConsoleNext
     \/ part = "zone" /\ Settings!ZoneNext
     \/ part = "extras" /\ Settings!ExtrasNext
     \/ part = "images" /\ Exported!ImagesNext /\ UNCHANGED From10
     \/ part = "documents" /\ Exported!DocumentsNext /\ UNCHANGED From10

\* A behaviour of one of the components.
ValuesSpec == Init /\ [][Next]_valuesVars

-----------------------------------------------------------------------------
(* A statement is run as it is written whatever query files there are, and  *)
(* every placeholder that rendering leaves is warned of (QueryFiles).       *)
QueriesAreMeant == part = "queries" => Queries!StatementsAreNotFiles /\ Queries!PlaceholdersAreWarnedOf

(* No cell of a column is lost to a conversion (Frames).                    *)
ConversionsKeepCells == part = "frames" => Loaded!ConversionsKeepCells

(* The slides of a deck stay in the order they were made in, its boxes fit  *)
(* them, and the pages of a rendering are those of one deck (Deck).         *)
DecksHoldTogether == part = "slides" => Slides!SlidesInOrder /\ Slides!BoxesFit /\ Slides!PagesOfOneDeck

(* "If the block raises, the slide is removed from the deck" (pptx:67-69).  *)
BlocksRollBack == part = "slides" => Slides!BlocksRollBack

(* To show a handle never raises, whatever happens to its file (DataHandles)*)
PreviewsNeverRaise == part = "handles" => Handles!PreviewsNeverRaise

(* A factory runs once for a thread that is alone, and at most once for each*)
(* that meets others; an added method runs all its parts in order           *)
(* (Callables).                                                             *)
DelegatesKeepTheirWord ==
  /\ part = "lazy" => Called!FactoryOnce
  /\ part = "methods" => Called!ChainsRunInOrder

(* Functions with one digest are one body over equal values, and partials   *)
(* over values that show alike (Callables).                                 *)
DigestsTellApart == part = "hashing" => Called!DigestsTellApart

(* "per-object identity, which is stable for the lifetime of the in-memory  *)
(* cache and collision-free" (hashing.py:266-268): a function that captures *)
(* objects has one digest, which no other function has while both live.     *)
CapturesHaveIdentity == part = "hashing" => Called!CapturesHaveIdentity

(* What blocks make of the hooks goes when they end, and the zone is the    *)
(* system's or one that a call, a block or an exception explains            *)
(* (ProcessSettings).                                                       *)
SettingsReturn == part \in {"console", "zone"} => Settings!SettingsReturn

(* A hint names every extra that a missing module is in, and no other       *)
(* (ProcessSettings).                                                       *)
HintsNameTheExtras == part = "extras" => Settings!HintsNameTheExtras

(* "the name of the extras group the requirement belongs to" (extras.py:222)*)
(* so a hint names an extra that there is.                                  *)
HintsAreActionable == part = "extras" => Settings!HintsAreActionable

(* An image that is returned shows the HTML it was asked for; an export     *)
(* leaves the folder of its file as it was and returns a document that is   *)
(* there (Exports).                                                         *)
ExportsAreTheirs ==
  /\ part = "images" => Exported!ImagesShowTheirHtml
  /\ part = "documents" => Exported!DocumentsAreTheirs
=============================================================================
