------------------------------ MODULE MCValues ------------------------------
(***************************************************************************)
(* The components of Values, and those whose conversions are checked on    *)
(* one small instance each.                                                *)
(***************************************************************************)
EXTENDS Values

CONSTANT Sheet  \* DataFiles

\* The clock of the zone reads the third hour of day 1 twice.
Zoned == INSTANCE Dates WITH
  Hours <- 3, MonthLengths <- <<4, 3, 5>>, Repeated <- 4,
  original <- s1, value <- s2, made <- s3, interval <- s4, anchor <- s5

\* A frame with a formula and an empty cell, and one of two columns.
Inserted ==
  {<< <<<<"text", "x">>>>, <<<<<<"formula", "=1">>>>, <<<<"none", "">>>>>> >>,
   << <<<<"text", "x">>, <<"text", "y">>>>, <<<<<<"nan", "">>, <<"text", "a">>>>>> >>}
Tab == INSTANCE SheetCells WITH
  Alphabet <- 2, MaxRows <- 3, MaxColumns <- 3, Frames <- Inserted, MaxEdits <- 2,
  tab <- s1, seen <- s2, meanwhile <- s3, inserted <- s4, answer <- s5, bundle <- s6, edits <- s7

Book == INSTANCE DataFiles WITH
  Stem <- {"a"}, RowSets <- {<<"x", "broken", "y">>, <<"z", "z">>}, MaxWrites <- 3,
  disk <- s1, written <- s2, writes <- s3

Painted == INSTANCE Colours WITH
  Digit <- 2, Parts <- 2, Levels <- {0, 1, 3}, Named <- {<<0, 0, 0>>, <<3, 0, 0>>}, MaxMade <- 2,
  colours <- s1, parsed <- s2

\* Arms of an experiment; a name may be there twice, and a share may be 0.
Arm(name, share) == [name |-> name, share |-> share]
SmallConfigs ==
  {<<Arm("control", 1), Arm("treatment", 1)>>,
   <<Arm("control", 2), Arm("treatment", 0), Arm("control", 1)>>,
   <<Arm("third", 1), Arm("control", 2)>>}
Released == INSTANCE Versions WITH
  Unit <- {1, 3}, MaxTime <- 4, MaxNumber <- 2, MaxSteps <- 3,
  Experiment <- {"e1"}, Configs <- SmallConfigs, MaxValue <- 4,
  folder <- s1, found <- s2, release <- s3, experiments <- s4, assigned <- s5, steps <- s6

Tried == INSTANCE Versions WITH
  Unit <- {1}, MaxTime <- 2, MaxNumber <- 0, MaxSteps <- 3,
  Experiment <- {"e1", "e2"}, Configs <- SmallConfigs, MaxValue <- 3,
  folder <- s1, found <- s2, release <- s3, experiments <- s4, assigned <- s5, steps <- s6

Named == INSTANCE Names WITH
  MaxLength <- 4, Separators <- {"_"}, SlugLengths <- {3},
  name <- s1, words <- s2, forms <- s3

Shares == INSTANCE Attribution WITH
  Factor <- {"volume", "rate", "price"}, Weight <- "volume", Segment <- {"a", "b"},
  Cells <- {[volume |-> 1, rate |-> 1, price |-> 2], [volume |-> 3, rate |-> 2, price |-> 1]},
  baseline <- s1, comparison <- s2, result <- s3

ASSUME DatesAssumed == Zoned!DatesAssumption

-----------------------------------------------------------------------------
(* The constants of Values. *)

\* A template, and a text with a placeholder of each kind.
Text(kinds, names) == [k \in DOMAIN kinds |-> <<kinds[k], names[k]>>]
SmallTexts ==
  {Text(<<"text", "jinja", "semicolon", "blank">>, <<"x", "x", "x", "x">>),
   Text(<<"tight", "legacy", "legacy", "semicolon", "semicolon">>, <<"x", "x", "y", "x", "x">>)}

Widescreen == [width |-> 16, height |-> 9]

\* Two objects that show alike, as long frames do, and one that does not.
SmallShown == [o \in Capture |-> IF o = 3 THEN "other" ELSE "alike"]

SmallZones == {<<"name", "UTC">>, <<"name", "Paris">>, <<"offset", 3600>>}

\* A file of quarto, with a document of its stem and data beside it.
Doc == <<"doc", "qmd">>
DocSiblings == {<<"doc", "html">>, <<"data", "csv">>}
QuartoWrites == [html |-> <<"html">>, pdf |-> <<"tex", "pdf">>]
NbconvertListed == [slides |-> "slides.html", script |-> "py", custom |-> None, plain |-> None]
NbconvertActual == [slides |-> {"slides.html"}, script |-> {"py", "r"}, custom |-> {"txt"}, plain |-> {"plain"}]

-----------------------------------------------------------------------------
AllInit ==
  \/ Init
  \/ /\ part \in Parts
     /\ \/ part = "dates" /\ Zoned!DatesInit /\ Off3
        \/ part = "intervals" /\ s1 = None /\ s2 = None /\ Zoned!IntervalsInit /\ Off6
        \/ part = "cells" /\ Tab!CellsInit /\ Off8
        \/ part = "book" /\ Book!DataFilesInit /\ Off4
        \/ part = "colours" /\ Painted!ColoursInit /\ Off3
        \/ part = "modules" /\ Released!VersionsInit /\ Off7
        \/ part = "experiments" /\ Tried!VersionsInit /\ Off7
        \/ part = "names" /\ Named!NamesInit /\ Off4
        \/ part = "attribution" /\ Shares!AttributionInit /\ Off4

AllNext ==
  \/ Next
  \/ /\ UNCHANGED part
     /\ \/ part = "dates" /\ Zoned!DatesNext /\ UNCHANGED From3
        \/ part = "intervals" /\ Zoned!IntervalsNext /\ UNCHANGED <<s1, s2, From6>>
        \/ part = "cells" /\ Tab!CellsNext /\ UNCHANGED From8
        \/ part = "book" /\ Book!DataFilesNext /\ UNCHANGED From4
        \/ part = "colours" /\ Painted!ColoursNext /\ UNCHANGED From3
        \/ part = "modules" /\ Released!ModulesNext /\ UNCHANGED From7
        \/ part = "experiments" /\ Tried!ExperimentsNext /\ UNCHANGED From7
        \/ part = "names" /\ Named!NamesNext /\ UNCHANGED From4
        \/ part = "attribution" /\ Shares!AttributionNext /\ UNCHANGED From4

-----------------------------------------------------------------------------
(* However often a datetime leaves the package and comes back, it is the    *)
(* same instant, and a timestamp is the instant it was made from; but for   *)
(* the second reading of the hour that the clock repeats (Dates).           *)
DatesKeepTheirInstants == part = "dates" => Zoned!DatesKeepTheirInstants

(* An interval is copied whole and reads the same in both directions, and   *)
(* months of get_intervals tile their window (Dates).                       *)
IntervalsKeepTheirEnds == part = "intervals" => Zoned!IntervalsKeepTheirEnds

(* A frame that is inserted into a tab is read back as its texts, however   *)
(* the tab grew (SheetCells).                                               *)
FrameReadsBack == part = "cells" => Tab!FrameReadsBack

(* Sheets hold what was last written to them, columns stay those of the     *)
(* frame, and the chunks of pandas put together are the file (DataFiles).   *)
FilesReadBack == part = "book" => Book!SheetsSurvive /\ Book!ColumnsStay /\ Book!ChunksOfPandas

(* A colour that is written and parsed again is the same one, and its inks  *)
(* give its channels back (Colours).                                        *)
ColoursReadBack ==
  part = "colours" => Painted!TextsReadBack /\ Painted!DigitsKeepOpacity /\ Painted!ChannelsAreKept

(* The version in force at a time is the one that was declared last before  *)
(* it, and a user stays in the arm that a revision covers (Versions).       *)
VersionsInForce ==
  /\ part = "modules" => Released!VersionInForce
  /\ part = "experiments" => Tried!AssignmentsStand

(* A name has the same words after any chain of conversions (Names).        *)
FormsKeepWords == part = "names" => Named!FormsKeepWords

(* Contributions and interaction add up to the change of the metric, and    *)
(* those of Shapley are the average over all orders (Attribution).          *)
ContributionsAddUp == part = "attribution" => Shares!ContributionsAddUp
=============================================================================
