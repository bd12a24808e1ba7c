------------------------------ MODULE MCGoogle ------------------------------
(***************************************************************************)
(* Programs that edit a presentation or a spreadsheet of Google's: the two *)
(* share no state, and a behaviour is one of one of them.                  *)
(***************************************************************************)
EXTENDS GoogleSlides

CONSTANTS
  Title,    \* GoogleSheets: the titles that programs give to tabs
  Column,   \* the positions they ask for
  MaxTabs, MaxCalled, MaxFailed

VARIABLES part,  \* "slides" or "sheets"
  files, sheets, sheet, location, call, disturbed, crossed, rejected, raced, called, failed

sheetsVars ==
  <<files, sheets, sheet, location, call, disturbed, crossed, rejected, raced, called, failed>>

Sheets == INSTANCE GoogleSheets WITH
  Position <- Column, MaxCalls <- MaxCalled, MaxFaults <- MaxFailed,
  object <- sheets, pc <- location, task <- call, refused <- rejected, calls <- called,
  faults <- failed

ASSUME SheetsAssumption == Sheets!GoogleSheetsAssumption

\* Programs are interchangeable.
Interchangeable == Permutations(Client)

NoSheets ==
  /\ files = None /\ sheets = None /\ sheet = None /\ location = None /\ call = None
  /\ disturbed = None /\ crossed = FALSE /\ rejected = FALSE /\ raced = FALSE
  /\ called = 0 /\ failed = 0

PartsInit ==
  /\ part \in {"slides", "sheets"}
  /\ Init
  /\ part = "sheets" => Len(decks) = 1
  /\ IF part = "sheets" THEN Sheets!Init ELSE NoSheets

PartsNext ==
  \/ part = "slides" /\ Next /\ UNCHANGED <<part, sheetsVars>>
  \/ part = "sheets" /\ Sheets!Next /\ UNCHANGED <<part, vars>>

PartsSpec == PartsInit /\ [][PartsNext]_<<part, vars, sheetsVars>>

-----------------------------------------------------------------------------
(* No move leaves the presentation without a slide that it had, however     *)
(* requests fail and interleave, and what the checks of Slides let through  *)
(* the service accepts, unless the payload they check is out of date or an  *)
(* element has the default id (GoogleSlides).                               *)
SlidesAreAsMeant == TypeOK /\ NothingLost /\ ChecksSuffice

(* Uploads leave one file of a name, and an image that was placed shows the *)
(* file it was made from (GoogleDrive, GoogleSlides).                       *)
FilesAreTheirs == OneFileOfTheName /\ ImagesShowTheirFile

(* A frame, a write or a copy reaches the tab it is meant for, as long as   *)
(* no one has changed the tabs since; what the checks of Sheets let through *)
(* the service accepts, unless the payload they check is out of date, which *)
(* it only is when others have edited the spreadsheet; and get or create    *)
(* leaves one spreadsheet of the name, unless two programs were creating it *)
(* together (GoogleSheets).                                                 *)
TabsAreAsMeant ==
  part = "sheets" =>
    /\ Sheets!TypeOK /\ Sheets!CallsReachTheirTab /\ Sheets!ChecksSuffice
    /\ Sheets!PayloadIsCurrent /\ Sheets!OneOfTheName
=============================================================================
