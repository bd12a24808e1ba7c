---------------------------- MODULE GoogleSheets ----------------------------
(***************************************************************************)
(* Programs that edit one Google spreadsheet through Sheets and Sheet      *)
(* (mayutils.interfaces.filetypes.sheets): each keeps the payload it read  *)
(* last, and its calls are one or several requests to the service, between *)
(* which the requests of the others come.  A request may fail, or have its *)
(* answer lost.  The service, Drive and their rules are external.  A call  *)
(* that raises before its first request changes nothing and is no step.    *)
(***************************************************************************)
EXTENDS Integers, FiniteSets, Sequences, SequencesExt

CONSTANTS
  Client,
  Title,      \* the titles that programs give to tabs
  Position,   \* the positions that programs ask for
  MaxCalls,   \* bound: the calls made in all
  MaxTabs,    \* bound: the tabs a spreadsheet may have
  MaxFaults,  \* bound: how many requests fail
  None        \* Python's None

\* A Sheet object: its id, title and index, and whether nobody has changed the
\* tabs since it was taken.
SheetObject == [id : Nat, title : Title \cup Nat, index : Nat, current : BOOLEAN]

\* What was last done to a tab: the tab that a call was to reach, the one it
\* reached, and whether nobody had come in its way.
Deed == [meant : Nat, reached : Nat, undisturbed : BOOLEAN]

GoogleSheetsAssumption ==
  /\ None \notin Title \cup Int \cup SheetObject \cup Deed
  /\ Title \cap Int = {}
  /\ Position \subseteq Nat
  /\ MaxCalls \in Nat
  /\ MaxTabs \in Nat \ {0}
  /\ MaxFaults \in Nat

VARIABLES
  files,      \* Drive: the spreadsheets by their ids; the first is the template
  object,     \* each program's Sheets object: self.id, or 0, and self.internal
  sheet,      \* a Sheet object that the program keeps, or None
  pc,         \* where each program is in its call
  task,       \* the local variables of its call
  disturbed,  \* history: others changed the spreadsheet since the payload was read
  crossed,    \* history: others changed it since the call added the tab for a frame
  refused,    \* history: the service has refused what it should not have
  raced,      \* history: two programs were creating the spreadsheet together
  calls,
  faults

vars == <<files, object, sheet, pc, task, disturbed, crossed, refused, raced, calls, faults>>

\* The service's own titles are the numbers of the tabs.
Tab == [id : Nat \ {0}, title : Title \cup Nat, deed : Deed \cup {None}]

CachedTab == [id : Nat \ {0}, title : Title \cup Nat]

File == [exists : BOOLEAN, tabs : Seq(Tab), next : Nat \ {0}]

Location == {"idle", "retrieve", "create", "template", "arrange", "refresh", "write"}

TypeOK ==
  /\ files \in Seq(File)
  /\ object \in [Client -> [id : 0 .. Len(files), tabs : Seq(CachedTab)]]
  /\ sheet \in [Client -> SheetObject \cup {None}]
  /\ pc \in [Client -> Location]
  /\ task \in [Client -> [title : Title \cup {None}, position : Nat \cup {None}, id : Nat,
                          then : {"return", "rebind", "frame", "framed", "reset"}]]
  /\ disturbed \in [Client -> BOOLEAN]
  /\ crossed \in [Client -> BOOLEAN]
  /\ refused \in BOOLEAN
  /\ raced \in BOOLEAN
  /\ calls \in 0 .. MaxCalls
  /\ faults \in 0 .. MaxFaults
  /\ \A c \in Client : pc[c] \in {"arrange", "refresh", "write"} => object[c].id # 0

-----------------------------------------------------------------------------
\* The service: what a request does to a spreadsheet.

Ids(f) == {f.tabs[i].id : i \in DOMAIN f.tabs}

Titles(f) == {f.tabs[i].title : i \in DOMAIN f.tabs}

PlaceOf(f, id) == CHOOSE i \in DOMAIN f.tabs : f.tabs[i].id = id

Snapshot(f) == [i \in DOMAIN f.tabs |-> [id |-> f.tabs[i].id, title |-> f.tabs[i].title]]

Blank(n) == [exists |-> TRUE, next |-> n + 1,
             tabs |-> [i \in 1..n |-> [id |-> i, title |-> i, deed |-> None]]]

\* addSheet at the zero-based index; the deed says what a copy was made of.
WithTab(f, title, index, deed) ==
  LET tab == [id |-> f.next, title |-> IF title = None THEN f.next ELSE title, deed |-> deed]
  IN [f EXCEPT !.tabs = InsertAt(@, index + 1, tab), !.next = @ + 1]

WithTitle(f, id, title) == [f EXCEPT !.tabs[PlaceOf(f, id)].title = title]

\* The index of a tab that moves to the right may count the tab itself.
WithMove(f, id, index) ==
  LET others == RemoveAt(f.tabs, PlaceOf(f, id))
      places == {i \in {index, index - 1} : i >= PlaceOf(f, id) \/ i = index} \cap 0 .. Len(others)
  IN {[f EXCEPT !.tabs = InsertAt(others, i + 1, f.tabs[PlaceOf(f, id)])] : i \in places}

WithoutTab(f, id) == [f EXCEPT !.tabs = RemoveAt(@, PlaceOf(f, id))]

WithDeed(f, i, deed) == [f EXCEPT !.tabs[i].deed = deed]

-----------------------------------------------------------------------------
Remote(c) == files[object[c].id]

CachedTitles(c) == {object[c].tabs[i].title : i \in DOMAIN object[c].tabs}

Task(title, position, id, then) == [title |-> title, position |-> position, id |-> id, then |-> then]

NoTask == Task(None, None, 0, "return")

Goto(c, from, to) == pc[c] = from /\ pc' = [pc EXCEPT ![c] = to]

SetTask(c, t) == task' = [task EXCEPT ![c] = t]

\* The call returns or raises.
End(c, from) ==
  /\ Goto(c, from, "idle")
  /\ SetTask(c, NoTask)
  /\ crossed' = [crossed EXCEPT ![c] = FALSE]

Call(c) == calls < MaxCalls /\ calls' = calls + 1

\* The service has done what c asked to the tabs of c's spreadsheet.
Changes(c, f) ==
  LET sharing == {d \in Client : object[d].id = object[c].id} IN
  /\ files' = [files EXCEPT ![object[c].id] = f]
  /\ disturbed' = [d \in Client |-> disturbed[d] \/ d \in sharing \ {c}]
  /\ crossed' = [d \in Client |-> \/ crossed[d]
                                  \/ d \in sharing \ {c} /\ task[d].then = "frame"]
  /\ sheet' = [d \in Client |-> IF d \in sharing /\ sheet[d] # None
                                THEN [sheet[d] EXCEPT !.current = FALSE] ELSE sheet[d]]

\* The service answers with an error; expected when others came in the way.
Refused(c, from, expected) ==
  /\ End(c, from)
  /\ refused' = (refused \/ ~expected)
  /\ UNCHANGED <<files, object, sheet, disturbed, raced>>

\* There is no spreadsheet yet, or there is one and all the programs have read it.
Init ==
  /\ \/ /\ files = <<Blank(1)>>
        /\ object = [c \in Client |-> [id |-> 0, tabs |-> <<>>]]
     \/ /\ files = <<Blank(1), Blank(2)>>
        /\ object = [c \in Client |-> [id |-> 2, tabs |-> Snapshot(Blank(2))]]
  /\ sheet = [c \in Client |-> None]
  /\ pc = [c \in Client |-> "idle"]
  /\ task = [c \in Client |-> NoTask]
  /\ disturbed = [c \in Client |-> FALSE]
  /\ crossed = [c \in Client |-> FALSE]
  /\ refused = FALSE
  /\ raced = FALSE
  /\ calls = 0
  /\ faults = 0

-----------------------------------------------------------------------------
\* The spreadsheets that Drive finds by the name.
Namesakes == {f \in DOMAIN files : f # 1 /\ files[f].exists}

Creating(c) == pc[c] \in {"create", "template"}

Races(c) == raced' = (raced \/ \E d \in Client \ {c} : Creating(d))

\* get: retrieve_from_name finds one file of the name, or there is none
Get(c, template) ==
  /\ Call(c)
  /\ IF Namesakes # {}
     THEN /\ Goto(c, "idle", "retrieve")
          /\ \E f \in Namesakes : SetTask(c, Task(None, None, f, "return"))
          /\ UNCHANGED raced
     ELSE /\ Goto(c, "idle", IF template THEN "template" ELSE "create")
          /\ Races(c)
          /\ SetTask(c, NoTask)
  /\ UNCHANGED <<files, object, sheet, disturbed, crossed, refused, faults>>

\* The new Sheets object of c.
Binds(c, id, f) ==
  /\ object' = [object EXCEPT ![c] = [id |-> id, tabs |-> Snapshot(f)]]
  /\ disturbed' = [disturbed EXCEPT ![c] = FALSE]
  /\ sheet' = [sheet EXCEPT ![c] = IF task[c].then = "reset" /\ @ # None
                                   THEN [@ EXCEPT !.current = FALSE] ELSE None]

\* retrieve_from_id
Retrieve(c) ==
  /\ End(c, "retrieve")
  /\ files[task[c].id].exists
  /\ Binds(c, task[c].id, files[task[c].id])
  /\ UNCHANGED <<files, refused, raced, calls, faults>>

\* create_from_template: the copy of the template, of two tabs
CopyTemplate(c) ==
  /\ Goto(c, "template", "retrieve")
  /\ files' = Append(files, Blank(2))
  /\ SetTask(c, Task(None, None, Len(files) + 1, "return"))
  /\ UNCHANGED <<object, sheet, disturbed, crossed, refused, raced, calls, faults>>

\* create_new, for get and for reset, which binds the object to the new file
CreateNew(c) ==
  /\ End(c, "create")
  /\ files' = Append(files, Blank(1))
  /\ Binds(c, Len(files) + 1, Blank(1))
  /\ UNCHANGED <<refused, raced, calls, faults>>

\* The file is created, but the answer does not come.
CreateNewLost(c) ==
  /\ faults < MaxFaults
  /\ faults' = faults + 1
  /\ End(c, "create")
  /\ files' = Append(files, Blank(1))
  /\ disturbed' = [disturbed EXCEPT ![c] = TRUE]
  /\ UNCHANGED <<object, sheet, refused, raced, calls>>

\* reset: drive.delete_file_by_id
Reset(c) ==
  /\ Call(c)
  /\ object[c].id # 0
  /\ \/ /\ Remote(c).exists
        /\ Goto(c, "idle", "create")
        /\ Changes(c, [Remote(c) EXCEPT !.exists = FALSE, !.tabs = <<>>])
        /\ Races(c)
        /\ SetTask(c, Task(None, None, 0, "reset"))
        /\ UNCHANGED <<object, refused>>
     \/ /\ ~Remote(c).exists
        /\ Refused(c, "idle", disturbed[c])
  /\ UNCHANGED faults

-----------------------------------------------------------------------------
\* A call on the Sheets object of c, and on its Sheet.
OnObject(c) == Call(c) /\ object[c].id # 0

OnSheet(c) == OnObject(c) /\ sheet[c] # None

\* A batchUpdate is applied as a whole or refused; then comes the refresh.
Requests(c, accepted, results, from, to, t) ==
  /\ Goto(c, from, to)
  /\ Remote(c).exists /\ accepted
  /\ \E f \in results : Changes(c, f)
  /\ SetTask(c, t)
  /\ UNCHANGED <<object, refused, raced, faults>>

RequestRefused(c, accepted, from, expected) ==
  /\ Refused(c, from, expected)
  /\ ~(Remote(c).exists /\ accepted)
  /\ UNCHANGED faults

\* sheet(n), and sheet_from_name with the title that the n-th tab has
SheetNumber(c, n) ==
  /\ pc[c] = "idle"
  /\ n \in DOMAIN object[c].tabs
  /\ LET tab == object[c].tabs[n] IN
     sheet' = [sheet EXCEPT ![c] = [id |-> tab.id, title |-> tab.title, index |-> n - 1,
                                    current |-> ~disturbed[c]]]
  /\ UNCHANGED <<files, object, pc, task, disturbed, crossed, refused, raced, calls, faults>>

RenameSheet(c, title) ==
  LET f == Remote(c)
      accepted == sheet[c].id \in Ids(f) /\ title \notin Titles(f)
  IN
  /\ OnSheet(c)
  /\ title \notin CachedTitles(c)
  /\ \/ Requests(c, accepted, {WithTitle(f, sheet[c].id, title)}, "idle", "refresh", NoTask)
     \/ RequestRefused(c, accepted, "idle", ~sheet[c].current)

\* move_sheet: to the end without a position
MoveSheet(c, position) ==
  LET f == Remote(c)
      index == (IF position = None THEN Len(object[c].tabs) ELSE position) - 1
      accepted == sheet[c].id \in Ids(f) /\ index <= Len(f.tabs)
  IN
  /\ OnSheet(c)
  /\ index \in 0 .. Len(object[c].tabs) - 1
  /\ \/ Requests(c, accepted, WithMove(f, sheet[c].id, index), "idle", "refresh", NoTask)
     \/ RequestRefused(c, accepted, "idle", ~sheet[c].current)

\* delete_sheet; the service keeps the last tab, which the code does not check.
DeleteSheet(c) ==
  LET f == Remote(c)
      accepted == sheet[c].id \in Ids(f) /\ Len(f.tabs) > 1
  IN
  /\ OnSheet(c)
  /\ \/ Requests(c, accepted, {WithoutTab(f, sheet[c].id)}, "idle", "refresh", NoTask)
     \/ RequestRefused(c, accepted, "idle", ~sheet[c].current \/ Len(f.tabs) = 1)

\* insert_sheet, and its call in add_sheet_from_dataframe: at the end without a position
InsertSheet(c, title, position, then) ==
  LET f == Remote(c)
      index == IF position = None THEN Len(f.tabs) ELSE position - 1
      accepted == title \notin Titles(f) /\ index <= Len(f.tabs)
  IN
  /\ OnObject(c)
  /\ Len(f.tabs) < MaxTabs
  /\ position # None => position - 1 \in 0 .. Len(object[c].tabs)
  /\ title # None => title \notin CachedTitles(c)
  /\ \/ Requests(c, accepted, {WithTab(f, title, index, None)}, "idle", "refresh",
                 Task(None, position, f.next, then))
     \/ RequestRefused(c, accepted, "idle", disturbed[c])

\* copy_sheet: copyTo appends a copy of the tab at the sheet's number, or of the
\* last tab without a sheet.  The update after it has no request for a copy
\* that keeps its title and its place.
CopySheet(c, given, title, position) ==
  LET f == Remote(c)
      n == IF given THEN sheet[c].index + 1 ELSE Len(object[c].tabs)
      source == object[c].tabs[n].id
      meant == IF given THEN sheet[c].id ELSE source
      undisturbed == IF given THEN sheet[c].current ELSE ~disturbed[c]
      deed == [meant |-> meant, reached |-> source, undisturbed |-> undisturbed]
      plain == title = None /\ position = None
  IN
  /\ IF given THEN OnSheet(c) ELSE OnObject(c)
  /\ Len(f.tabs) < MaxTabs
  /\ position # None => given /\ position - 1 \in 0 .. Len(object[c].tabs)
  /\ n \in DOMAIN object[c].tabs
  /\ title # None => title \notin CachedTitles(c)
  /\ \/ Requests(c, source \in Ids(f), {WithTab(f, None, Len(f.tabs), deed)}, "idle",
                 IF plain THEN "refresh" ELSE "arrange", Task(title, position, f.next, "return"))
     \/ RequestRefused(c, source \in Ids(f), "idle", ~undisturbed)

\* copy_sheet: the update that moves and names the copy
Arrange(c) ==
  LET f == Remote(c)
      t == task[c]
      accepted == /\ t.id \in Ids(f)
                  /\ t.title \notin Titles(f)
                  /\ t.position # None => t.position - 1 <= Len(f.tabs)
      moved == IF t.position = None THEN {f} ELSE WithMove(f, t.id, t.position - 1)
      named == IF t.title = None THEN moved ELSE {WithTitle(g, t.id, t.title) : g \in moved}
  IN
  /\ pc[c] = "arrange"
  /\ \/ Requests(c, accepted, named, "arrange", "refresh", NoTask)
     \/ RequestRefused(c, accepted, "arrange", disturbed[c])
  /\ UNCHANGED calls

\* values().update: the range begins with the title of the tab.
Writes(c, title, deed, from, to, t, expected) ==
  LET f == Remote(c) IN
  \/ /\ Goto(c, from, to)
     /\ \E i \in DOMAIN f.tabs :
          /\ f.tabs[i].title = title
          /\ files' = [files EXCEPT ![object[c].id] =
               WithDeed(f, i, [deed EXCEPT !.reached = f.tabs[i].id])]
     /\ SetTask(c, t)
     /\ UNCHANGED <<object, sheet, disturbed, crossed, refused, raced, faults>>
  \/ RequestRefused(c, title \in Titles(f), from, expected)

\* Sheet.update_values, through insert and insert_df
Insert(c) ==
  /\ OnSheet(c)
  /\ Writes(c, sheet[c].title,
            [meant |-> sheet[c].id, reached |-> 0, undisturbed |-> sheet[c].current],
            "idle", "refresh", Task(None, None, 0, "rebind"), ~sheet[c].current)

\* Mutant of WriteFrame: the position is taken for an index.
WriteFrameBeside(c) ==
  LET n == IF task[c].position = None THEN Len(object[c].tabs) ELSE task[c].position + 1 IN
  /\ pc[c] = "write"
  /\ n \in DOMAIN object[c].tabs
  /\ Writes(c, object[c].tabs[n].title,
            [meant |-> task[c].id, reached |-> 0, undisturbed |-> ~crossed[c]],
            "write", "refresh", [task[c] EXCEPT !.then = "framed", !.position = n], crossed[c])
  /\ UNCHANGED calls

\* add_sheet_from_dataframe: insert_df into the tab that is at the position by now
WriteFrame(c) ==
  LET n == IF task[c].position = None THEN Len(object[c].tabs) ELSE task[c].position IN
  /\ pc[c] = "write"
  /\ \/ /\ n \in DOMAIN object[c].tabs
        /\ Writes(c, object[c].tabs[n].title,
                  [meant |-> task[c].id, reached |-> 0, undisturbed |-> ~crossed[c]],
                  "write", "refresh", [task[c] EXCEPT !.then = "framed", !.position = n],
                  crossed[c])
     \/ /\ n \notin DOMAIN object[c].tabs
        /\ Refused(c, "write", crossed[c])
        /\ UNCHANGED faults
  /\ UNCHANGED calls

\* The Sheet takes the payload of the tab at its old index, and keeps its id.
Rebound(c, tabs) ==
  [sheet[c] EXCEPT !.title = tabs[sheet[c].index + 1].title]

\* refresh, and what the calls do after it: nothing; Sheet.update_values binds
\* the Sheet again; add_sheet_from_dataframe goes on to the frame, or is done.
Refresh(c) ==
  LET tabs == Snapshot(Remote(c))
      then == task[c].then
      number == IF then = "rebind" THEN sheet[c].index + 1
                ELSE IF then = "framed" THEN task[c].position ELSE 1
  IN
  /\ pc[c] = "refresh"
  /\ Remote(c).exists
  /\ object' = [object EXCEPT ![c].tabs = tabs]
  /\ disturbed' = [disturbed EXCEPT ![c] = FALSE]
  /\ IF then = "frame"
     THEN Goto(c, "refresh", "write") /\ UNCHANGED <<task, crossed>>
     ELSE End(c, "refresh")
  /\ sheet' = [sheet EXCEPT ![c] =
       IF then = "rebind" /\ number \in DOMAIN tabs THEN Rebound(c, tabs) ELSE @]
  /\ UNCHANGED <<files, refused, raced, calls, faults>>

\* A program asks for a refresh of its own accord.
Reload(c) ==
  /\ OnObject(c)
  /\ Goto(c, "idle", "refresh")
  /\ UNCHANGED <<files, object, sheet, task, disturbed, crossed, refused, raced, faults>>

\* The spreadsheet was deleted meanwhile.
FileGone(c) ==
  /\ \/ Refused(c, "refresh", disturbed[c]) /\ ~Remote(c).exists
     \/ Refused(c, "retrieve", TRUE) /\ ~files[task[c].id].exists
  /\ UNCHANGED <<calls, faults>>

\* A request within a call fails.  When it is the refresh, this also stands for
\* the answer to the request before it being lost.
RequestFails(c) ==
  /\ faults < MaxFaults
  /\ faults' = faults + 1
  /\ pc[c] # "idle"
  /\ End(c, pc[c])
  /\ disturbed' = [disturbed EXCEPT ![c] = TRUE]
  /\ UNCHANGED <<files, object, sheet, refused, raced, calls>>

Next ==
  \E c \in Client :
    \/ \E template \in BOOLEAN : Get(c, template)
    \/ Retrieve(c) \/ CopyTemplate(c) \/ CreateNew(c) \/ CreateNewLost(c) \/ Reset(c)
    \/ \E n \in 1 .. MaxTabs : SheetNumber(c, n)
    \/ \E title \in Title : RenameSheet(c, title)
    \/ \E position \in Position \cup {None} : MoveSheet(c, position)
    \/ DeleteSheet(c)
    \/ \E title \in Title \cup {None}, position \in Position \cup {None} :
         \/ \E then \in {"return", "frame"} : InsertSheet(c, title, position, then)
         \/ \E given \in BOOLEAN : CopySheet(c, given, title, position)
    \/ Arrange(c) \/ Insert(c) \/ WriteFrame(c) \/ Reload(c) \/ Refresh(c)
    \/ FileGone(c) \/ RequestFails(c)

Spec == Init /\ [][Next]_vars

-----------------------------------------------------------------------------
(* "Invoked after every mutating operation to keep the wrapper and the     *)
(* server in sync" (sheets, Sheets.refresh): a program whose last call     *)
(* went through, and whose spreadsheet nobody else has changed since, sees *)
(* it as it is, also after a copy without a second request and a reset.    *)
PayloadIsCurrent ==
  \A c \in Client : pc[c] = "idle" /\ object[c].id # 0 /\ ~disturbed[c] =>
    Remote(c).exists /\ object[c].tabs = Snapshot(Remote(c))

(* A frame goes to the tab that was made for it, and a write or a copy      *)
(* through a Sheet goes to the Sheet's tab, though neither is named by its  *)
(* id: as long as no one has changed the tabs since the Sheet was taken, or *)
(* since the new tab was made.                                              *)
CallsReachTheirTab ==
  \A f \in DOMAIN files : \A i \in DOMAIN files[f].tabs :
    LET deed == files[f].tabs[i].deed IN
    deed # None /\ deed.undisturbed => deed.reached = deed.meant

(* "Must not collide with existing tab titles", "falls outside the valid    *)
(* range" (sheets, copy_sheet): what the code lets through, the service     *)
(* accepts, unless the program's payload or its Sheet is out of date, or it *)
(* deletes the last tab.                                                    *)
ChecksSuffice == ~refused

(* "idempotent "get or create" semantics" (sheets, Sheets.get): there is    *)
(* one spreadsheet of the name, unless two programs were creating it        *)
(* together: also after lost answers, failed calls and resets.              *)
OneOfTheName == ~raced => Cardinality(Namesakes) <= 1
=============================================================================
