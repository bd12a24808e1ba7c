---------------------------- MODULE GoogleSlides ----------------------------
(***************************************************************************)
(* Programs that edit one Google presentation through Slides               *)
(* (mayutils.interfaces.filetypes.slides).  An object keeps the payload it *)
(* was built with: its mutating calls send their request and refresh       *)
(* nothing, so that slide numbers go on to mean the slides of that payload.*)
(* insert_image puts the image on Drive first (GoogleDrive).               *)
(***************************************************************************)
EXTENDS GoogleDrive, SequencesExt

CONSTANTS
  Position,  \* the positions that programs ask for
  MaxCalls,  \* bound: the calls made in all
  MaxSlides  \* bound: the slides a presentation may have

ASSUME GoogleSlidesAssumption ==
  /\ Position \subseteq Nat
  /\ Client \cap ({None} \cup Int) = {}
  /\ MaxCalls \in Nat
  /\ MaxSlides \in Nat \ {0}

VARIABLES
  decks,    \* the presentations by their ids; the first is the template
  object,   \* each program's Slides object: self.id, or 0, and self.internal
  pc,       \* where each program is in a call of Slides
  task,     \* the local variables of its call
  stale,    \* history: slides came or went since the payload was read
  refused,  \* history: the service has refused what it should not have
  calls

slidesVars == <<decks, object, pc, task, stale, refused, calls>>

vars == <<driveVars, slidesVars>>

\* An element: its id, the program's default one or one of its own, and what an
\* image shows, with the promise that it shows the local file.
Element == [id : Client \cup {None}, shows : Content \cup {None}, of : Content \cup {None}]

\* A slide, and the slide that it is a copy of.
Slide == [id : Nat \ {0}, origin : Nat \ {0}, elements : Seq(Element)]

Deck == [exists : BOOLEAN, slides : Seq(Slide), next : Nat \ {0},
         first : Nat,           \* the slides it began with
         placeholders : BOOLEAN,
         deleted : SUBSET Nat]  \* history: the origins that delete_slide was called for

Location == {"idle", "retrieve", "create", "template", "clean", "delete", "image"}

TypeOK ==
  /\ DriveTypeOK
  /\ decks \in Seq(Deck)
  /\ object \in [Client -> [id : 0 .. Len(decks), slides : Seq(Nat \ {0})]]
  /\ pc \in [Client -> Location]
  /\ task \in [Client -> [slide : Nat, deck : Nat]]
  /\ stale \in [Client -> BOOLEAN]
  /\ refused \in BOOLEAN
  /\ calls \in 0 .. MaxCalls
  /\ \A c \in Client : pc[c] \in {"delete", "image"} => object[c].id # 0

-----------------------------------------------------------------------------
\* The service: what a request does to a presentation.

Ids(d) == {d.slides[i].id : i \in DOMAIN d.slides}

PlaceOf(d, id) == CHOOSE i \in DOMAIN d.slides : d.slides[i].id = id

Snapshot(d) == [i \in DOMAIN d.slides |-> d.slides[i].id]

NewDeck(n, placeholders) ==
  [exists |-> TRUE, next |-> n + 1, first |-> n, placeholders |-> placeholders,
   deleted |-> {},
   slides |-> [i \in 1..n |-> [id |-> i, origin |-> i, elements |-> <<>>]]]

\* duplicateObject: the copies of the elements get ids of their own.
WithCopy(d, id, index) ==
  LET old == d.slides[PlaceOf(d, id)]
      copy == [old EXCEPT !.id = d.next,
                          !.elements = [i \in DOMAIN @ |-> [@[i] EXCEPT !.id = None]]]
  IN [d EXCEPT !.slides = InsertAt(@, index + 1, copy), !.next = @ + 1]

WithoutSlide(d, id) == [d EXCEPT !.slides = RemoveAt(@, PlaceOf(d, id))]

WithElement(d, id, e) ==
  [d EXCEPT !.slides[PlaceOf(d, id)].elements = Append(@, e)]

ElementIds(d) == UNION {{e.id : e \in ToSet(s.elements)} : s \in ToSet(d.slides)} \ {None}

-----------------------------------------------------------------------------
Remote(c) == decks[object[c].id]

Goto(c, from, to) == pc[c] = from /\ pc' = [pc EXCEPT ![c] = to]

NoTask == [slide |-> 0, deck |-> 0]

SetTask(c, t) == task' = [task EXCEPT ![c] = t]

Call(c) == at[c] = "idle" /\ calls < MaxCalls /\ calls' = calls + 1

End(c, from) == Goto(c, from, "idle") /\ SetTask(c, NoTask)

SlidesInit ==
  /\ \/ decks = <<NewDeck(1, FALSE)>> /\ object = [c \in Client |-> [id |-> 0, slides |-> <<>>]]
     \/ /\ decks = <<NewDeck(1, FALSE), NewDeck(2, FALSE)>>
        /\ object = [c \in Client |-> [id |-> 2, slides |-> <<1, 2>>]]
  /\ pc = [c \in Client |-> "idle"]
  /\ task = [c \in Client |-> NoTask]
  /\ stale = [c \in Client |-> FALSE]
  /\ refused = FALSE
  /\ calls = 0

Init == DriveInit /\ SlidesInit

-----------------------------------------------------------------------------
Named == {d \in DOMAIN decks : d # 1 /\ decks[d].exists}

\* get: retrieve_from_name finds one presentation of the name, or there is none
GetDeck(c, template) ==
  /\ Call(c)
  /\ \/ \E d \in Named : Goto(c, "idle", "retrieve") /\ SetTask(c, [NoTask EXCEPT !.deck = d])
     \/ /\ Named = {}
        /\ Goto(c, "idle", IF template THEN "template" ELSE "create")
        /\ SetTask(c, NoTask)
  /\ UNCHANGED <<driveVars, decks, object, stale, refused>>

Binds(c, id, d) ==
  /\ object' = [object EXCEPT ![c] = [id |-> id, slides |-> Snapshot(d)]]
  /\ stale' = [stale EXCEPT ![c] = FALSE]

\* retrieve_from_id
Retrieve(c) ==
  /\ End(c, "retrieve")
  /\ IF decks[task[c].deck].exists THEN Binds(c, task[c].deck, decks[task[c].deck])
     ELSE UNCHANGED <<object, stale>>
  /\ UNCHANGED <<driveVars, decks, refused, calls>>

\* create_from_template
CopyTemplate(c) ==
  /\ Goto(c, "template", "retrieve")
  /\ decks' = Append(decks, NewDeck(2, FALSE))
  /\ SetTask(c, [NoTask EXCEPT !.deck = Len(decks) + 1])
  /\ UNCHANGED <<driveVars, object, stale, refused, calls>>

\* create_new: the presentation, of one slide with placeholders
CreateNew(c) ==
  /\ Goto(c, "create", "clean")
  /\ decks' = Append(decks, NewDeck(1, TRUE))
  /\ SetTask(c, [task[c] EXCEPT !.deck = Len(decks) + 1])
  /\ UNCHANGED <<driveVars, object, stale, refused, calls>>

\* create_new: the update that removes them; get returns the new object, reset
\* binds the old one to it.
RemovePlaceholders(c) ==
  LET d == task[c].deck IN
  /\ End(c, "clean")
  /\ IF decks[d].exists
     THEN /\ decks' = [decks EXCEPT ![d].placeholders = FALSE]
          /\ object' = [object EXCEPT ![c] = [id |-> d, slides |-> <<1>>]]
          /\ stale' = [stale EXCEPT ![c] = \/ Len(decks[d].slides) # 1
                                           \/ decks[d].slides[1].id # 1]
     ELSE UNCHANGED <<decks, object, stale>>
  /\ UNCHANGED <<driveVars, refused, calls>>

\* reset: delete_file_by_id, then create_new
Reset(c) ==
  /\ Call(c)
  /\ object[c].id # 0
  /\ IF Remote(c).exists
     THEN /\ Goto(c, "idle", "create")
          /\ SetTask(c, NoTask)
          /\ decks' = [decks EXCEPT ![object[c].id].exists = FALSE]
          /\ stale' = [e \in Client |-> stale[e] \/ object[e].id = object[c].id]
     ELSE pc[c] = "idle" /\ UNCHANGED <<pc, task, decks, stale>>
  /\ UNCHANGED <<driveVars, object, refused>>

-----------------------------------------------------------------------------
OnObject(c) == Call(c) /\ pc[c] = "idle" /\ object[c].id # 0

\* update: the request is carried out; one that adds or removes a slide makes all
\* payloads stale.
Request(c, accepted, d, structural, to, t) ==
  /\ Remote(c).exists /\ accepted
  /\ decks' = [decks EXCEPT ![object[c].id] = d]
  /\ stale' = [e \in Client |-> stale[e] \/ (structural /\ object[e].id = object[c].id)]
  /\ Goto(c, pc[c], to)
  /\ SetTask(c, t)
  /\ UNCHANGED <<driveVars, object, refused>>

\* update: the request is refused, and the call raises.
Refusal(c, accepted, expected) ==
  /\ ~(Remote(c).exists /\ accepted)
  /\ refused' = (refused \/ ~(expected \/ stale[c]))
  /\ End(c, pc[c])
  /\ UNCHANGED <<driveVars, decks, object, stale>>

\* duplicateObject, to the end of the payload without a position; the numbers are
\* checked against the payload.
Copies(c, n, position, to, t) ==
  LET index == IF position = None THEN Len(object[c].slides) ELSE position - 1
      id == object[c].slides[n]
      accepted == id \in Ids(Remote(c)) /\ index <= Len(Remote(c).slides)
  IN
  /\ n \in DOMAIN object[c].slides
  /\ index \in 0 .. Len(object[c].slides)
  /\ Len(Remote(c).slides) < MaxSlides
  /\ \/ Request(c, accepted, WithCopy(Remote(c), id, index), TRUE, to, t)
     \/ Refusal(c, accepted, FALSE)

\* copy_slide: the last slide without a number
CopySlide(c, n, position) ==
  /\ OnObject(c)
  /\ position # None => n # None
  /\ Copies(c, IF n = None THEN Len(object[c].slides) ELSE n, position, "idle", NoTask)

\* deleteObject, which the service refuses for the only slide, as the code expects
Deletes(c, n, explicit, to, t) ==
  LET id == object[c].slides[n]
      accepted == id \in Ids(Remote(c)) /\ Len(Remote(c).slides) > 1
      origin == Remote(c).slides[PlaceOf(Remote(c), id)].origin
      without == WithoutSlide(Remote(c), id)
  IN
  /\ Len(object[c].slides) # 1
  /\ n \in DOMAIN object[c].slides
  /\ \/ Request(c, accepted, IF explicit THEN [without EXCEPT !.deleted = @ \cup {origin}]
                             ELSE without, TRUE, to, t)
     \/ Refusal(c, accepted, FALSE)

DeleteSlide(c, n) == OnObject(c) /\ Deletes(c, n, TRUE, "idle", NoTask)

\* Mutant of MoveSlide: the slide is deleted first.
MoveSlideAway(c, n, position) ==
  /\ OnObject(c)
  /\ n # position
  /\ Deletes(c, n, FALSE, "idle", NoTask)

\* move_slide: copy_slide, and then delete_slide with the same number
MoveSlide(c, n, position) ==
  /\ OnObject(c)
  /\ n # position
  /\ Copies(c, n, position, "delete", [NoTask EXCEPT !.slide = n])

\* move_slide: delete_slide, by a payload that has not seen the copy
MoveDeletes(c) ==
  /\ pc[c] = "delete"
  /\ \/ Deletes(c, task[c].slide, FALSE, "idle", NoTask)
     \/ /\ Len(object[c].slides) = 1
        /\ End(c, "delete")
        /\ UNCHANGED <<driveVars, decks, object, stale, refused>>
  /\ UNCHANGED calls

\* createShape and createImage
Creates(c, n, default, shows, of) ==
  LET id == object[c].slides[n]
      taken == default /\ c \in ElementIds(Remote(c))
      accepted == id \in Ids(Remote(c)) /\ ~taken
      element == [id |-> IF default THEN c ELSE None, shows |-> shows, of |-> of]
  IN
  \/ Request(c, accepted, WithElement(Remote(c), id, element), FALSE, "idle", NoTask)
  \/ Refusal(c, accepted, taken)

\* insert_text, on the last slide of the payload without a number
InsertText(c, n, default) ==
  /\ OnObject(c)
  /\ n # None => n \in DOMAIN object[c].slides
  /\ Creates(c, IF n = None THEN Len(object[c].slides) ELSE n, default, None, None)

\* insert_image, with an id of its own; the file exists; drive.get
InsertImage(c, n, p, forced) ==
  /\ OnObject(c)
  /\ local[p] # None
  /\ n \in DOMAIN object[c].slides
  /\ Get(c, p, forced)
  /\ Goto(c, "idle", "image")
  /\ SetTask(c, [NoTask EXCEPT !.slide = n])
  /\ UNCHANGED <<decks, object, stale, refused>>

\* insert_image: the thumbnail of the file that get returned, and createImage
PlaceImage(c) ==
  LET r == result[c]
      shown == drive[r.id].content
      thumbnail == r # None /\ drive[r.id].exists
  IN
  /\ pc[c] = "image" /\ at[c] = "idle"
  /\ \/ /\ thumbnail
        /\ Creates(c, task[c].slide, FALSE, shown,
                   IF r.fresh THEN [path |-> r.path, version |-> r.version] ELSE None)
     \/ /\ ~thumbnail
        /\ End(c, "image")
        /\ UNCHANGED <<driveVars, decks, object, stale, refused>>
  /\ UNCHANGED calls

\* A request of a call of Slides fails, or is carried out and its answer lost.
RequestFails(c) ==
  /\ faults < MaxFaults
  /\ faults' = faults + 1
  /\ pc[c] # "idle" /\ at[c] = "idle"
  /\ End(c, pc[c])
  /\ \/ UNCHANGED <<decks, stale>>
     \/ /\ pc[c] = "create"
        /\ decks' = Append(decks, NewDeck(1, TRUE))
        /\ UNCHANGED stale
     \/ /\ pc[c] = "template"
        /\ decks' = Append(decks, NewDeck(2, FALSE))
        /\ UNCHANGED stale
  /\ UNCHANGED <<local, drive, at, job, result, creators, edits, object, refused, calls>>

SlidesStep(c) ==
  \/ \E template \in BOOLEAN : GetDeck(c, template)
  \/ Retrieve(c) \/ CopyTemplate(c) \/ CreateNew(c) \/ RemovePlaceholders(c) \/ Reset(c)
  \/ \E n \in Position \cup {None}, position \in Position \cup {None} : CopySlide(c, n, position)
  \/ \E n \in Position : DeleteSlide(c, n) \/ \E position \in Position : MoveSlide(c, n, position)
  \/ \E n \in Position \cup {None}, default \in BOOLEAN : InsertText(c, n, default)
  \/ \E n \in Position, p \in Path, forced \in BOOLEAN :
       InsertImage(c, n, p, forced)
  \/ MoveDeletes(c) \/ PlaceImage(c) \/ RequestFails(c)

\* A program calls Drive itself, or takes the next step of a call of Drive.
DriveCall(c) ==
  \/ /\ pc[c] = "idle" /\ Call(c)
     /\ \/ \E p \in Path : Upload(c, p)
        \/ DeleteByName(c)
     /\ UNCHANGED <<decks, object, pc, task, stale, refused>>
  \/ DriveStep(c) /\ UNCHANGED slidesVars

Next ==
  \/ \E c \in Client : SlidesStep(c) \/ DriveCall(c)
  \/ \E p \in Path : EditLocal(p) /\ UNCHANGED slidesVars

Spec == Init /\ [][Next]_vars

-----------------------------------------------------------------------------
(* "Implement the move as a copy-then-delete" (slides, Slides.move_slide): *)
(* no slide is lost by a move, however requests fail, interleave and go by *)
(* payloads that are out of date: of each slide that the presentation      *)
(* began with one stays, itself or a copy, until delete_slide is called    *)
(* for it or a copy.  It says nothing of more: a move whose deletion fails *)
(* leaves the slide twice, and what another program inserts on the slide   *)
(* between the copy and the deletion goes with the one that is deleted.    *)
NothingLost ==
  \A d \in DOMAIN decks : decks[d].exists =>
    \A origin \in (1 .. decks[d].first) \ decks[d].deleted :
      \E s \in ToSet(decks[d].slides) : s.origin = origin

(* The numbers are checked against the payload (slides, copy_slide,        *)
(* delete_slide): as long as no slide came or went since it was read, the  *)
(* service accepts what the checks let through, except for a second        *)
(* element with the id that is "evaluated when the module is imported".    *)
ChecksSuffice == ~refused

(* "uploading to Drive when necessary" (slides, insert_image): an image    *)
(* that was sent to Drive for the slide shows the file at its path, as it  *)
(* was at the call or later, when no other program wrote on Drive          *)
(* meanwhile, although all paths of one file name share a file on Drive.   *)
ImagesShowTheirFile ==
  \A d \in DOMAIN decks : \A s \in ToSet(decks[d].slides) : \A e \in ToSet(s.elements) :
    e.of # None => /\ e.shows.path = e.of.path
                   /\ e.shows.version >= e.of.version
=============================================================================
