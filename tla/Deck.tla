-------------------------------- MODULE Deck --------------------------------
(***************************************************************************)
(* A deck of slides: Presentation, SlideContext and SlideView of           *)
(* interfaces/filetypes/pptx, with the lengths of its units and the        *)
(* conversion to PDF.  python-pptx, which keeps the slides, and LibreOffice*)
(* are external.  What is typeset on a slide is a sequence of boxes.       *)
(***************************************************************************)
EXTENDS Integers, Sequences, SequencesExt, Python

CONSTANTS
  Dimensions,     \* widths and heights that slides are given, in the smallest unit
  Default,        \* the width and height of a template that says none: 13.33 by 7.5 in
  Sizes,          \* widths and heights that are asked for, None among them
  MaxSlides,      \* bound: the slides of the deck
  MaxBoxes        \* bound: the boxes that are ever inserted

DeckAssumption ==
  /\ Dimensions \cup Sizes \subseteq Nat \cup {None} /\ {Default.width, Default.height} \subseteq Nat
  /\ MaxSlides \in Nat /\ MaxBoxes \in Nat

VARIABLES
  deck,    \* the slides, in order: a number and the boxes of each
  size,    \* slide_width and slide_height of the document, None where it says none
  slides,  \* history: how many slides there ever were
  blocks,  \* the slides of the open blocks of enter_new_slide, innermost first
  box,     \* the shape that insert_textbox returned last: its slide and its place
  render,  \* the generator of render_pages that is being read
  pdf,     \* the PDF of the name in the output folder: its pages, or None
  told,    \* the exception that the last call ended with, or None
  failed   \* history: the slides whose blocks raised

-----------------------------------------------------------------------------
(* Length: a float is cut to a whole number of units.                      *)
FromFloat(numerator, denominator) == numerator \div denominator
Height == IF size.height # None THEN size.height ELSE Default.height
Width == IF size.width # None THEN size.width ELSE Default.width
FractionalHeight(percent) == FromFloat(Height * percent, 100)

\* insertion_spacing: centred, but for a box without a height, which is near the top
InsertionSpacing(height, width, x, y) ==
  [left |-> IF x # None THEN x ELSE FromFloat(Width - width, 2),
   top |-> IF y # None THEN y
           ELSE IF height # None THEN FromFloat(Height - height, 2) ELSE FractionalHeight(5),
   width |-> width, height |-> height]

\* slide, whose numbers begin with 1
InRange(n) == n \in 1 .. Len(deck)

\* slide_number of insert_textbox, by default the last but one
SlideNumber(n) == IF n = None THEN Len(deck) - 1 ELSE n

DeckInit ==
  /\ deck \in {<<>>, <<[id |-> 1, boxes |-> <<>>]>>}
  /\ size \in {[width |-> d, height |-> d] : d \in Dimensions}
  /\ slides = 1
  /\ blocks = <<>>
  /\ box = None
  /\ render = None
  /\ pdf = None
  /\ told = None
  /\ failed = {}

-----------------------------------------------------------------------------
Added == Append(deck, [id |-> slides + 1, boxes |-> <<>>])

\* new_slide, to the end
NewSlide ==
  /\ slides < MaxSlides
  /\ deck' = Added /\ slides' = slides + 1 /\ told' = None
  /\ UNCHANGED <<size, blocks, box, render, pdf, failed>>

\* SlideContext.__init__ and __enter__
EnterNewSlide ==
  /\ slides < MaxSlides
  /\ deck' = Added /\ slides' = slides + 1 /\ told' = None
  /\ blocks' = <<slides + 1>> \o blocks
  /\ UNCHANGED <<size, box, render, pdf, failed>>

\* Mutant of LeaveBlock: the last slide is taken away, whichever the block's is.
LeaveBlockDeleting(raises) ==
  /\ blocks # <<>>
  /\ blocks' = Tail(blocks)
  /\ failed' = failed \cup (IF raises THEN {Head(blocks)} ELSE {})
  /\ deck' = IF raises /\ deck # <<>> THEN SubSeq(deck, 1, Len(deck) - 1) ELSE deck
  /\ told' = IF raises THEN "Raised" ELSE None
  /\ UNCHANGED <<size, slides, box, render, pdf>>

NotImplemented == "NotImplementedError"

\* SlideContext.__exit__: delete_slide raises in the place of the block's exception
LeaveBlock(raises) ==
  /\ blocks # <<>>
  /\ blocks' = Tail(blocks)
  /\ failed' = failed \cup (IF raises THEN {Head(blocks)} ELSE {})
  /\ told' = IF raises THEN NotImplemented ELSE None
  /\ UNCHANGED <<deck, size, slides, box, render, pdf>>

Refused == told' = NotImplemented /\ UNCHANGED <<deck, size, slides, blocks, box, render, pdf, failed>>
DeleteSlide == Refused
CopySlide == Refused
MoveSlide == Refused
ReorderSlides == Refused
InsertImage == Refused

\* height and width, whose setters apply to the slides that are there as well
SetHeight(value) ==
  size' = [size EXCEPT !.height = value] /\ told' = None
  /\ UNCHANGED <<deck, slides, blocks, box, render, pdf, failed>>
SetWidth(value) ==
  size' = [size EXCEPT !.width = value] /\ told' = None
  /\ UNCHANGED <<deck, slides, blocks, box, render, pdf, failed>>

\* empty: from the last slide to the first
Empty ==
  /\ deck' = <<>> /\ told' = None
  /\ UNCHANGED <<size, slides, blocks, box, render, pdf, failed>>

-----------------------------------------------------------------------------
Boxes == FoldLeft(LAMBDA n, s : n + Len(s.boxes), 0, deck)

\* insert_textbox: the slide is looked up first; add_textbox refuses no height
InsertTextbox(n, height, width, x, y) ==
  LET number == SlideNumber(n)
      spacing == InsertionSpacing(height, width, x, y)
  IN
  /\ Boxes < MaxBoxes
  /\ IF ~InRange(number) THEN told' = "Raised" /\ UNCHANGED <<deck, box>>
     ELSE IF width = None THEN told' = "Raised" /\ UNCHANGED <<deck, box>>
     ELSE IF height = None THEN told' = "Raised" /\ UNCHANGED <<deck, box>>
     ELSE /\ deck' = [deck EXCEPT ![number].boxes = Append(@, [place |-> spacing, of |-> size, text |-> None])]
          /\ box' = [slide |-> deck[number].id, at |-> Len(deck[number].boxes) + 1]
          /\ told' = None
  /\ UNCHANGED <<size, slides, blocks, render, pdf, failed>>

\* insert_text, into the box: the text is set before a link is refused
InsertText(link) ==
  /\ box # None
  /\ deck' = [i \in DOMAIN deck |-> IF deck[i].id = box.slide
                                    THEN [deck[i] EXCEPT !.boxes[box.at].text = "text"] ELSE deck[i]]
  /\ told' = IF link THEN NotImplemented ELSE None
  /\ UNCHANGED <<size, slides, blocks, box, render, pdf, failed>>

\* insert_markdown: a box and the text of it
InsertMarkdown(n, height, width) ==
  LET number == SlideNumber(n) IN
  /\ Boxes < MaxBoxes
  /\ InRange(number) /\ width # None /\ height # None
  /\ deck' = [deck EXCEPT ![number].boxes =
                Append(@, [place |-> InsertionSpacing(height, width, None, None), of |-> size, text |-> "markdown"])]
  /\ told' = None
  /\ UNCHANGED <<size, slides, blocks, box, render, pdf, failed>>

-----------------------------------------------------------------------------
\* preview and SlideView.slide: a view keeps the number, and looks it up at every use
Preview(n) ==
  /\ told' = IF InRange(n) THEN None ELSE "Raised"
  /\ UNCHANGED <<deck, size, slides, blocks, box, render, pdf, failed>>

\* What a reader of a document sees of the deck: its slides, in order.
Pages == [i \in DOMAIN deck |-> deck[i].id]

\* LibreOffice: it writes the PDF, fails, or ends well and writes nothing.
Converts == {"written", "failed", "nothing"}

\* convert_pptx_to_pdf, over what is in the folder: the PDF that is there, or None
ConvertToPdf(file, outcome, there) ==
  [left |-> IF outcome = "written" THEN file ELSE there,
   returns |-> IF outcome = "failed" THEN None
               ELSE IF outcome = "written" THEN file ELSE there]

\* to_pdf: save, and the conversion into a folder that stays
ToPdf(outcome) ==
  LET made == ConvertToPdf(Pages, outcome, pdf) IN
  /\ pdf' = made.left
  /\ told' = IF made.returns = None THEN "Raised" ELSE None
  /\ UNCHANGED <<deck, size, slides, blocks, box, render, failed>>

\* render_pages: nothing happens until the first page is asked for
RenderPages(numbers) ==
  /\ render' = [numbers |-> numbers, phase |-> "fresh", pages |-> None, todo |-> <<>>, got |-> <<>>]
  /\ told' = None
  /\ UNCHANGED <<deck, size, slides, blocks, box, pdf, failed>>

\* document[i - 1]: page 0 is the last one
Page(pages, n) == IF n = 0 THEN pages[Len(pages)] ELSE pages[n]
HasPage(pages, n) == pages # <<>> /\ n \in 0 .. Len(pages)

\* render_pages: the first page saves and converts the deck, in a folder of its own
NextPage(outcome) ==
  LET first == render.phase = "fresh"
      todo == IF ~first THEN render.todo
              ELSE IF render.numbers = None THEN [i \in DOMAIN deck |-> i] ELSE render.numbers
      made == ConvertToPdf(Pages, outcome, None)
      pages == IF first THEN made.returns ELSE render.pages
      next == [render EXCEPT !.phase = "open", !.pages = pages, !.todo = todo]
  IN
  /\ render # None /\ render.phase \in {"fresh", "open"}
  /\ IF pages = None THEN render' = [render EXCEPT !.phase = "raised"] /\ told' = "Raised"
     ELSE IF todo = <<>> THEN render' = [next EXCEPT !.phase = "closed"] /\ told' = None
     ELSE IF ~HasPage(pages, Head(todo))
     THEN render' = [next EXCEPT !.phase = "closed"] /\ told' = "Raised"
     ELSE /\ render' = [next EXCEPT !.todo = Tail(todo),
                                    !.got = Append(@, <<Head(todo), Page(pages, Head(todo))>>)]
          /\ told' = None
  /\ UNCHANGED <<deck, size, slides, blocks, box, pdf, failed>>

DeckNext ==
  \/ NewSlide \/ EnterNewSlide \/ Empty
  \/ DeleteSlide \/ CopySlide \/ MoveSlide \/ ReorderSlides \/ InsertImage
  \/ \E value \in Dimensions \ {None} : SetHeight(value) \/ SetWidth(value)
  \/ \E raises \in BOOLEAN : LeaveBlock(raises)
  \/ \E n \in {None, 1, 2}, height, width \in Sizes : InsertTextbox(n, height, width, 0, None)
  \/ \E link \in BOOLEAN : InsertText(link)
  \/ \E n \in {None, 1}, height, width \in Sizes : InsertMarkdown(n, height, width)
  \/ \E n \in 0 .. 2 : Preview(n)
  \/ \E outcome \in Converts : ToPdf(outcome) \/ NextPage(outcome)
  \/ \E numbers \in {None, <<2, 0>>} : RenderPages(numbers)

-----------------------------------------------------------------------------
(* "The new slide is inserted at the end of the deck" (pptx, SlideContext):*)
(* the slides keep the order they were made in, however blocks nest, fail  *)
(* or are left, and of those made since some call of empty none is missing,*)
(* unless its own block raised.  Whether such a slide is kept is the       *)
(* question of BlocksRollBack: here it may be there or not.                *)
SlidesInOrder ==
  /\ \A i, j \in DOMAIN deck : i < j => deck[i].id < deck[j].id
  /\ \E e \in 0 .. slides :
       LET ids == {deck[i].id : i \in DOMAIN deck} IN
       (e + 1 .. slides) \ failed \subseteq ids /\ ids \subseteq e + 1 .. slides

(* "If the block raises, the slide is removed from the deck and the        *)
(* original exception is re-raised" (pptx:67-69): the code's removal raises*)
(* NotImplementedError in its place, and the slide stays.                  *)
BlocksRollBack ==
  \A i \in DOMAIN deck : deck[i].id \notin failed

(* A box that is no greater than the slide lies on the slide (pptx,        *)
(* insertion_spacing), unless the slides have been given another size since*)
(* the box was inserted, whose place nothing computes anew.                *)
BoxesFit ==
  \A i \in DOMAIN deck : \A k \in DOMAIN deck[i].boxes :
    LET b == deck[i].boxes[k] IN
    (b.of = size /\ b.place.width <= Width /\ b.place.height <= Height) =>
      /\ b.place.left >= 0 /\ b.place.left + b.place.width <= Width
      /\ b.place.top >= 0 /\ b.place.top + b.place.height <= Height

(* Pages of one rendering are those of the deck as it was at one time (pptx,*)
(* render_pages), however it is edited between two of them, and the page   *)
(* for a number is the slide of that number; the page of 0 is the last.    *)
PagesOfOneDeck ==
  render # None /\ render.got # <<>> =>
    \A k \in DOMAIN render.got :
      /\ HasPage(render.pages, render.got[k][1])
      /\ render.got[k][2] = Page(render.pages, render.got[k][1])
=============================================================================
