---------------------------- MODULE ValuesProofs ----------------------------
(***************************************************************************)
(* The properties of Values for every value of the constants.  An invariant*)
(* of a component speaks of the behaviours in which it is the one that runs*)
(***************************************************************************)
EXTENDS Values, FiniteSetTheorems, TLAPS

\* Lemmas about least numbers and induction.
Dict == INSTANCE OrderedDictLemmas

-----------------------------------------------------------------------------
(* DataHandles.                                                            *)

\* A preview is a record, and has raised nothing it may not.
PreviewInv ==
  /\ s4 = [steps |-> s4.steps, shown |-> s4.shown, raised |-> s4.raised]
  /\ Handles!PreviewsNeverRaise

LEMMA PreviewBegins == Handles!HandlesInit => PreviewInv
BY DEF Handles!HandlesInit, PreviewInv, Handles!PreviewsNeverRaise

\* What a read raises is caught, but for the error of polars.
LEMMA ReadErrors ==
  ASSUME NEW engine, NEW sheet
  PROVE  Handles!ReadError(engine, sheet) \in Handles!PreviewErrors \cup {None, "PolarsError"}
BY DEF Handles!ReadError, Handles!PreviewErrors

LEMMA PreviewKeeps ==
  ASSUME PreviewInv, Handles!HandlesNext \/ UNCHANGED valuesVars
  PROVE  PreviewInv'
<1>1. CASE Handles!ReadPreview
  <2>1. PICK sheet, error : /\ error = Handles!ReadError(s3.engine, sheet)
                            /\ \/ \E what : Handles!Shows(what)
                               \/ error \notin Handles!PreviewErrors \cup {None} /\ Handles!Raises(error)
    BY <1>1 DEF Handles!ReadPreview
  <2>2. error \in Handles!PreviewErrors \cup {None, "PolarsError"}
    BY <2>1, ReadErrors
  <2> QED
    BY <2>1, <2>2 DEF PreviewInv, Handles!PreviewsNeverRaise, Handles!Shows, Handles!Raises
<1>2. CASE Handles!Exists \/ Handles!SheetNames
  BY <1>2 DEF PreviewInv, Handles!PreviewsNeverRaise, Handles!Shows, Handles!Goes, Handles!Exists, Handles!SheetNames
<1>3. CASE Handles!Preview
  BY <1>3 DEF PreviewInv, Handles!PreviewsNeverRaise, Handles!Preview
<1>4. CASE UNCHANGED s4
  BY <1>4 DEF PreviewInv, Handles!PreviewsNeverRaise
<1>5. CASE UNCHANGED valuesVars
  BY <1>4, <1>5 DEF valuesVars
<1> QED
  BY <1>1, <1>2, <1>3, <1>4, <1>5
  DEF Handles!HandlesNext, Handles!Import, Handles!FromPath, Handles!OpenWorkbook, Handles!WithBackend,
      Handles!SheetOfWorkbook, Handles!ConvertTo, Handles!Changed

(* "Any PREVIEW_ERRORS raised along the way [...] fall back to the header":*)
(* showing a handle raises nothing but the error of polars over a torn     *)
(* file, whatever becomes of the file between the steps, for any formats   *)
(* and any number of changes (filetypes, __repr__).                        *)
THEOREM PreviewsAreShown == ValuesSpec => []PreviewsNeverRaise
<1> DEFINE Inv == part = "handles" => PreviewInv
<1>1. Init => Inv
  BY PreviewBegins DEF Init
<1>2. Inv /\ [Next]_valuesVars => Inv'
  BY PreviewKeeps DEF Next, valuesVars
<1>3. Inv => PreviewsNeverRaise
  BY DEF PreviewInv, PreviewsNeverRaise
<1> QED
  BY <1>1, <1>2, <1>3, PTL DEF ValuesSpec

-----------------------------------------------------------------------------
(* The digests of Callables.                                               *)

Function == [code : Code, holding : Called!Holding, capture : Capture, at : Address \cup {None}]

\* What a digest says of a function: the values it holds, or where they were when it
\* was made, which is where they are until the function is gone.
SaysOf(payload, f) ==
  /\ f.holding = "plain" => payload = <<"value", f.capture>>
  /\ f.holding = "cell" => \E place \in Address : payload = <<"ids", "none", place>>
  /\ f.holding = "default" => \E place \in Address : payload = <<"ids", place, "empty">> /\ f.at \in {place, None}
  /\ f.holding = "partial" => payload = <<"shown", f.code, ReprOf[f.capture]>>
  /\ f.holding = "instance" => \E place \in Address : payload = <<"repr", place>> /\ f.at \in {place, None}

DigestInv ==
  /\ s8 \in Seq(Function)
  /\ \A i, j \in Called!Alive : s8[i].at = s8[j].at => i = j
  /\ \A d \in s9 : /\ d.of \in DOMAIN s8
                   /\ d.code = IF Called!HasCode(s8[d.of]) THEN s8[d.of].code ELSE None
                   /\ SaysOf(d.payload, s8[d.of])

LEMMA DigestBegins == Called!CallablesInit => DigestInv
BY DEF Called!CallablesInit, DigestInv, Called!Alive

LEMMA DefineKeeps ==
  ASSUME DigestInv, NEW code \in Code, NEW holding \in Called!Holding, NEW capture \in Capture,
         NEW place \in Address, Called!Define(code, holding, capture, place)
  PROVE  DigestInv'
<1>f. PICK f : f = [code |-> code, holding |-> holding, capture |-> capture, at |-> place]
  OBVIOUS
<1>1. f \in Function /\ f.at = place
  BY <1>f DEF Function
<1>2. s8' = Append(s8, f) /\ s9' = s9 /\ place \notin Called!Used
  BY <1>f DEF Called!Define
<1>3. /\ s8' \in Seq(Function) /\ DOMAIN s8 \subseteq DOMAIN s8'
      /\ DOMAIN s8' = DOMAIN s8 \cup {Len(s8) + 1}
      /\ \A i \in DOMAIN s8 : s8'[i] = s8[i]
      /\ s8'[Len(s8) + 1] = f
  BY <1>1, <1>2 DEF DigestInv
<1>4. \A i, j \in Called!Alive' : s8'[i].at = s8'[j].at => i = j
  <2>1. \A i \in Called!Alive' : i \in Called!Alive \/ i = Len(s8) + 1
    BY <1>3 DEF Called!Alive
  <2>2. \A i \in Called!Alive : s8'[i].at # place
    BY <1>2, <1>3 DEF Called!Used, Called!Alive
  <2>3. \A i \in Called!Alive : s8'[i].at = s8[i].at
    BY <1>3 DEF Called!Alive
  <2> QED
    BY <1>1, <1>3, <2>1, <2>2, <2>3 DEF DigestInv
<1>5. \A d \in s9' : /\ d.of \in DOMAIN s8'
                     /\ d.code = IF Called!HasCode(s8'[d.of]) THEN s8'[d.of].code ELSE None
                     /\ SaysOf(d.payload, s8'[d.of])
  BY <1>2, <1>3 DEF DigestInv
<1> QED
  BY <1>3, <1>4, <1>5 DEF DigestInv

LEMMA DeleteKeeps ==
  ASSUME DigestInv, NEW n \in DOMAIN s8, Called!Delete(n)
  PROVE  DigestInv'
<1>1. s8' = [s8 EXCEPT ![n].at = None] /\ s9' = s9
  BY DEF Called!Delete
<1>2. s8 \in Seq(Function)
  BY DEF DigestInv
<1>3. /\ s8' \in Seq(Function) /\ DOMAIN s8' = DOMAIN s8
      /\ \A i \in DOMAIN s8 \ {n} : s8'[i] = s8[i]
      /\ \A i \in DOMAIN s8 : /\ s8'[i].code = s8[i].code /\ s8'[i].holding = s8[i].holding
                              /\ s8'[i].capture = s8[i].capture
      /\ s8'[n].at = None
  <2>g. PICK g : g = [s8[n] EXCEPT !.at = None]
    OBVIOUS
  <2>1. s8[n] \in Function
    BY <1>2
  <2>2. /\ g \in Function /\ g.at = None /\ g.code = s8[n].code /\ g.holding = s8[n].holding
        /\ g.capture = s8[n].capture
    BY <2>g, <2>1 DEF Function
  <2>3. s8' = [s8 EXCEPT ![n] = g]
    BY <1>1, <2>g
  <2> QED
    BY <1>2, <2>2, <2>3
<1>4. \A i, j \in Called!Alive' : s8'[i].at = s8'[j].at => i = j
  <2>1. \A i \in Called!Alive' : i \in Called!Alive /\ i # n
    BY <1>3 DEF Called!Alive
  <2> QED
    BY <1>3, <2>1 DEF DigestInv, Called!Alive
<1>5. \A d \in s9' : SaysOf(d.payload, s8'[d.of])
  BY <1>1, <1>3 DEF DigestInv, SaysOf
<1> QED
  BY <1>1, <1>3, <1>4, <1>5 DEF DigestInv, Called!HasCode

LEMMA HashCallableKeeps ==
  ASSUME DigestInv, NEW n \in DOMAIN s8, NEW temporary \in Address, Called!HashCallable(n, temporary)
  PROVE  DigestInv'
<1>d. PICK d : d = [of |-> n, code |-> IF Called!HasCode(s8[n]) THEN s8[n].code ELSE None,
                    payload |-> Called!BoundPayload(s8[n], temporary)]
  OBVIOUS
<1>1. s8' = s8 /\ s9' = s9 \cup {d} /\ n \in Called!Alive
  BY <1>d DEF Called!HashCallable
<1>2. s8[n] \in Function /\ s8[n].at \in Address
  <2>1. s8[n] \in Function
    BY DEF DigestInv
  <2> QED
    BY <1>1, <2>1 DEF Called!Alive, Function
<1>3. SaysOf(Called!BoundPayload(s8[n], temporary), s8[n])
  BY <1>2 DEF SaysOf, Called!BoundPayload
<1>4. /\ d.of = n /\ d.code = IF Called!HasCode(s8[n]) THEN s8[n].code ELSE None
      /\ SaysOf(d.payload, s8[n])
  BY <1>d, <1>3
<1>5. Called!Alive' = Called!Alive
  BY <1>1 DEF Called!Alive
<1> QED
  BY <1>1, <1>4, <1>5 DEF DigestInv

\* Of two digests of functions that are there, what they tell apart.
LEMMA DigestsTell == DigestInv /\ Called!CallablesAssumption => Called!DigestsTellApart
<1> SUFFICES ASSUME DigestInv, Called!CallablesAssumption, NEW d \in s9, NEW e \in s9,
                    Called!SameDigest(d, e), d.of # e.of, Called!Held(d).holding # "cell"
             PROVE  \/ {d.of, e.of} \notin SUBSET Called!Alive /\ Called!Held(d).holding \in {"default", "instance"}
                    \/ /\ Called!Held(d).code = Called!Held(e).code /\ Called!Held(d).holding = Called!Held(e).holding
                       /\ \/ Called!Held(d).capture = Called!Held(e).capture
                          \/ /\ Called!Held(d).holding = "partial"
                             /\ ReprOf[Called!Held(d).capture] = ReprOf[Called!Held(e).capture]
  BY DEF Called!DigestsTellApart
<1>1. PICK f \in Function, g \in Function :
        /\ f = s8[d.of] /\ g = s8[e.of] /\ d.of \in DOMAIN s8 /\ e.of \in DOMAIN s8
        /\ SaysOf(d.payload, f) /\ SaysOf(e.payload, g) /\ d.payload = e.payload
        /\ (IF Called!HasCode(f) THEN f.code ELSE None) = (IF Called!HasCode(g) THEN g.code ELSE None)
  BY DEF DigestInv, Called!SameDigest
<1>2. Called!Held(d) = f /\ Called!Held(e) = g /\ f.holding # "cell"
  BY <1>1 DEF Called!Held
<1>3. CASE f.holding = "plain"
  <2>1. g.holding = "plain" /\ f.capture = g.capture
    BY <1>1, <1>3 DEF SaysOf, Function, Called!Holding
  <2>2. f.code = g.code
    BY <1>1, <1>3, <2>1 DEF Called!HasCode
  <2> QED
    BY <1>2, <1>3, <2>1, <2>2
<1>4. CASE f.holding = "partial"
  <2>1. d.payload = <<"shown", f.code, ReprOf[f.capture]>>
    BY <1>1, <1>4 DEF SaysOf
  <2>2. g.holding = "partial"
    BY <1>1, <2>1 DEF SaysOf, Function, Called!Holding
  <2>3. e.payload = <<"shown", g.code, ReprOf[g.capture]>>
    BY <1>1, <2>2 DEF SaysOf
  <2>p. PICK x, y, c, k : x = ReprOf[f.capture] /\ y = ReprOf[g.capture] /\ c = f.code /\ k = g.code
    OBVIOUS
  <2>e. <<"shown", c, x>> = <<"shown", k, y>>
    BY <1>1, <2>1, <2>3, <2>p
  <2>4. f.code = g.code /\ ReprOf[f.capture] = ReprOf[g.capture]
    <3>1. c = k /\ x = y
      BY <2>e
    <3> QED
      BY <2>p, <3>1
  <2> QED
    BY <1>2, <1>4, <2>2, <2>4
<1>5. CASE f.holding \in {"default", "instance"}
  <2>1. ASSUME d.of \in Called!Alive, e.of \in Called!Alive PROVE f.at = g.at
    <3>1. f.at # None /\ g.at # None
      BY <1>1, <2>1 DEF Called!Alive
    <3>2. CASE f.holding = "default"
      <4>1. d.payload = <<"ids", f.at, "empty">> /\ f.at \in Address
        BY <1>1, <3>1, <3>2 DEF SaysOf
      <4>2. g.holding \in {"default", "cell"}
        BY <1>1, <4>1 DEF SaysOf, Function, Called!Holding
      <4>3. g.holding # "cell"
        BY <1>1, <4>1 DEF SaysOf, Called!CallablesAssumption
      <4> QED
        BY <1>1, <3>1, <4>1, <4>2, <4>3 DEF SaysOf
    <3>3. CASE f.holding = "instance"
      <4>1. d.payload = <<"repr", f.at>>
        BY <1>1, <3>1, <3>3 DEF SaysOf
      <4>2. g.holding = "instance"
        BY <1>1, <4>1 DEF SaysOf, Function, Called!Holding
      <4> QED
        BY <1>1, <3>1, <4>1, <4>2 DEF SaysOf
    <3> QED
      BY <1>5, <3>2, <3>3
  <2>2. ~(d.of \in Called!Alive /\ e.of \in Called!Alive)
    BY <1>1, <2>1 DEF DigestInv
  <2> QED
    BY <1>2, <1>5, <2>2
<1> QED
  BY <1>1, <1>2, <1>3, <1>4, <1>5 DEF Function, Called!Holding

(* "Without these, two lambdas with identical bytecode but different       *)
(* captures collide": functions of one digest are one body over equal      *)
(* values, but for what they capture in cells; of those that live at once  *)
(* none has the digest of another that holds its defaults elsewhere, no    *)
(* instance that of another; and partials of one digest are of one function*)
(* over objects that show alike, which need not be equal: for any functions*)
(* that come and go, any objects and what they show, and any reuse of      *)
(* addresses (hashing, hash_callable).                                     *)
THEOREM DigestsAreTheirs == ValuesSpec => []DigestsTellApart
<1> DEFINE Inv == part = "hashing" => DigestInv
<1>1. Init => Inv
  BY DigestBegins DEF Init
<1>2. Inv /\ [Next]_valuesVars => Inv'
  <2>1. SUFFICES ASSUME Inv, [Next]_valuesVars, part' = "hashing", part = "hashing" PROVE DigestInv'
    BY DEF Next, valuesVars
  <2>2. CASE Called!HashingNext
    BY <2>1, <2>2, DefineKeeps, DeleteKeeps, HashCallableKeeps DEF Called!HashingNext
  <2>3. CASE UNCHANGED valuesVars
    BY <2>1, <2>3 DEF valuesVars, DigestInv, Called!Alive
  <2> QED
    BY <2>1, <2>2, <2>3 DEF Next
<1>3. Inv => DigestsTellApart
  BY DigestsTell, Assumptions DEF DigestsTellApart
<1> QED
  BY <1>1, <1>2, <1>3, PTL DEF ValuesSpec

-----------------------------------------------------------------------------
(* Frames.                                                                 *)

Kinds == {"date", "datetime", "time"}
Engines == {"pandas", "polars"}
Real == {"day", "stamp", "clock", "null"}

\* Cells that were converted: none is a text any more, and each tells what the one that
\* was loaded told, but for what may be dropped.
Keeps(cells, original, dropped) ==
  /\ DOMAIN cells = DOMAIN original
  /\ \A c \in DOMAIN cells :
       cells[c] \in Real /\ Loaded!Tells(original[c]) \subseteq Loaded!Tells(cells[c]) \cup dropped

\* A column of the frame, and the one of texts and objects that was loaded.
ColumnOK(column, original, dropped) ==
  /\ original = [type |-> "object", cells |-> original.cells]
  /\ column = [type |-> column.type, cells |-> column.cells]
  /\ column = original \/ Keeps(column.cells, original.cells, dropped)

\* Inductive: a column is the one that was loaded, or was converted whole.
FramesInv ==
  /\ s1 \in Engines
  /\ DOMAIN s3 = DOMAIN s2 /\ DOMAIN s3 = 1 .. Len(s3)
  /\ \A k \in DOMAIN s3 : ColumnOK(s3[k], s2[k], Loaded!Dropped(k))

LEMMA FramesBegin == Loaded!FramesInit => FramesInv
<1> SUFFICES ASSUME Loaded!FramesInit PROVE FramesInv
  OBVIOUS
<1>1. PICK n \in 1 .. MaxColumns : \E cells \in Loaded!Rectangles(n) : s2 = [k \in 1 .. n |-> Loaded!Column("object", cells[k])]
  BY DEF Loaded!FramesInit
<1>2. PICK cells : s2 = [k \in 1 .. n |-> Loaded!Column("object", cells[k])]
  BY <1>1
<1>3. s3 = s2 /\ s1 \in Engines
  BY DEF Loaded!FramesInit, Engines
<1>4. DOMAIN s2 = 1 .. n /\ Len(s2) = n
  BY <1>2
<1>5. \A k \in DOMAIN s2 : s2[k] = [type |-> "object", cells |-> cells[k]]
  BY <1>2 DEF Loaded!Column
<1>6. \A k \in DOMAIN s2 : ColumnOK(s2[k], s2[k], Loaded!Dropped(k))
  BY <1>5 DEF ColumnOK
<1> QED
  BY <1>3, <1>4, <1>6 DEF FramesInv

\* A kind is one of three, and none is found among values that are not texts.
LEMMA KindsAreThree ==
  ASSUME NEW values, Loaded!DetectTemporalKind(values) # None
  PROVE  /\ Loaded!DetectTemporalKind(values) \in Kinds
         /\ values # {} /\ values \subseteq Loaded!Texts /\ values # {"day"}
BY DEF Loaded!DetectTemporalKind, Kinds, Loaded!Texts

LEMMA SampleIsOfCells ==
  ASSUME NEW cells
  PROVE  \A v \in Loaded!Sample(cells) : v # "null" /\ \E c \in DOMAIN cells : v = cells[c]
BY DEF Loaded!Sample

\* How an engine parses a column: not at all, or whole, by the kind of its texts or, in
\* pandas, as the dates that it holds.
LEMMA ParsedColumn ==
  ASSUME NEW e \in Engines, NEW type, NEW cells, NEW column, column = [type |-> type, cells |-> cells],
         NEW parsed, parsed = Loaded!ParseColumn(e, column), parsed # column
  PROVE  \E kind \in Kinds :
           /\ type = "object" /\ kind # None /\ Loaded!ReadsAll(e, kind, cells)
           /\ parsed = [type |-> Loaded!TypeFor(e, kind), cells |-> Loaded!Converted(Loaded!KindFor(e, kind), cells)]
           /\ \/ kind = Loaded!DetectTemporalKind(Loaded!Sample(cells))
              \/ kind = "date" /\ e = "pandas" /\ Loaded!Sample(cells) = {"day"}
<1> PICK sample, detected : sample = Loaded!Sample(cells) /\ detected = Loaded!DetectTemporalKind(sample)
  OBVIOUS
<1> PICK kind : kind = IF e = "pandas" /\ sample = {"day"} THEN "date" ELSE detected
  OBVIOUS
<1>1. column.type = type /\ column.cells = cells
  OBVIOUS
<1>2. /\ type = "object" /\ kind # None /\ Loaded!ReadsAll(e, kind, cells)
      /\ parsed = [type |-> Loaded!TypeFor(e, kind), cells |-> Loaded!Converted(Loaded!KindFor(e, kind), cells)]
  BY <1>1 DEF Loaded!ParseColumn, Loaded!Column
<1>3. kind \in Kinds
  BY <1>2, KindsAreThree DEF Kinds
<1> QED
  BY <1>2, <1>3

\* What becomes of a cell.
LEMMA CellOf ==
  ASSUME NEW kind \in Kinds, NEW cells, NEW c \in DOMAIN cells
  PROVE  /\ DOMAIN Loaded!Converted(kind, cells) = DOMAIN cells
         /\ Loaded!Converted(kind, cells)[c] = IF cells[c] = "null" THEN "null" ELSE Loaded!Value(kind)
         /\ Loaded!Value(kind) \in Real \ {"null"}
BY DEF Loaded!Converted, Loaded!Value, Kinds, Real

\* A parse keeps what the cells tell, but for the date in a column of times.
LEMMA ParseKeeps ==
  ASSUME NEW e \in Engines, NEW column, NEW original, NEW dropped, ColumnOK(column, original, dropped),
         Loaded!DetectTemporalKind(Loaded!Sample(original.cells)) = "time" => "date" \in dropped
  PROVE  ColumnOK(Loaded!ParseColumn(e, column), original, dropped)
<1>p. PICK parsed, type, cells, texts :
        /\ parsed = Loaded!ParseColumn(e, column) /\ type = column.type /\ cells = column.cells
        /\ texts = original.cells
  OBVIOUS
<1>1. column = [type |-> type, cells |-> cells]
  BY <1>p DEF ColumnOK
<1>2. SUFFICES ASSUME parsed # column PROVE ColumnOK(parsed, original, dropped)
  BY <1>p
<1>3. PICK kind \in Kinds :
        /\ type = "object" /\ kind # None /\ Loaded!ReadsAll(e, kind, cells)
        /\ parsed = [type |-> Loaded!TypeFor(e, kind), cells |-> Loaded!Converted(Loaded!KindFor(e, kind), cells)]
        /\ \/ kind = Loaded!DetectTemporalKind(Loaded!Sample(cells))
           \/ kind = "date" /\ e = "pandas" /\ Loaded!Sample(cells) = {"day"}
  BY <1>p, <1>1, <1>2, ParsedColumn
<1>k. PICK shown : shown = Loaded!KindFor(e, kind)
  OBVIOUS
<1>4. /\ shown \in Kinds /\ (shown = "time" <=> kind = "time")
      /\ shown = kind \/ (shown = "datetime" /\ kind = "date")
  BY <1>k DEF Loaded!KindFor, Kinds
<1>5. column = original \/ Keeps(cells, texts, dropped)
  BY <1>p DEF ColumnOK
<1>6. cells # texts => kind # "time"
  <2> SUFFICES ASSUME cells # texts, kind = "time" PROVE FALSE
    OBVIOUS
  <2>1. \A c \in DOMAIN cells : cells[c] \in Real
    BY <1>p, <1>5 DEF Keeps
  <2>2. kind = Loaded!DetectTemporalKind(Loaded!Sample(cells)) /\ kind # None
    BY <1>3
  <2>3. Loaded!Sample(cells) # {} /\ Loaded!Sample(cells) \subseteq Loaded!Texts
    BY <2>2, KindsAreThree
  <2>4. PICK v \in Loaded!Sample(cells) : v \in Loaded!Texts
    BY <2>3
  <2> QED
    BY <2>1, <2>4, SampleIsOfCells DEF Real, Loaded!Texts
<1>7. kind = "time" => "date" \in dropped
  BY <1>3, <1>6, <1>p
<1>8. /\ DOMAIN cells = DOMAIN texts
      /\ \A c \in DOMAIN cells : Loaded!Tells(texts[c]) \subseteq Loaded!Tells(cells[c]) \cup dropped
  BY <1>p, <1>5 DEF Keeps
<1>9. ASSUME NEW c \in DOMAIN cells
      PROVE /\ Loaded!Converted(shown, cells)[c] \in Real
            /\ Loaded!Tells(texts[c]) \subseteq Loaded!Tells(Loaded!Converted(shown, cells)[c]) \cup dropped
  <2>1. cells[c] \in Loaded!Readable(e, kind)
    BY <1>3 DEF Loaded!ReadsAll
  <2>2. Loaded!Converted(shown, cells)[c] = IF cells[c] = "null" THEN "null" ELSE Loaded!Value(shown)
    BY <1>4, CellOf
  <2>3. cells[c] # "null" => Loaded!Tells(cells[c]) \subseteq Loaded!Tells(Loaded!Value(shown)) \cup dropped
    <3>1. CASE kind = "time"
      BY <2>1, <3>1, <1>4, <1>7 DEF Loaded!Readable, Loaded!Tells, Loaded!Value, Engines
    <3>2. CASE kind = "date" /\ e = "pandas"
      BY <2>1, <3>2, <1>k DEF Loaded!KindFor, Loaded!Readable, Loaded!Tells, Loaded!Value
    <3>3. CASE kind = "date" /\ e = "polars"
      BY <2>1, <3>3, <1>k DEF Loaded!KindFor, Loaded!Readable, Loaded!Tells, Loaded!Value
    <3>4. CASE kind = "datetime"
      BY <2>1, <3>4, <1>4 DEF Loaded!Readable, Loaded!Tells, Loaded!Value, Engines
    <3> QED
      BY <3>1, <3>2, <3>3, <3>4 DEF Kinds, Engines
  <2>4. Loaded!Value(shown) \in Real
    BY <1>4, CellOf
  <2> QED
    BY <1>8, <2>2, <2>3, <2>4 DEF Real
<1>10. DOMAIN Loaded!Converted(shown, cells) = DOMAIN cells
  BY DEF Loaded!Converted
<1>11. Keeps(Loaded!Converted(shown, cells), texts, dropped)
  BY <1>8, <1>9, <1>10 DEF Keeps
<1>12. parsed = [type |-> parsed.type, cells |-> parsed.cells] /\ parsed.cells = Loaded!Converted(shown, cells)
  BY <1>3, <1>k
<1> QED
  BY <1>p, <1>11, <1>12 DEF ColumnOK

\* A cast keeps them but for what the caller asks to drop.
LEMMA CastKeeps ==
  ASSUME NEW column, NEW original, NEW less, ColumnOK(column, original, less),
         NEW dtype \in Kinds, Loaded!Casts(column, dtype), NEW dropped, less \subseteq dropped,
         dtype = "date" => "time" \in dropped, dtype = "time" => "date" \in dropped
  PROVE  ColumnOK(Loaded!Column(Loaded!CastType(dtype), Loaded!Converted(dtype, column.cells)), original, dropped)
<1>p. PICK cells, texts, made :
        /\ cells = column.cells /\ texts = original.cells /\ made = Loaded!Converted(dtype, cells)
  OBVIOUS
<1>1. /\ DOMAIN cells = DOMAIN texts
      /\ \A c \in DOMAIN cells : Loaded!Tells(texts[c]) \subseteq Loaded!Tells(cells[c]) \cup dropped
  BY <1>p DEF ColumnOK, Keeps
<1>2. ASSUME NEW c \in DOMAIN cells
      PROVE  made[c] \in Real /\ Loaded!Tells(texts[c]) \subseteq Loaded!Tells(made[c]) \cup dropped
  <2>1. cells[c] \in {dtype, "day", "stamp", "null"}
    BY <1>p DEF Loaded!Casts
  <2>2. made[c] = IF cells[c] = "null" THEN "null" ELSE Loaded!Value(dtype)
    BY <1>p, CellOf
  <2>3. cells[c] # "null" => Loaded!Tells(cells[c]) \subseteq Loaded!Tells(Loaded!Value(dtype)) \cup dropped
    BY <2>1 DEF Loaded!Tells, Loaded!Value, Kinds
  <2>4. Loaded!Value(dtype) \in Real
    BY CellOf DEF Loaded!Value, Real, Kinds
  <2> QED
    BY <1>1, <2>2, <2>3, <2>4 DEF Real
<1>3. DOMAIN made = DOMAIN cells
  BY <1>p DEF Loaded!Converted
<1>4. Keeps(made, texts, dropped)
  BY <1>1, <1>2, <1>3 DEF Keeps
<1> QED
  BY <1>p, <1>4 DEF ColumnOK, Loaded!Column

LEMMA ParseFrameKeeps == ASSUME FramesInv, Loaded!ParseFrame PROVE FramesInv'
<1>1. s1' = s1 /\ s2' = s2 /\ s4' = s4 /\ s3' = [k \in DOMAIN s3 |-> Loaded!ParseColumn(s1, s3[k])]
  BY DEF Loaded!ParseFrame, Loaded!ParseTemporalColumns
<1>2. ASSUME NEW k \in DOMAIN s3 PROVE ColumnOK(s3'[k], s2[k], Loaded!Dropped(k))
  <2>1. ColumnOK(s3[k], s2[k], Loaded!Dropped(k)) /\ s1 \in Engines
    BY DEF FramesInv
  <2>2. Loaded!DetectTemporalKind(Loaded!Sample(s2[k].cells)) = "time" => "date" \in Loaded!Dropped(k)
    BY DEF Loaded!Dropped
  <2>3. s3'[k] = Loaded!ParseColumn(s1, s3[k])
    BY <1>1
  <2> QED
    BY <2>1, <2>2, <2>3, ParseKeeps
<1>3. \A k : Loaded!Dropped(k)' = Loaded!Dropped(k)
  BY <1>1 DEF Loaded!Dropped
<1>4. DOMAIN s3' = DOMAIN s3 /\ Len(s3') = Len(s3)
  BY <1>1 DEF FramesInv
<1> QED
  BY <1>1, <1>2, <1>3, <1>4 DEF FramesInv

LEMMA MapDtypesKeeps ==
  ASSUME FramesInv, NEW dtypes \in [1 .. Len(s3) -> {None, "date", "datetime", "time"}], Loaded!MapDtypes(dtypes)
  PROVE  FramesInv'
<1>f. PICK fails : fails = {k \in DOMAIN s3 : dtypes[k] # None /\ ~Loaded!Casts(s3[k], dtypes[k])}
  OBVIOUS
<1>d. PICK done : done = {k \in DOMAIN s3 : dtypes[k] # None /\ \A j \in fails : k < j}
  OBVIOUS
<1>1. /\ s3' = [k \in DOMAIN s3 |->
                  IF k \in done THEN Loaded!Column(Loaded!CastType(dtypes[k]), Loaded!Converted(dtypes[k], s3[k].cells))
                  ELSE s3[k]]
      /\ s4' = [k \in DOMAIN s3 |-> IF k \in done THEN s4[k] \cup {dtypes[k]} ELSE s4[k]]
      /\ s1' = s1 /\ s2' = s2
  BY <1>f, <1>d DEF Loaded!MapDtypes, Loaded!CastTo
<1>2. ASSUME NEW k \in DOMAIN s3 PROVE ColumnOK(s3'[k], s2[k], Loaded!Dropped(k)')
  <2>0. ColumnOK(s3[k], s2[k], Loaded!Dropped(k)) /\ k \in 1 .. Len(s3)
    BY DEF FramesInv
  <2>1. CASE k \in done
    <3>1. dtypes[k] \in Kinds
      BY <1>d, <2>0, <2>1 DEF Kinds
    <3>2. Loaded!Casts(s3[k], dtypes[k])
      BY <1>f, <1>d, <2>0, <2>1
    <3>3. s4'[k] = s4[k] \cup {dtypes[k]}
      BY <1>1, <2>1
    <3>4. /\ Loaded!Dropped(k) \subseteq Loaded!Dropped(k)'
          /\ dtypes[k] = "date" => "time" \in Loaded!Dropped(k)'
          /\ dtypes[k] = "time" => "date" \in Loaded!Dropped(k)'
      BY <1>1, <3>3 DEF Loaded!Dropped
    <3>5. s3'[k] = Loaded!Column(Loaded!CastType(dtypes[k]), Loaded!Converted(dtypes[k], s3[k].cells))
      BY <1>1, <2>1
    <3> QED
      BY <2>0, <3>1, <3>2, <3>4, <3>5, CastKeeps
  <2>2. CASE k \notin done
    <3>1. s3'[k] = s3[k] /\ s4'[k] = s4[k]
      BY <1>1, <2>2
    <3>2. Loaded!Dropped(k)' = Loaded!Dropped(k)
      BY <1>1, <3>1 DEF Loaded!Dropped
    <3> QED
      BY <2>0, <3>1, <3>2
  <2> QED
    BY <2>1, <2>2
<1>3. DOMAIN s3' = DOMAIN s3 /\ Len(s3') = Len(s3)
  BY <1>1 DEF FramesInv
<1> QED
  BY <1>1, <1>2, <1>3 DEF FramesInv

LEMMA CellsAreTold == FramesInv => Loaded!CellsTell
<1> SUFFICES ASSUME FramesInv, NEW k \in DOMAIN s3
             PROVE  /\ \A c \in DOMAIN s2[k].cells :
                         Loaded!Tells(s2[k].cells[c]) \subseteq Loaded!Tells(s3[k].cells[c]) \cup Loaded!Dropped(k)
                    /\ s3[k].cells # s2[k].cells => \A c \in DOMAIN s3[k].cells : s3[k].cells[c] \notin Loaded!Texts
  BY DEF Loaded!CellsTell
<1>1. s3[k] = s2[k] \/ Keeps(s3[k].cells, s2[k].cells, Loaded!Dropped(k))
  BY DEF FramesInv, ColumnOK
<1> QED
  BY <1>1 DEF Keeps, Real, Loaded!Texts

\* What has been parsed has a type of its own, or holds times only.
LEMMA ParseTwice ==
  ASSUME NEW e \in Engines, NEW type, NEW cells, NEW column, column = [type |-> type, cells |-> cells],
         NEW parsed, parsed = Loaded!ParseColumn(e, column)
  PROVE  Loaded!ParseColumn(e, parsed) = parsed
<1>1. CASE parsed = column
  BY <1>1
<1>2. CASE parsed # column
  <2>1. PICK kind \in Kinds :
          parsed = [type |-> Loaded!TypeFor(e, kind), cells |-> Loaded!Converted(Loaded!KindFor(e, kind), cells)]
    BY <1>2, ParsedColumn
  <2>2. SUFFICES ASSUME Loaded!ParseColumn(e, parsed) # parsed PROVE FALSE
    OBVIOUS
  <2>s. PICK ptype, pcells : ptype = Loaded!TypeFor(e, kind) /\ pcells = Loaded!Converted(Loaded!KindFor(e, kind), cells)
    OBVIOUS
  <2>3. PICK again \in Kinds :
          /\ ptype = "object" /\ again # None
          /\ \/ again = Loaded!DetectTemporalKind(Loaded!Sample(pcells))
             \/ again = "date" /\ e = "pandas" /\ Loaded!Sample(pcells) = {"day"}
    <3>1. parsed = [type |-> ptype, cells |-> pcells]
      BY <2>1, <2>s
    <3> QED
      BY <2>2, <3>1, ParsedColumn
  <2>4. e = "pandas" /\ kind = "time" /\ Loaded!KindFor(e, kind) = "time"
    BY <2>3, <2>s DEF Loaded!TypeFor, Loaded!KindFor, Kinds
  <2>5. \A c \in DOMAIN pcells : pcells[c] \in {"clock", "null"}
    BY <2>4, <2>s DEF Loaded!Converted, Loaded!Value
  <2>6. \A v \in Loaded!Sample(pcells) : v = "clock"
    BY <2>5, SampleIsOfCells
  <2>7. Loaded!Sample(pcells) # {"day"}
    BY <2>6
  <2>8. again = Loaded!DetectTemporalKind(Loaded!Sample(pcells)) /\ again # None
    BY <2>3, <2>7
  <2> QED
    BY <2>6, <2>8, KindsAreThree DEF Loaded!Texts
<1> QED
  BY <1>1, <1>2

LEMMA ParsesOnce == FramesInv => Loaded!ParsedOnce
<1> SUFFICES ASSUME FramesInv, NEW k \in DOMAIN s3
             PROVE  Loaded!ParseColumn(s1, Loaded!ParseColumn(s1, s3[k])) = Loaded!ParseColumn(s1, s3[k])
  BY DEF Loaded!ParsedOnce
<1>1. s3[k] = [type |-> s3[k].type, cells |-> s3[k].cells] /\ s1 \in Engines
  BY DEF FramesInv, ColumnOK
<1> QED
  BY <1>1, ParseTwice

\* What polars reads as a column of a kind, pandas reads so too.
LEMMA AgreeOnColumn ==
  ASSUME NEW cells, NEW column, column = [type |-> "object", cells |-> cells],
         NEW a, a = Loaded!ParseColumn("pandas", column), NEW b, b = Loaded!ParseColumn("polars", column),
         b # column
  PROVE  a # column /\ \A c \in DOMAIN b.cells : Loaded!Tells(b.cells[c]) \subseteq Loaded!Tells(a.cells[c])
<1> PICK sample : sample = Loaded!Sample(cells)
  OBVIOUS
<1>1. PICK kind \in Kinds :
        /\ kind # None /\ Loaded!ReadsAll("polars", kind, cells)
        /\ b = [type |-> Loaded!TypeFor("polars", kind), cells |-> Loaded!Converted(Loaded!KindFor("polars", kind), cells)]
        /\ kind = Loaded!DetectTemporalKind(sample)
  BY ParsedColumn DEF Engines
<1>2. kind # None
  BY <1>1
<1>3. sample # {} /\ sample # {"day"}
  BY <1>1, <1>2, KindsAreThree
<1>4. \A c \in DOMAIN cells : cells[c] \in Loaded!Readable("polars", kind)
  BY <1>1 DEF Loaded!ReadsAll
<1>5. Loaded!ReadsAll("pandas", kind, cells)
  BY <1>4 DEF Loaded!ReadsAll, Loaded!Readable, Kinds
<1>s. PICK shown : shown = Loaded!KindFor("pandas", kind) /\ shown \in Kinds
  BY DEF Loaded!KindFor, Kinds
<1>6. a = [type |-> Loaded!TypeFor("pandas", kind), cells |-> Loaded!Converted(shown, cells)]
  <2>1. column.type = "object" /\ column.cells = cells
    OBVIOUS
  <2> QED
    BY <1>1, <1>2, <1>3, <1>5, <1>s, <2>1 DEF Loaded!ParseColumn, Loaded!Column
<1>7. Loaded!KindFor("polars", kind) = kind
  BY DEF Loaded!KindFor
<1>8. PICK c \in DOMAIN cells : cells[c] # "null"
  BY <1>3, SampleIsOfCells
<1>9. a.cells[c] = Loaded!Value(shown) /\ a.cells = Loaded!Converted(shown, cells)
  BY <1>6, <1>8, <1>s, CellOf
<1>10. cells[c] \in {"date", "datetime", "time"}
  BY <1>4, <1>8 DEF Loaded!Readable, Kinds
<1>11. Loaded!Value(shown) \in Real
  BY <1>s, <1>8, CellOf
<1>12. a # column
  BY <1>9, <1>10, <1>11 DEF Real
<1>13. ASSUME NEW d \in DOMAIN b.cells PROVE Loaded!Tells(b.cells[d]) \subseteq Loaded!Tells(a.cells[d])
  <2>1. b.cells = Loaded!Converted(kind, cells) /\ DOMAIN b.cells = DOMAIN cells
    BY <1>1, <1>7 DEF Loaded!Converted
  <2>2. /\ b.cells[d] = IF cells[d] = "null" THEN "null" ELSE Loaded!Value(kind)
        /\ a.cells[d] = IF cells[d] = "null" THEN "null" ELSE Loaded!Value(shown)
    BY <1>9, <1>s, <2>1, CellOf
  <2>3. Loaded!Tells(Loaded!Value(kind)) \subseteq Loaded!Tells(Loaded!Value(shown))
    BY <1>s DEF Loaded!KindFor, Loaded!Value, Loaded!Tells, Kinds
  <2> QED
    BY <2>2, <2>3
<1> QED
  BY <1>12, <1>13

LEMMA BothAgree == FramesInv => Loaded!EnginesAgree
<1> SUFFICES ASSUME FramesInv, NEW k \in DOMAIN s2, NEW a, NEW b,
                    a = Loaded!ParseColumn("pandas", s2[k]), b = Loaded!ParseColumn("polars", s2[k]), b # s2[k]
             PROVE  a # s2[k] /\ \A c \in DOMAIN b.cells : Loaded!Tells(b.cells[c]) \subseteq Loaded!Tells(a.cells[c])
  BY DEF Loaded!EnginesAgree
<1>1. s2[k] = [type |-> "object", cells |-> s2[k].cells]
  BY DEF FramesInv, ColumnOK
<1> QED
  BY <1>1, AgreeOnColumn

(* "A column whose full conversion fails [...] is left unchanged rather    *)
(* than nulled" (dataframes.py, parse_temporal_columns): however parses and*)
(* casts follow each other, a column is converted whole or is as it was    *)
(* loaded, and its cells tell what they told, a cell that the sample did   *)
(* not show included, but for the part that a cast was asked to drop or    *)
(* that a column of times has no room for; what a parse leaves is left by  *)
(* the next one; and the two engines read the same.  For any columns and   *)
(* size of the sample (detect_temporal_kind, the parsers and map_dtypes).  *)
THEOREM CellsSurvive == ValuesSpec => []ConversionsKeepCells
<1> DEFINE Inv == part = "frames" => FramesInv
<1>1. Init => Inv
  BY FramesBegin DEF Init
<1>2. Inv /\ [Next]_valuesVars => Inv'
  <2>1. SUFFICES ASSUME Inv, [Next]_valuesVars, part' = "frames", part = "frames" PROVE FramesInv'
    BY DEF Next, valuesVars
  <2>2. CASE Loaded!FramesNext
    BY <2>1, <2>2, ParseFrameKeeps, MapDtypesKeeps DEF Loaded!FramesNext
  <2>3. CASE UNCHANGED valuesVars
    BY <2>1, <2>3 DEF valuesVars, FramesInv, Loaded!Dropped
  <2> QED
    BY <2>1, <2>2, <2>3 DEF Next
<1>3. Inv => ConversionsKeepCells
  BY CellsAreTold, ParsesOnce, BothAgree DEF ConversionsKeepCells, Loaded!ConversionsKeepCells
<1> QED
  BY <1>1, <1>2, <1>3, PTL DEF ValuesSpec

-----------------------------------------------------------------------------
(* Deck.                                                                   *)

Size == [width : Dimensions, height : Dimensions]
WidthOf(size) == IF size.width # None THEN size.width ELSE Default.width
HeightOf(size) == IF size.height # None THEN size.height ELSE Default.height

Place == [left : Int, top : Int, width : Nat, height : Nat]

\* A box lies on slides of the size that it was inserted on.
Box == {b \in [place : Place, of : Size, text : {None, "text", "markdown"}] :
          b.place.width <= WidthOf(b.of) /\ b.place.height <= HeightOf(b.of) =>
            /\ b.place.left >= 0 /\ b.place.left + b.place.width <= WidthOf(b.of)
            /\ b.place.top >= 0 /\ b.place.top + b.place.height <= HeightOf(b.of)}
Slide == [id : Nat, boxes : Seq(Box)]

Rendering ==
  [numbers : {None, <<2, 0>>}, phase : {"fresh", "open", "raised", "closed"}, pages : Seq(Nat) \cup {None},
   todo : Seq(Nat), got : Seq(Nat \X Nat)]

\* The pages that were got are of the deck that was rendered.
RenderingOK(r) ==
  /\ r \in Rendering
  /\ r.phase = "fresh" => r.got = <<>>
  /\ \A k \in DOMAIN r.got :
       Slides!HasPage(r.pages, r.got[k][1]) /\ r.got[k][2] = Slides!Page(r.pages, r.got[k][1])

\* The slides that are there are the last ones made, failed blocks or not.
Numbered == Len(s1) <= s2 /\ \A i \in DOMAIN s1 : s1[i].id = s2 - Len(s1) + i

DeckInv ==
  /\ s1 \in Seq(Slide) /\ s2 \in Nat /\ s8 \in Size
  /\ Numbered
  /\ s5 # None => RenderingOK(s5)

LEMMA Lengths ==
  /\ \A size \in Size : WidthOf(size) \in Nat /\ HeightOf(size) \in Nat
  /\ Slides!Width = WidthOf(s8) /\ Slides!Height = HeightOf(s8)
  /\ Sizes \subseteq Nat \cup {None}
BY Assumptions DEF Slides!DeckAssumption, Size, WidthOf, HeightOf, Slides!Width, Slides!Height

LEMMA DeckBegins == Slides!DeckInit => DeckInv
<1> SUFFICES ASSUME Slides!DeckInit PROVE DeckInv
  OBVIOUS
<1>1. s8 \in Size
  BY DEF Slides!DeckInit, Size
<1>2. PICK first : first = [id |-> 1, boxes |-> <<>>]
  OBVIOUS
<1>3. first \in Slide /\ first.id = 1
  BY <1>2 DEF Slide
<1>4. s1 \in {<<>>, <<first>>} /\ s2 = 1 /\ s5 = None
  BY <1>2 DEF Slides!DeckInit
<1>5. CASE s1 = <<>>
  BY <1>1, <1>4, <1>5 DEF DeckInv, Numbered
<1>6. CASE s1 = <<first>>
  <2>1. s1 \in Seq(Slide) /\ Len(s1) = 1 /\ \A i \in DOMAIN s1 : i = 1 /\ s1[i].id = 1
    BY <1>3, <1>6
  <2> QED
    BY <1>1, <1>4, <2>1 DEF DeckInv, Numbered
<1> QED
  BY <1>4, <1>5, <1>6

LEMMA AddedKeeps ==
  ASSUME DeckInv, s1' = Slides!Added, s2' = s2 + 1, UNCHANGED <<s5, s8>>
  PROVE  DeckInv'
<1>1. PICK new : new = [id |-> s2 + 1, boxes |-> <<>>]
  OBVIOUS
<1>2. new \in Slide /\ new.id = s2 + 1
  BY <1>1 DEF Slide, DeckInv
<1>3. s1' = Append(s1, new)
  BY <1>1 DEF Slides!Added
<1> QED
  BY <1>2, <1>3 DEF DeckInv, Numbered

\* A slide k in the place of another with the same number.
LEMMA SlideKeeps ==
  ASSUME DeckInv, NEW k \in DOMAIN s1, NEW slide \in Slide, slide.id = s1[k].id,
         s1' = [s1 EXCEPT ![k] = slide], UNCHANGED <<s2, s5, s8>>
  PROVE  DeckInv'
BY DEF DeckInv, Numbered

LEMMA BoxAdded ==
  ASSUME DeckInv, NEW k \in DOMAIN s1, NEW b \in Box,
         s1' = [s1 EXCEPT ![k].boxes = Append(@, b)], UNCHANGED <<s2, s5, s8>>
  PROVE  DeckInv'
<1>1. PICK slide : slide = [s1[k] EXCEPT !.boxes = Append(s1[k].boxes, b)]
  OBVIOUS
<1>2. s1[k] \in Slide
  BY DEF DeckInv
<1>3. slide \in Slide /\ slide.id = s1[k].id
  <2>1. PICK boxes : boxes = Append(s1[k].boxes, b)
    OBVIOUS
  <2>2. s1[k].boxes \in Seq(Box)
    BY <1>2 DEF Slide
  <2>3. boxes \in Seq(Box)
    BY <2>1, <2>2
  <2> QED
    BY <1>1, <1>2, <2>1, <2>3 DEF Slide
<1>4. s1' = [s1 EXCEPT ![k] = slide]
  BY <1>1
<1> QED
  BY <1>3, <1>4, SlideKeeps

\* The middle of what is left, and a place at the edge, are on the slide.
LEMMA Middle ==
  ASSUME NEW n \in Nat, NEW m \in Nat
  PROVE  /\ Slides!FromFloat(n - m, 2) \in Int
         /\ m <= n => Slides!FromFloat(n - m, 2) >= 0 /\ Slides!FromFloat(n - m, 2) + m <= n
BY DEF Slides!FromFloat

LEMMA BoxPlaced ==
  ASSUME DeckInv, NEW height \in Sizes \ {None}, NEW width \in Sizes \ {None}, NEW x \in {0, None},
         NEW text \in {None, "markdown"},
         NEW b, b = [place |-> Slides!InsertionSpacing(height, width, x, None), of |-> s8, text |-> text]
  PROVE  b \in Box
<1>0. height \in Nat /\ width \in Nat /\ WidthOf(s8) \in Nat /\ HeightOf(s8) \in Nat /\ s8 \in Size
  BY Lengths DEF DeckInv
<1>1. PICK left, top : left = (IF x # None THEN x ELSE Slides!FromFloat(WidthOf(s8) - width, 2))
                       /\ top = Slides!FromFloat(HeightOf(s8) - height, 2)
  OBVIOUS
<1>2. b = [place |-> [left |-> left, top |-> top, width |-> width, height |-> height], of |-> s8, text |-> text]
  BY <1>1, Lengths DEF Slides!InsertionSpacing
<1>3. /\ left \in Int /\ top \in Int
      /\ width <= WidthOf(s8) => left >= 0 /\ left + width <= WidthOf(s8)
      /\ height <= HeightOf(s8) => top >= 0 /\ top + height <= HeightOf(s8)
  <2>1. PICK w \in Nat, h \in Nat : w = WidthOf(s8) /\ h = HeightOf(s8)
    BY <1>0
  <2>2. top \in Int /\ (height <= h => top >= 0 /\ top + height <= h)
    BY <1>0, <1>1, <2>1, Middle
  <2>3. CASE x = None
    <3>1. left = Slides!FromFloat(w - width, 2)
      BY <1>1, <2>1, <2>3
    <3> QED
      BY <1>0, <2>1, <2>2, <3>1, Middle
  <2>4. CASE x # None
    <3>1. left = 0
      BY <1>1, <2>4
    <3> QED
      BY <1>0, <2>1, <2>2, <3>1
  <2> QED
    BY <2>3, <2>4
<1>4. /\ b \in [place : Place, of : Size, text : {None, "text", "markdown"}]
      /\ b.of = s8 /\ b.place.left = left /\ b.place.top = top
      /\ b.place.width = width /\ b.place.height = height
  BY <1>0, <1>2, <1>3 DEF Place
<1> QED
  BY <1>3, <1>4 DEF Box
LEMMA InsertKeeps ==
  ASSUME DeckInv, NEW n, NEW height \in Sizes, NEW width \in Sizes,
         \/ Slides!InsertTextbox(n, height, width, 0, None)
         \/ Slides!InsertMarkdown(n, height, width)
  PROVE  DeckInv'
<1>0. UNCHANGED <<s2, s5, s8>>
  BY DEF Slides!InsertTextbox, Slides!InsertMarkdown
<1>1. CASE s1' = s1
  BY <1>0, <1>1 DEF DeckInv, Numbered
<1>2. CASE s1' # s1
  <2>1. PICK k, x, text, b :
          /\ x \in {0, None} /\ text \in {None, "markdown"}
          /\ k = Slides!SlideNumber(n) /\ Slides!InRange(k) /\ height # None /\ width # None
          /\ b = [place |-> Slides!InsertionSpacing(height, width, x, None), of |-> s8, text |-> text]
          /\ s1' = [s1 EXCEPT ![k].boxes = Append(@, b)]
    <3>0. PICK k, b, c :
            /\ k = Slides!SlideNumber(n)
            /\ b = [place |-> Slides!InsertionSpacing(height, width, 0, None), of |-> s8, text |-> None]
            /\ c = [place |-> Slides!InsertionSpacing(height, width, None, None), of |-> s8, text |-> "markdown"]
      OBVIOUS
    <3>1. CASE Slides!InsertTextbox(n, height, width, 0, None)
      <4>1. /\ Slides!InRange(k) /\ height # None /\ width # None
            /\ s1' = [s1 EXCEPT ![k].boxes = Append(@, b)]
        BY <1>2, <3>0, <3>1 DEF Slides!InsertTextbox
      <4> QED
        BY <3>0, <4>1
    <3>2. CASE Slides!InsertMarkdown(n, height, width)
      <4>1. /\ Slides!InRange(k) /\ height # None /\ width # None
            /\ s1' = [s1 EXCEPT ![k].boxes = Append(@, c)]
        BY <3>0, <3>2 DEF Slides!InsertMarkdown
      <4> QED
        BY <3>0, <4>1
    <3> QED
      BY <3>1, <3>2
  <2>2. b \in Box
    BY <2>1, BoxPlaced
  <2>3. k \in DOMAIN s1
    BY <2>1 DEF Slides!InRange, DeckInv
  <2> QED
    BY <1>0, <2>1, <2>2, <2>3, BoxAdded
<1> QED
  BY <1>1, <1>2

\* A text that is set in a box of a slide, if it has that box.
LEMMA TextSet ==
  ASSUME NEW slide \in Slide, NEW at, NEW new, new = [slide EXCEPT !.boxes[at].text = "text"]
  PROVE  new \in Slide /\ new.id = slide.id
<1>1. PICK boxes : boxes = [slide.boxes EXCEPT ![at].text = "text"]
  OBVIOUS
<1>2. slide.boxes \in Seq(Box)
  BY DEF Slide
<1>3. boxes \in Seq(Box)
  <2>1. CASE at \in DOMAIN slide.boxes
    <3>1. PICK b : b = [slide.boxes[at] EXCEPT !.text = "text"]
      OBVIOUS
    <3>2. slide.boxes[at] \in Box
      BY <1>2, <2>1
    <3>3. /\ b \in [place : Place, of : Size, text : {None, "text", "markdown"}]
          /\ b.place = slide.boxes[at].place /\ b.of = slide.boxes[at].of
      BY <3>1, <3>2 DEF Box
    <3>4. b \in Box
      BY <3>2, <3>3 DEF Box
    <3>5. boxes = [slide.boxes EXCEPT ![at] = b]
      BY <1>1, <3>1
    <3>6. \A old \in Seq(Box) : at \in DOMAIN old => [old EXCEPT ![at] = b] \in Seq(Box)
      BY <3>4
    <3> QED
      BY <1>2, <2>1, <3>5, <3>6
  <2>2. CASE at \notin DOMAIN slide.boxes
    <3>1. PICK old : old = slide.boxes
      OBVIOUS
    <3>2. boxes = [i \in DOMAIN old |-> IF i = at THEN [old[at] EXCEPT !.text = "text"] ELSE old[i]]
      BY <1>1, <3>1
    <3>3. boxes = [i \in DOMAIN old |-> old[i]]
      BY <2>2, <3>1, <3>2
    <3>4. old \in Seq(Box)
      BY <1>2, <3>1
    <3> QED
      BY <3>3, <3>4
  <2> QED
    BY <2>1, <2>2
<1>4. new = [slide EXCEPT !.boxes = boxes]
  BY <1>1
<1> QED
  BY <1>3, <1>4 DEF Slide

LEMMA InsertTextKeeps ==
  ASSUME DeckInv, NEW link \in BOOLEAN, Slides!InsertText(link)
  PROVE  DeckInv'
<1>1. /\ UNCHANGED <<s2, s5, s8>>
      /\ s1' = [i \in DOMAIN s1 |-> IF s1[i].id = s4.slide
                                    THEN [s1[i] EXCEPT !.boxes[s4.at].text = "text"] ELSE s1[i]]
  BY DEF Slides!InsertText
<1>2. s1 \in Seq(Slide)
  BY DEF DeckInv
<1>3. ASSUME NEW i \in DOMAIN s1 PROVE s1'[i] \in Slide /\ s1'[i].id = s1[i].id
  <2>1. PICK slide, at : slide = s1[i] /\ at = s4.at
    OBVIOUS
  <2>2. slide \in Slide
    BY <1>2, <2>1
  <2>3. PICK new : new = [slide EXCEPT !.boxes[at].text = "text"]
    OBVIOUS
  <2>4. new \in Slide /\ new.id = slide.id
    BY <2>2, <2>3, TextSet
  <2>5. s1'[i] \in {new, slide}
    BY <1>1, <2>1, <2>3
  <2> QED
    BY <2>1, <2>2, <2>4, <2>5
<1>4. s1' \in Seq(Slide) /\ Len(s1') = Len(s1) /\ DOMAIN s1' = DOMAIN s1
  <2>1. DOMAIN s1' = DOMAIN s1
    BY <1>1, Zenon
  <2>2. PICK len \in Nat : DOMAIN s1 = 1 .. len /\ len = Len(s1)
    BY <1>2
  <2>3. s1' = [i \in 1 .. len |-> s1'[i]]
    <3>1. PICK new : new = [i \in DOMAIN s1 |-> IF s1[i].id = s4.slide
                                    THEN [s1[i] EXCEPT !.boxes[s4.at].text = "text"] ELSE s1[i]]
      OBVIOUS
    <3>2. s1' = new
      BY <1>1, <3>1
    <3>3. new = [i \in DOMAIN s1 |-> new[i]]
      BY <3>1
    <3> QED
      BY <2>2, <3>2, <3>3
  <2>4. \A i \in 1 .. len : s1'[i] \in Slide
    BY <1>3, <2>2
  <2>5. s1' \in Seq(Slide)
    BY <2>3, <2>4
  <2> QED
    BY <2>1, <2>2, <2>3, <2>5
<1> QED
  BY <1>1, <1>3, <1>4 DEF DeckInv, Numbered

LEMMA PagesAreNumbers == DeckInv => Slides!Pages \in Seq(Nat) /\ [i \in DOMAIN s1 |-> i] \in Seq(Nat)
<1> SUFFICES ASSUME DeckInv PROVE Slides!Pages \in Seq(Nat) /\ [i \in DOMAIN s1 |-> i] \in Seq(Nat)
  OBVIOUS
<1>0. s1 \in Seq(Slide)
  BY DEF DeckInv
<1>2. \A i \in DOMAIN s1 : s1[i] \in Slide
  BY <1>0
<1>1. DOMAIN s1 = 1 .. Len(s1) /\ Len(s1) \in Nat /\ \A i \in DOMAIN s1 : s1[i].id \in Nat
  BY <1>0, <1>2 DEF Slide
<1> QED
  BY <1>1 DEF Slides!Pages

LEMMA RenderKeeps ==
  ASSUME DeckInv, NEW numbers \in {None, <<2, 0>>}, Slides!RenderPages(numbers)
  PROVE  DeckInv'
<1>1. UNCHANGED <<s1, s2, s8>>
  BY DEF Slides!RenderPages
<1>2. PICK r : r = [numbers |-> numbers, phase |-> "fresh", pages |-> None, todo |-> <<>>, got |-> <<>>]
  OBVIOUS
<1>3. RenderingOK(r)
  BY <1>2 DEF RenderingOK, Rendering
<1>4. s5' = r
  BY <1>2 DEF Slides!RenderPages
<1> QED
  BY <1>1, <1>3, <1>4 DEF DeckInv, Numbered, RenderingOK, Slides!HasPage, Slides!Page
\* A page that is got, of a number the document has, is of the document.
LEMMA PageGot ==
  ASSUME NEW r, RenderingOK(r), NEW pages \in Seq(Nat), r.got = <<>> \/ r.pages = pages,
         NEW todo \in Seq(Nat), todo # <<>>, Slides!HasPage(pages, Head(todo)),
         NEW new, new = [numbers |-> r.numbers, phase |-> "open", pages |-> pages, todo |-> Tail(todo),
                         got |-> Append(r.got, <<Head(todo), Slides!Page(pages, Head(todo))>>)]
  PROVE  RenderingOK(new)
<1>1. PICK n, page, got : /\ n = Head(todo) /\ page = Slides!Page(pages, n) /\ got = Append(r.got, <<n, page>>)
  OBVIOUS
<1>2. n \in 0 .. Len(pages) /\ pages # <<>>
  BY <1>1 DEF Slides!HasPage
<1>3. page \in Nat
  BY <1>1, <1>2 DEF Slides!Page
<1>4. r.got \in Seq(Nat \X Nat) /\ r \in Rendering
  BY DEF RenderingOK, Rendering
<1>5. got \in Seq(Nat \X Nat) /\ Len(got) = Len(r.got) + 1 /\ got[Len(got)] = <<n, page>>
      /\ (\A k \in DOMAIN r.got : got[k] = r.got[k]) /\ DOMAIN got = DOMAIN r.got \cup {Len(got)}
  <2>1. PICK x : x = <<n, page>>
    OBVIOUS
  <2>2. n \in Nat /\ x \in Nat \X Nat
    BY <1>2, <1>3, <2>1
  <2>3. PICK old : old = r.got
    OBVIOUS
  <2>4. PICK Pair : Pair = Nat \X Nat
    OBVIOUS
  <2>5. got = Append(old, x) /\ x \in Pair /\ old \in Seq(Pair)
    BY <1>1, <1>4, <2>1, <2>2, <2>3, <2>4
  <2>6. got \in Seq(Pair) /\ Len(got) = Len(old) + 1 /\ got[Len(got)] = x /\ (\A k \in DOMAIN old : got[k] = old[k])
        /\ DOMAIN got = DOMAIN old \cup {Len(got)}
    BY <2>5
  <2> QED
    BY <2>1, <2>3, <2>4, <2>6
<1>6. new = [numbers |-> r.numbers, phase |-> "open", pages |-> pages, todo |-> Tail(todo), got |-> got]
  BY <1>1
<1>7. /\ new \in Rendering /\ new.got = got /\ new.pages = pages /\ new.phase = "open"
  <2>1. PICK rest : rest = Tail(todo)
    OBVIOUS
  <2>r. rest \in Seq(Nat)
    BY <2>1
  <2>3. r = [numbers |-> r.numbers, phase |-> r.phase, pages |-> r.pages, todo |-> r.todo, got |-> r.got]
        /\ r.numbers \in {None, <<2, 0>>}
    BY <1>4 DEF Rendering
  <2>4. new = [numbers |-> r.numbers, phase |-> "open", pages |-> pages, todo |-> rest, got |-> got]
    BY <1>6, <2>1
  <2>5. got \in Seq(Nat \X Nat)
    BY <1>5
  <2>p. PICK numbers : numbers = r.numbers /\ numbers \in {None, <<2, 0>>}
    BY <2>3
  <2>6. new \in Rendering
    <3>1. PICK some : some = [numbers |-> numbers, phase |-> "open", pages |-> pages, todo |-> rest, got |-> got]
      OBVIOUS
    <3>2. some \in Rendering
      BY <2>r, <2>p, <2>5, <3>1, Zenon DEF Rendering
    <3> QED
      BY <2>4, <2>p, <3>1, <3>2
  <2>w. PICK w : w = [numbers |-> r.numbers, phase |-> "open", pages |-> pages, todo |-> rest, got |-> got]
    OBVIOUS
  <2>7. w.got = got /\ w.pages = pages /\ w.phase = "open" /\ new = w
    BY <2>4, <2>w
  <2> QED
    BY <2>6, <2>7
<1>8. ASSUME NEW k \in DOMAIN got PROVE Slides!HasPage(pages, got[k][1]) /\ got[k][2] = Slides!Page(pages, got[k][1])
  <2>1. CASE k = Len(got)
    BY <1>1, <1>2, <1>5, <2>1 DEF Slides!HasPage
  <2>2. CASE k # Len(got)
    <3>1. PICK old : old = r.got /\ old \in Seq(Nat \X Nat)
      BY <1>4
    <3>2. k \in DOMAIN old
      BY <1>5, <2>2, <3>1
    <3>3. old # <<>>
      BY <3>2
    <3>4. k \in DOMAIN r.got /\ got[k] = r.got[k] /\ r.pages = pages
      BY <1>5, <3>1, <3>2, <3>3
    <3> QED
      BY <3>4 DEF RenderingOK
  <2> QED
    BY <2>1, <2>2
<1> QED
  BY <1>7, <1>8 DEF RenderingOK

\* What a reading of the next page starts from: whole pages, numbers, and what was got.
LEMMA NextPageKeeps ==
  ASSUME DeckInv, NEW outcome, Slides!NextPage(outcome)
  PROVE  DeckInv'
<1>0. UNCHANGED <<s1, s2, s8>>
  BY DEF Slides!NextPage
<1>r. PICK r : r = s5
  OBVIOUS
<1>1. RenderingOK(r) /\ r \in Rendering /\ r.phase \in {"fresh", "open"}
  BY <1>r DEF DeckInv, RenderingOK, Slides!NextPage
<1>t. PICK todo : todo = IF r.phase # "fresh" THEN r.todo
                         ELSE IF r.numbers = None THEN [i \in DOMAIN s1 |-> i] ELSE r.numbers
  OBVIOUS
<1>p. PICK pages : pages = IF r.phase = "fresh" THEN Slides!ConvertToPdf(Slides!Pages, outcome, None).returns ELSE r.pages
  OBVIOUS
<1>2. todo \in Seq(Nat)
  <2>1. r.todo \in Seq(Nat) /\ r.numbers \in {None, <<2, 0>>}
    BY <1>1 DEF Rendering
  <2>2. <<2, 0>> \in Seq(Nat) /\ [i \in DOMAIN s1 |-> i] \in Seq(Nat)
    BY PagesAreNumbers
  <2> QED
    BY <1>t, <2>1, <2>2
<1>3. pages \in Seq(Nat) \cup {None} /\ (r.got = <<>> \/ r.pages = pages)
  <2>1. r.pages \in Seq(Nat) \cup {None} /\ (r.phase = "fresh" => r.got = <<>>)
    BY <1>1 DEF Rendering, RenderingOK
  <2>2. Slides!ConvertToPdf(Slides!Pages, outcome, None).returns \in {Slides!Pages, None}
    BY DEF Slides!ConvertToPdf
  <2> QED
    BY <1>p, <2>1, <2>2, PagesAreNumbers
<1>4. RenderingOK(s5')
  <2>1. CASE pages = None
    <3>1. s5' = [r EXCEPT !.phase = "raised"]
      BY <1>r, <1>t, <1>p, <2>1 DEF Slides!NextPage
    <3> QED
      BY <1>1, <3>1 DEF RenderingOK, Rendering
  <2>2. CASE pages # None /\ (todo = <<>> \/ ~Slides!HasPage(pages, Head(todo)))
    <3>1. s5' = [r EXCEPT !.phase = "closed", !.pages = pages, !.todo = todo]
      BY <1>r, <1>t, <1>p, <2>2 DEF Slides!NextPage
    <3>2. r = [numbers |-> r.numbers, phase |-> r.phase, pages |-> r.pages, todo |-> r.todo, got |-> r.got]
          /\ r.numbers \in {None, <<2, 0>>} /\ r.got \in Seq(Nat \X Nat)
      BY <1>1 DEF Rendering
    <3>3. s5' = [numbers |-> r.numbers, phase |-> "closed", pages |-> pages, todo |-> todo, got |-> r.got]
      BY <3>1, <3>2
    <3>4. s5' \in Rendering
      BY <1>2, <1>3, <3>2, <3>3 DEF Rendering
    <3>5. \A k \in DOMAIN r.got : r.pages = pages
      BY <1>3
    <3>6. \A k \in DOMAIN r.got : Slides!HasPage(pages, r.got[k][1]) /\ r.got[k][2] = Slides!Page(pages, r.got[k][1])
      BY <1>1, <3>5, Zenon DEF RenderingOK
    <3>7. s5'.phase = "closed" /\ s5'.pages = pages /\ s5'.got = r.got
      BY <3>3
    <3> QED
      BY <3>4, <3>6, <3>7 DEF RenderingOK
  <2>3. CASE pages # None /\ todo # <<>> /\ Slides!HasPage(pages, Head(todo))
    <3>n. PICK next : next = [r EXCEPT !.phase = "open", !.pages = pages, !.todo = todo]
      OBVIOUS
    <3>g. s5' = [next EXCEPT !.todo = Tail(todo),
                             !.got = Append(next.got, <<Head(todo), Slides!Page(pages, Head(todo))>>)]
      BY <1>r, <1>t, <1>p, <2>3, <3>n DEF Slides!NextPage
    <3>1. s5' = [numbers |-> r.numbers, phase |-> "open", pages |-> pages, todo |-> Tail(todo),
                 got |-> Append(r.got, <<Head(todo), Slides!Page(pages, Head(todo))>>)]
      <4>1. r = [numbers |-> r.numbers, phase |-> r.phase, pages |-> r.pages, todo |-> r.todo, got |-> r.got]
        BY <1>1 DEF Rendering
      <4>2. next = [numbers |-> r.numbers, phase |-> "open", pages |-> pages, todo |-> todo, got |-> r.got]
        BY <3>n, <4>1
      <4>3. next.got = r.got
        BY <4>2
      <4>4. PICK rest, more : /\ rest = Tail(todo)
                              /\ more = Append(next.got, <<Head(todo), Slides!Page(pages, Head(todo))>>)
        OBVIOUS
      <4>5. s5' = [next EXCEPT !.todo = rest, !.got = more]
        BY <3>g, <4>4
      <4>6. s5' = [numbers |-> r.numbers, phase |-> "open", pages |-> pages, todo |-> rest, got |-> more]
        BY <4>2, <4>5
      <4> QED
        BY <4>3, <4>4, <4>6
    <3>2. PICK new : new = s5'
      OBVIOUS
    <3> QED
      BY <1>1, <1>2, <1>3, <2>3, <3>1, <3>2, PageGot
  <2> QED
    BY <2>1, <2>2, <2>3
<1> QED
  BY <1>0, <1>4 DEF DeckInv, Numbered, RenderingOK, Slides!HasPage, Slides!Page

LEMMA SizeKeeps ==
  ASSUME DeckInv, NEW value \in Dimensions \ {None}, Slides!SetHeight(value) \/ Slides!SetWidth(value)
  PROVE  DeckInv'
<1>1. UNCHANGED <<s1, s2, s5>>
  BY DEF Slides!SetHeight, Slides!SetWidth
<1>2. s8' \in Size
  BY DEF Slides!SetHeight, Slides!SetWidth, DeckInv, Size
<1> QED
  BY <1>1, <1>2 DEF DeckInv, Numbered

LEMMA EmptyKeeps ==
  ASSUME DeckInv, Slides!Empty
  PROVE  DeckInv'
<1>1. s1' = <<>> /\ UNCHANGED <<s2, s5, s8>>
  BY DEF Slides!Empty
<1> QED
  BY <1>1 DEF DeckInv, Numbered

\* Steps that change neither the slides nor what is rendered of them.
LEMMA OthersKeep ==
  ASSUME DeckInv, UNCHANGED <<s1, s2, s5, s8>>
  PROVE  DeckInv'
BY DEF DeckInv, Numbered, RenderingOK, Slides!HasPage, Slides!Page

LEMMA DeckKeeps ==
  ASSUME DeckInv, Slides!DeckNext
  PROVE  DeckInv'
<1>1. CASE Slides!NewSlide \/ Slides!EnterNewSlide
  <2>1. s1' = Slides!Added /\ s2' = s2 + 1 /\ UNCHANGED <<s5, s8>>
    BY <1>1 DEF Slides!NewSlide, Slides!EnterNewSlide
  <2> QED
    BY <2>1, AddedKeeps
<1>2. CASE Slides!Empty
  BY <1>2, EmptyKeeps
<1>3. CASE Slides!DeleteSlide \/ Slides!CopySlide \/ Slides!MoveSlide \/ Slides!ReorderSlides \/ Slides!InsertImage
  <2>1. UNCHANGED <<s1, s2, s5, s8>>
    BY <1>3 DEF Slides!DeleteSlide, Slides!CopySlide, Slides!MoveSlide, Slides!ReorderSlides, Slides!InsertImage,
                Slides!Refused
  <2> QED
    BY <2>1, OthersKeep
<1>4. ASSUME NEW value \in Dimensions \ {None}, Slides!SetHeight(value) \/ Slides!SetWidth(value) PROVE DeckInv'
  BY <1>4, SizeKeeps
<1>5. ASSUME NEW raises \in BOOLEAN, Slides!LeaveBlock(raises) PROVE DeckInv'
  <2>1. UNCHANGED <<s1, s2, s5, s8>>
    BY <1>5 DEF Slides!LeaveBlock
  <2> QED
    BY <2>1, OthersKeep
<1>6. ASSUME NEW n, NEW height \in Sizes, NEW width \in Sizes,
             Slides!InsertTextbox(n, height, width, 0, None) \/ Slides!InsertMarkdown(n, height, width)
      PROVE  DeckInv'
  BY <1>6, InsertKeeps
<1>7. ASSUME NEW link \in BOOLEAN, Slides!InsertText(link) PROVE DeckInv'
  BY <1>7, InsertTextKeeps
<1>8. ASSUME NEW n, Slides!Preview(n) PROVE DeckInv'
  <2>1. UNCHANGED <<s1, s2, s5, s8>>
    BY <1>8 DEF Slides!Preview
  <2> QED
    BY <2>1, OthersKeep
<1>9. ASSUME NEW outcome, Slides!ToPdf(outcome) PROVE DeckInv'
  <2>1. UNCHANGED <<s1, s2, s5, s8>>
    BY <1>9 DEF Slides!ToPdf
  <2> QED
    BY <2>1, OthersKeep
<1>10. ASSUME NEW outcome, Slides!NextPage(outcome) PROVE DeckInv'
  BY <1>10, NextPageKeeps
<1>11. ASSUME NEW numbers \in {None, <<2, 0>>}, Slides!RenderPages(numbers) PROVE DeckInv'
  BY <1>11, RenderKeeps
<1> QED
  BY <1>1, <1>2, <1>3, <1>4, <1>5, <1>6, <1>7, <1>8, <1>9, <1>10, <1>11 DEF Slides!DeckNext

\* What a deck promises follows: a box of this size of the slides is where it was placed.
LEMMA DeckHolds == DeckInv => Slides!SlidesInOrder /\ Slides!BoxesFit /\ Slides!PagesOfOneDeck
<1> SUFFICES ASSUME DeckInv PROVE Slides!SlidesInOrder /\ Slides!BoxesFit /\ Slides!PagesOfOneDeck
  OBVIOUS
<1>0. Slides!PagesOfOneDeck
  BY DEF DeckInv, RenderingOK, Slides!PagesOfOneDeck
<1>1. Slides!SlidesInOrder
  <2>1. PICK n \in Nat, e \in 0 .. s2 : n = Len(s1) /\ DOMAIN s1 = 1 .. n /\ e = s2 - n /\ s2 \in Nat
    BY DEF DeckInv, Numbered
  <2>2. \A i \in 1 .. n : s1[i].id = e + i
    BY <2>1 DEF DeckInv, Numbered
  <2>3. PICK ids : ids = {s1[i].id : i \in DOMAIN s1}
    OBVIOUS
  <2>4. ids = {e + i : i \in 1 .. n}
    BY <2>1, <2>2, <2>3
  <2>5. e + 1 .. s2 \subseteq ids
    <3> SUFFICES ASSUME NEW k \in e + 1 .. s2 PROVE k \in ids
      OBVIOUS
    <3>1. k - e \in 1 .. n /\ k = e + (k - e)
      BY <2>1
    <3> QED
      BY <2>4, <3>1
  <2>6. ids \subseteq e + 1 .. s2
    BY <2>1, <2>4
  <2>7. \A i, j \in DOMAIN s1 : i < j => s1[i].id < s1[j].id
    BY <2>1, <2>2
  <2>8. (e + 1 .. s2) \ s9 \subseteq ids
    BY <2>5
  <2> QED
    BY <2>3, <2>6, <2>7, <2>8 DEF Slides!SlidesInOrder
<1>2. ASSUME NEW i \in DOMAIN s1, NEW k \in DOMAIN s1[i].boxes PROVE s1[i].boxes[k] \in Box
  <2>1. s1[i] \in Slide
    BY DEF DeckInv
  <2>2. s1[i].boxes \in Seq(Box)
    BY <2>1 DEF Slide
  <2> QED
    BY <2>2
<1>3. Slides!BoxesFit
  <2> SUFFICES ASSUME NEW i \in DOMAIN s1, NEW k \in DOMAIN s1[i].boxes, NEW b, b = s1[i].boxes[k],
                      b.of = s8, b.place.width <= Slides!Width, b.place.height <= Slides!Height
               PROVE  /\ b.place.left >= 0 /\ b.place.left + b.place.width <= Slides!Width
                      /\ b.place.top >= 0 /\ b.place.top + b.place.height <= Slides!Height
    BY Zenon DEF Slides!BoxesFit
  <2>1. b \in Box
    BY <1>2
  <2>2. Slides!Width = WidthOf(b.of) /\ Slides!Height = HeightOf(b.of)
    BY Lengths
  <2> QED
    BY <2>1, <2>2, Zenon DEF Box
<1> QED
  BY <1>0, <1>1, <1>3

(* The slides keep the order that they were made in, whatever blocks fail, *)
(* and of those made since the deck was emptied last only ones whose block *)
(* raised may be missing (in this code they are not: BlocksRollBack);      *)
(* a box that is no greater than the slides lies on them until they are    *)
(* given another size; and the pages of one rendering are of the deck as   *)
(* it was at one time: for any sizes, and any number of slides and boxes   *)
(* (pptx, SlideContext, insertion_spacing and render_pages).               *)
THEOREM DecksHold == ValuesSpec => []DecksHoldTogether
<1> DEFINE Inv == part = "slides" => DeckInv
<1>1. Init => Inv
  BY DeckBegins DEF Init
<1>2. Inv /\ [Next]_valuesVars => Inv'
  <2>1. SUFFICES ASSUME Inv, [Next]_valuesVars, part' = "slides", part = "slides" PROVE DeckInv'
    BY DEF Next, valuesVars
  <2>2. CASE Slides!DeckNext
    BY <2>1, <2>2, DeckKeeps
  <2>3. CASE UNCHANGED valuesVars
    BY <2>1, <2>3, OthersKeep DEF valuesVars
  <2> QED
    BY <2>1, <2>2, <2>3 DEF Next
<1>3. Inv => DecksHoldTogether
  BY DeckHolds DEF DecksHoldTogether
<1> QED
  BY <1>1, <1>2, <1>3, PTL DEF ValuesSpec
-----------------------------------------------------------------------------
(* ProcessSettings: the hooks and the zone.                                *)

Hook == Settings!Consoles \cup {"plain", "theirs"}
Printing == [hook : [Switch -> Hook], saved : [Switch -> Hook \cup {None}]]

\* A hook and what is saved for it: always; and where no replace_print is about.
Weak(hook, saved) == saved \notin Settings!Consoles /\ (saved = None => hook \notin Settings!Consoles)
Told(hook, saved) ==
  /\ saved \in {None, "plain"}
  /\ saved # None <=> hook \in Settings!Consoles
  /\ saved = None => hook = "plain"

PrintingOK(p) ==
  /\ p \in Printing
  /\ \A s \in Switch \ {"print"} : Told(p.hook[s], p.saved[s])
  /\ Weak(p.hook["print"], p.saved["print"])
PrintTold(p) == Told(p.hook["print"], p.saved["print"])

\* What print was when a block was entered, which it is again when the block is left.
EntryHook(b) == IF b.kind = "block" THEN b.before.hook["print"] ELSE b.before
EntrySaved(b) == IF b.kind = "block" THEN b.before.saved["print"] ELSE b.inside[2]

Block == [kind : {"block"}, before : {p \in Printing : PrintingOK(p)}, inside : {None}]
         \cup {b \in [kind : {"replace"}, before : Hook, inside : (Hook \cup {None}) \X (Hook \cup {None})] :
                 Weak(b.before, b.inside[2])}

\* No block of replace_print among those from the k-th on.
NoneReplaced(open, k) == \A j \in DOMAIN open : j >= k => open[j].kind # "replace"

ConsoleInv ==
  ~s3 =>
    /\ PrintingOK(s1)
    /\ s2 \in Seq(Block)
    /\ NoneReplaced(s2, 1) => PrintTold(s1)
    /\ \A k \in DOMAIN s2 : NoneReplaced(s2, k + 1) => Told(EntryHook(s2[k]), EntrySaved(s2[k]))

LEMMA Hooks ==
  /\ "print" \in Switch /\ None \notin Hook /\ "CONSOLE" \in Settings!Consoles
  /\ "plain" \notin Settings!Consoles /\ "theirs" \notin Settings!Consoles /\ None \notin Settings!Consoles
  /\ None # "plain"
  /\ \A console \in Console \cup {None} : Settings!Resolved(console) \in Settings!Consoles
BY Assumptions DEF Settings!SettingsAssumption, Settings!Consoles, Settings!Resolved, Hook

LEMMA ConsoleBegins == Settings!SettingsInit => ConsoleInv
<1> SUFFICES ASSUME Settings!SettingsInit PROVE ConsoleInv
  OBVIOUS
<1>1. s1 = [hook |-> [s \in Switch |-> "plain"], saved |-> [s \in Switch |-> None]] /\ s2 = <<>>
  BY DEF Settings!SettingsInit
<1>2. s1 \in Printing /\ \A s \in Switch : s1.hook[s] = "plain" /\ s1.saved[s] = None
  BY <1>1 DEF Printing, Hook
<1>3. \A s \in Switch : Told(s1.hook[s], s1.saved[s])
  BY <1>2, Hooks DEF Told
<1>4. Weak(s1.hook["print"], s1.saved["print"])
  BY <1>2, Hooks DEF Weak
<1>5. PrintingOK(s1) /\ PrintTold(s1)
  BY <1>2, <1>3, <1>4, Hooks DEF PrintingOK, PrintTold
<1> QED
  BY <1>1, <1>5 DEF ConsoleInv

LEMMA ChangeTyped ==
  ASSUME NEW p \in Printing, NEW switches \in SUBSET Switch, NEW console \in Console \cup {None},
         NEW q, q = Settings!Rich(p, console, switches) \/ q = Settings!Plain(p, switches)
  PROVE  q \in Printing
<1>1. PICK resolved \in Settings!Consoles : resolved = Settings!Resolved(console)
  BY Hooks
<1>2. PICK hook \in [Switch -> Hook], saved \in [Switch -> Hook \cup {None}] : hook = p.hook /\ saved = p.saved
  BY DEF Printing
<1>3. CASE q = Settings!Rich(p, console, switches)
  <2>1. q = [hook |-> [s \in Switch |-> IF s \in {t \in switches : saved[t] = None} THEN resolved ELSE hook[s]],
             saved |-> [s \in Switch |-> IF s \in {t \in switches : saved[t] = None} THEN hook[s] ELSE saved[s]]]
    BY <1>1, <1>2, <1>3 DEF Settings!Rich
  <2>2. [s \in Switch |-> IF s \in {t \in switches : saved[t] = None} THEN resolved ELSE hook[s]] \in [Switch -> Hook]
    BY <1>1, <1>2 DEF Hook
  <2>3. [s \in Switch |-> IF s \in {t \in switches : saved[t] = None} THEN hook[s] ELSE saved[s]]
          \in [Switch -> Hook \cup {None}]
    BY <1>2
  <2> QED
    BY <2>1, <2>2, <2>3 DEF Printing
<1>4. CASE q = Settings!Plain(p, switches)
  <2>1. q = [hook |-> [s \in Switch |-> IF s \in {t \in switches : saved[t] # None} THEN saved[s] ELSE hook[s]],
             saved |-> [s \in Switch |-> IF s \in {t \in switches : saved[t] # None} THEN None ELSE saved[s]]]
    BY <1>2, <1>4 DEF Settings!Plain
  <2>2. [s \in Switch |-> IF s \in {t \in switches : saved[t] # None} THEN saved[s] ELSE hook[s]] \in [Switch -> Hook]
    BY <1>2
  <2>3. [s \in Switch |-> IF s \in {t \in switches : saved[t] # None} THEN None ELSE saved[s]]
          \in [Switch -> Hook \cup {None}]
    BY <1>2
  <2> QED
    BY <2>1, <2>2, <2>3 DEF Printing
<1> QED
  BY <1>3, <1>4

\* The two changes of hooks, of any printing, keep what is told.
LEMMA ChangeKeeps ==
  ASSUME NEW p, PrintingOK(p), NEW switches \in SUBSET Switch, NEW console \in Console \cup {None},
         NEW q, q = Settings!Rich(p, console, switches) \/ q = Settings!Plain(p, switches)
  PROVE  PrintingOK(q) /\ (PrintTold(p) => PrintTold(q))
<1>r. PICK resolved \in Settings!Consoles : resolved = Settings!Resolved(console)
  BY Hooks
<1>h. PICK hook, saved : hook = p.hook /\ saved = p.saved
  OBVIOUS
<1>0. hook \in [Switch -> Hook] /\ saved \in [Switch -> Hook \cup {None}]
  BY <1>h DEF PrintingOK, Printing
<1>1. CASE q = Settings!Rich(p, console, switches)
  <2>1. q = [hook |-> [s \in Switch |-> IF s \in {t \in switches : saved[t] = None} THEN resolved ELSE hook[s]],
             saved |-> [s \in Switch |-> IF s \in {t \in switches : saved[t] = None} THEN hook[s] ELSE saved[s]]]
    BY <1>1, <1>r, <1>h DEF Settings!Rich
  <2>2. \A s \in Switch : \/ q.hook[s] = hook[s] /\ q.saved[s] = saved[s]
                          \/ saved[s] = None /\ q.hook[s] = resolved /\ q.saved[s] = hook[s]
    BY <2>1
  <2>3. q \in Printing
    BY ChangeTyped DEF PrintingOK
  <2>4. ASSUME NEW s \in Switch PROVE /\ Told(hook[s], saved[s]) => Told(q.hook[s], q.saved[s])
                                      /\ Weak(hook[s], saved[s]) => Weak(q.hook[s], q.saved[s])
    <3>1. hook[s] # None
      BY <1>0, Hooks
    <3> QED
      BY <2>2, <3>1, Hooks DEF Told, Weak
  <2> QED
    BY <1>h, <2>3, <2>4, Hooks DEF PrintingOK, PrintTold
<1>2. CASE q = Settings!Plain(p, switches)
  <2>1. q = [hook |-> [s \in Switch |-> IF s \in {t \in switches : saved[t] # None} THEN saved[s] ELSE hook[s]],
             saved |-> [s \in Switch |-> IF s \in {t \in switches : saved[t] # None} THEN None ELSE saved[s]]]
    BY <1>2, <1>h DEF Settings!Plain
  <2>2. \A s \in Switch : \/ q.hook[s] = hook[s] /\ q.saved[s] = saved[s]
                          \/ saved[s] # None /\ q.hook[s] = saved[s] /\ q.saved[s] = None
    BY <2>1
  <2>3. q \in Printing
    BY ChangeTyped DEF PrintingOK
  <2>4. ASSUME NEW s \in Switch PROVE /\ Told(hook[s], saved[s]) => Told(q.hook[s], q.saved[s])
                                      /\ Weak(hook[s], saved[s]) => Weak(q.hook[s], q.saved[s])
    BY <2>2, Hooks DEF Told, Weak
  <2> QED
    BY <1>h, <2>3, <2>4, Hooks DEF PrintingOK, PrintTold
<1> QED
  BY <1>1, <1>2

\* A sequence with an element before it, and one without its first.
LEMMA Pushed ==
  ASSUME NEW S, NEW s \in Seq(S), NEW e \in S, NEW t, t = <<e>> \o s
  PROVE  /\ t \in Seq(S) /\ Len(t) = Len(s) + 1 /\ t[1] = e /\ 1 \in DOMAIN t
         /\ \A k \in DOMAIN s : k + 1 \in DOMAIN t /\ t[k + 1] = s[k]
         /\ \A k \in DOMAIN t : k = 1 \/ (k - 1 \in DOMAIN s /\ t[k] = s[k - 1])
<1>1. PICK n \in Nat : n = Len(s) /\ DOMAIN s = 1 .. n
  OBVIOUS
<1>2. t \in Seq(S) /\ Len(t) = n + 1
  BY <1>1
<1>3. DOMAIN t = 1 .. n + 1
  BY <1>1, <1>2
<1>4. t[1] = e
  BY <1>1
<1>5. \A k \in 1 .. n : t[k + 1] = s[k]
  BY <1>1
<1>6. \A k \in 1 .. n + 1 : k = 1 \/ (k - 1 \in 1 .. n /\ t[k] = s[k - 1])
  BY <1>1
<1> QED
  BY <1>1, <1>2, <1>3, <1>4, <1>5, <1>6

LEMMA Popped ==
  ASSUME NEW S, NEW s \in Seq(S), 1 \in DOMAIN s, NEW t, t = SubSeq(s, 2, Len(s))
  PROVE  /\ t \in Seq(S) /\ Len(t) = Len(s) - 1
         /\ \A k \in DOMAIN t : k + 1 \in DOMAIN s /\ t[k] = s[k + 1]
         /\ \A k \in DOMAIN s : k = 1 \/ (k - 1 \in DOMAIN t /\ s[k] = t[k - 1])
<1>1. PICK n \in Nat : n = Len(s) /\ DOMAIN s = 1 .. n /\ n >= 1
  OBVIOUS
<1>2. t \in Seq(S) /\ Len(t) = n - 1
  BY <1>1
<1>3. DOMAIN t = 1 .. n - 1
  BY <1>1, <1>2
<1>4. \A k \in 1 .. n - 1 : t[k] = s[k + 1]
  BY <1>1
<1> QED
  BY <1>1, <1>2, <1>3, <1>4

\* A block is entered: what it keeps is what print is now.
LEMMA BlockEntered ==
  ASSUME ConsoleInv, ~s3, NEW b \in Block, s2' = <<b>> \o s2,
         EntryHook(b) = s1.hook["print"], EntrySaved(b) = s1.saved["print"],
         PrintingOK(s1'), b.kind = "block" => (PrintTold(s1) => PrintTold(s1'))
  PROVE  ConsoleInv'
<1>1. s2 \in Seq(Block)
  BY DEF ConsoleInv
<1>2. /\ s2' \in Seq(Block) /\ Len(s2') = Len(s2) + 1 /\ s2'[1] = b
      /\ \A k \in DOMAIN s2 : k + 1 \in DOMAIN s2' /\ s2'[k + 1] = s2[k]
      /\ \A k \in DOMAIN s2' : k = 1 \/ (k - 1 \in DOMAIN s2 /\ s2'[k] = s2[k - 1])
  <2>1. PICK t : t = s2'
    OBVIOUS
  <2> QED
    BY <1>1, <2>1, Pushed
<1>3. DOMAIN s2 \subseteq Nat \ {0} /\ DOMAIN s2' \subseteq Nat \ {0} /\ 1 \in DOMAIN s2'
  BY <1>1, <1>2
<1>4. ASSUME NEW k \in Nat, NoneReplaced(s2', k + 1) PROVE NoneReplaced(s2, k)
  <2> SUFFICES ASSUME NEW j \in DOMAIN s2, j >= k PROVE s2[j].kind # "replace"
    BY DEF NoneReplaced
  <2>1. j + 1 \in DOMAIN s2' /\ s2'[j + 1] = s2[j] /\ j + 1 >= k + 1
    BY <1>2, <1>3
  <2> QED
    BY <1>4, <2>1 DEF NoneReplaced
<1>5. NoneReplaced(s2', 1)  => PrintTold(s1')
  <2> SUFFICES ASSUME NoneReplaced(s2', 1) PROVE PrintTold(s1')
    OBVIOUS
  <2>1. b.kind = "block"
    <3>1. b.kind # "replace"
      BY <1>2, <1>3 DEF NoneReplaced
    <3> QED
      BY <3>1 DEF Block
  <2>2. NoneReplaced(s2, 1)
    <3>1. NoneReplaced(s2', 1 + 1)
      BY <1>3 DEF NoneReplaced
    <3> QED
      BY <1>4, <3>1
  <2> QED
    BY <2>1, <2>2 DEF ConsoleInv
<1>6. ASSUME NEW k \in DOMAIN s2', NoneReplaced(s2', k + 1)
      PROVE  Told(EntryHook(s2'[k]), EntrySaved(s2'[k]))
  <2>1. NoneReplaced(s2, k)
    BY <1>3, <1>4, <1>6
  <2>2. CASE k = 1
    <3>1. PrintTold(s1)
      BY <2>1, <2>2 DEF ConsoleInv
    <3> QED
      BY <1>2, <2>2, <3>1 DEF PrintTold
  <2>3. CASE k # 1
    <3>1. k - 1 \in DOMAIN s2 /\ s2'[k] = s2[k - 1] /\ NoneReplaced(s2, (k - 1) + 1)
      BY <1>2, <1>3, <2>1, <2>3
    <3> QED
      BY <3>1 DEF ConsoleInv
  <2> QED
    BY <2>2, <2>3
<1> QED
  BY <1>2, <1>5, <1>6 DEF ConsoleInv

LEMMA SetupKeeps ==
  ASSUME ConsoleInv, ~s3', NEW switches \in SUBSET Switch, NEW console \in Console \cup {None},
         Settings!SetupPrinting(console, switches) \/ Settings!TeardownPrinting(switches)
  PROVE  ConsoleInv'
<1>1. /\ s2' = s2 /\ s3' = s3
      /\ s1' = Settings!Rich(s1, console, switches) \/ s1' = Settings!Plain(s1, switches)
  BY DEF Settings!SetupPrinting, Settings!TeardownPrinting, Settings!Called
<1>2. PICK q : q = s1'
  OBVIOUS
<1>3. PrintingOK(q) /\ (PrintTold(s1) => PrintTold(q))
  BY <1>1, <1>2, ChangeKeeps DEF ConsoleInv
<1> QED
  BY <1>1, <1>2, <1>3 DEF ConsoleInv

LEMMA BlockKeeps ==
  ASSUME ConsoleInv, ~s3', NEW switches \in SUBSET Switch, NEW console \in Console \cup {None},
         Settings!RichPrinting(console, switches) \/ Settings!PlainPrinting(switches)
  PROVE  ConsoleInv'
<1>b. PICK b : b = [kind |-> "block", before |-> s1, inside |-> None]
  OBVIOUS
<1>1. /\ s2' = <<b>> \o s2 /\ s3' = s3
      /\ s1' = Settings!Rich(s1, console, switches) \/ s1' = Settings!Plain(s1, switches)
  BY <1>b DEF Settings!RichPrinting, Settings!PlainPrinting, Settings!OpenedBlock, Settings!Opened
<1>2. PICK q : q = s1'
  OBVIOUS
<1>3. PrintingOK(q) /\ (PrintTold(s1) => PrintTold(q))
  BY <1>1, <1>2, ChangeKeeps DEF ConsoleInv
<1>4. b \in Block /\ EntryHook(b) = s1.hook["print"] /\ EntrySaved(b) = s1.saved["print"]
  BY <1>1, <1>b DEF ConsoleInv, Block, EntryHook, EntrySaved, PrintingOK
<1> QED
  BY <1>1, <1>2, <1>3, <1>4, BlockEntered

LEMMA ReplaceKeeps ==
  ASSUME ConsoleInv, ~s3', NEW method \in {None, "theirs"}, Settings!ReplacePrint(method)
  PROVE  ConsoleInv'
<1>b. PICK b : b = [kind |-> "replace", before |-> s1.hook["print"],
                    inside |-> <<s1'.hook["print"], s1'.saved["print"]>>]
  OBVIOUS
<1>1. /\ s2' = <<b>> \o s2 /\ s3' = s3
      /\ s1' = IF method = None THEN s1 ELSE [s1 EXCEPT !.hook["print"] = method]
  BY <1>b DEF Settings!ReplacePrint, Settings!Opened
<1>2. PrintingOK(s1) /\ s1 \in Printing /\ Weak(s1.hook["print"], s1.saved["print"])
  BY <1>1 DEF ConsoleInv, PrintingOK
<1>3. PICK hook, saved : /\ s1 = [hook |-> hook, saved |-> saved] /\ hook \in [Switch -> Hook]
                         /\ saved \in [Switch -> Hook \cup {None}] /\ s1.hook = hook /\ s1.saved = saved
  BY <1>2 DEF Printing
<1>4. PICK new : /\ new \in [Switch -> Hook] /\ s1' = [hook |-> new, saved |-> saved]
                 /\ \A s \in Switch \ {"print"} : new[s] = hook[s]
                 /\ new["print"] \in {hook["print"], "theirs"}
  <2>1. CASE method = None
    BY <1>1, <1>3, <2>1
  <2>2. CASE method # None
    <3>1. PICK new : new = [hook EXCEPT !["print"] = "theirs"]
      OBVIOUS
    <3>2. s1' = [hook |-> new, saved |-> saved]
      BY <1>1, <1>3, <2>2, <3>1
    <3>3. new \in [Switch -> Hook] /\ \A s \in Switch \ {"print"} : new[s] = hook[s]
      BY <1>3, <3>1 DEF Hook
    <3>4. new["print"] = "theirs"
      BY <1>3, <3>1, Hooks
    <3> QED
      BY <3>2, <3>3, <3>4
  <2> QED
    BY <2>1, <2>2
<1>5. s1'.hook = new /\ s1'.saved = saved
  BY <1>4
<1>6. PrintingOK(s1')
  <2>1. s1' \in Printing
    BY <1>3, <1>4 DEF Printing
  <2>2. Weak(new["print"], saved["print"])
    BY <1>2, <1>3, <1>4, Hooks DEF Weak
  <2> QED
    BY <1>2, <1>3, <1>4, <1>5, <2>1, <2>2 DEF PrintingOK
<1>7. b \in Block /\ EntryHook(b) = s1.hook["print"] /\ EntrySaved(b) = s1.saved["print"] /\ b.kind = "replace"
  <2>1. PICK pair : pair = <<new["print"], saved["print"]>>
    OBVIOUS
  <2>2. b = [kind |-> "replace", before |-> hook["print"], inside |-> pair]
    BY <1>b, <1>3, <1>5, <2>1
  <2>3. pair \in (Hook \cup {None}) \X (Hook \cup {None}) /\ pair[2] = saved["print"] /\ hook["print"] \in Hook
    BY <1>3, <1>4, <2>1, Hooks
  <2> QED
    BY <1>2, <1>3, <2>2, <2>3 DEF Block, EntryHook, EntrySaved
<1> QED
  BY <1>1, <1>6, <1>7, BlockEntered

\* The innermost block is left: print is what it was at its entry.
LEMMA LeaveKeeps ==
  ASSUME ConsoleInv, ~s3', NEW k \in DOMAIN s2, Settings!LeaveBlock(k)
  PROVE  ConsoleInv'
<1>b. PICK b : b = s2[k]
  OBVIOUS
<1>1. /\ ~s3 /\ k = 1
      /\ b.kind = "replace" => b.inside = <<s1.hook["print"], s1.saved["print"]>>
  BY <1>b DEF Settings!LeaveBlock
<1>2. s2 \in Seq(Block) /\ b \in Block /\ PrintingOK(s1)
  BY <1>b, <1>1 DEF ConsoleInv
<1>3. s2' = SubSeq(s2, 2, Len(s2))
  <2>1. s2' = SubSeq(s2, 1, 0) \o SubSeq(s2, 2, Len(s2))
    BY <1>1 DEF Settings!LeaveBlock, Settings!RemoveAt
  <2>2. SubSeq(s2, 1, 0) = <<>>
    BY <1>2
  <2>3. SubSeq(s2, 2, Len(s2)) \in Seq(Block)
    BY <1>2
  <2> QED
    BY <2>1, <2>2, <2>3
<1>4. /\ s2' \in Seq(Block) /\ Len(s2') = Len(s2) - 1
      /\ \A j \in DOMAIN s2' : j + 1 \in DOMAIN s2 /\ s2'[j] = s2[j + 1]
      /\ \A j \in DOMAIN s2 : j = 1 \/ (j - 1 \in DOMAIN s2' /\ s2[j] = s2'[j - 1])
  <2>1. PICK t : t = s2'
    OBVIOUS
  <2>2. 1 \in DOMAIN s2 /\ t = SubSeq(s2, 2, Len(s2))
    BY <1>1, <1>3, <2>1
  <2>3. /\ t \in Seq(Block) /\ Len(t) = Len(s2) - 1
        /\ \A j \in DOMAIN t : j + 1 \in DOMAIN s2 /\ t[j] = s2[j + 1]
        /\ \A j \in DOMAIN s2 : j = 1 \/ (j - 1 \in DOMAIN t /\ s2[j] = t[j - 1])
    <3>1. PICK S : S = Block
      OBVIOUS
    <3>2. PICK old \in Seq(S) : old = s2
      BY <1>2, <3>1
    <3>3. 1 \in DOMAIN old /\ t = SubSeq(old, 2, Len(old))
      BY <2>2, <3>2
    <3>4. t \in Seq(S) /\ Len(t) = Len(old) - 1
      BY <3>3, Popped
    <3>5. \A j \in DOMAIN t : j + 1 \in DOMAIN old /\ t[j] = old[j + 1]
      BY <3>3, Popped
    <3>6. \A j \in DOMAIN old : j = 1 \/ (j - 1 \in DOMAIN t /\ old[j] = t[j - 1])
      BY <3>3, Popped
    <3> QED
      BY <3>1, <3>2, <3>4, <3>5, <3>6
  <2> QED
    BY <2>1, <2>3
<1>5. PrintingOK(s1') /\ s1'.hook["print"] = EntryHook(b) /\ s1'.saved["print"] = EntrySaved(b)
  <2>1. CASE b.kind = "block"
    <3>1. s1' = b.before
      BY <1>b, <2>1 DEF Settings!LeaveBlock, Settings!Restored
    <3>2. PrintingOK(b.before)
      BY <1>2, <2>1 DEF Block
    <3> QED
      BY <2>1, <3>1, <3>2 DEF EntryHook, EntrySaved
  <2>2. CASE b.kind # "block"
    <3>1. b.kind = "replace" /\ b.before \in Hook /\ Weak(b.before, b.inside[2])
      BY <1>2, <2>2 DEF Block
    <3>2. b.inside[2] = s1.saved["print"]
      BY <1>1, <3>1
    <3>3. PICK hook, saved : /\ s1 = [hook |-> hook, saved |-> saved] /\ hook \in [Switch -> Hook]
                             /\ saved \in [Switch -> Hook \cup {None}] /\ s1.hook = hook /\ s1.saved = saved
      BY <1>2 DEF PrintingOK, Printing
    <3>4. PICK new : new = [hook EXCEPT !["print"] = b.before]
      OBVIOUS
    <3>5. s1' = [hook |-> new, saved |-> saved]
      BY <1>b, <2>2, <3>3, <3>4 DEF Settings!LeaveBlock, Settings!Restored
    <3>6. /\ new \in [Switch -> Hook] /\ new["print"] = b.before
          /\ \A s \in Switch \ {"print"} : new[s] = hook[s]
      BY <3>1, <3>3, <3>4, Hooks
    <3>7. s1' \in Printing /\ s1'.hook = new /\ s1'.saved = saved
      BY <3>3, <3>5, <3>6 DEF Printing
    <3>8. PrintingOK(s1')
      BY <1>2, <3>1, <3>2, <3>3, <3>6, <3>7 DEF PrintingOK
    <3> QED
      BY <2>2, <3>2, <3>3, <3>6, <3>7, <3>8 DEF EntryHook, EntrySaved
  <2> QED
    BY <2>1, <2>2
<1>6. ASSUME NEW j \in Nat \ {0}, NoneReplaced(s2', j) PROVE NoneReplaced(s2, j + 1)
  <2> SUFFICES ASSUME NEW i \in DOMAIN s2, i >= j + 1 PROVE s2[i].kind # "replace"
    BY DEF NoneReplaced
  <2>1. i \in Nat /\ i >= 1
    BY <1>2
  <2>2. CASE i = 1
    BY <2>1, <2>2
  <2>3. CASE i # 1
    <3>1. i - 1 \in DOMAIN s2' /\ s2[i] = s2'[i - 1] /\ i - 1 >= j
      BY <1>4, <2>1, <2>3
    <3> QED
      BY <1>6, <3>1 DEF NoneReplaced
  <2> QED
    BY <2>2, <2>3
<1>7. NoneReplaced(s2', 1) => PrintTold(s1')
  <2> SUFFICES ASSUME NoneReplaced(s2', 1) PROVE PrintTold(s1')
    OBVIOUS
  <2>1. NoneReplaced(s2, k + 1)
    BY <1>1, <1>6
  <2>2. Told(EntryHook(b), EntrySaved(b))
    BY <1>b, <1>1, <2>1 DEF ConsoleInv
  <2> QED
    BY <1>5, <2>2 DEF PrintTold
<1>8. ASSUME NEW j \in DOMAIN s2', NoneReplaced(s2', j + 1) PROVE Told(EntryHook(s2'[j]), EntrySaved(s2'[j]))
  <2>1. j \in Nat /\ j + 1 \in DOMAIN s2 /\ s2'[j] = s2[j + 1]
    BY <1>4
  <2>2. NoneReplaced(s2, (j + 1) + 1)
    BY <1>6, <1>8, <2>1
  <2> QED
    BY <1>1, <2>1, <2>2 DEF ConsoleInv
<1> QED
  BY <1>4, <1>5, <1>7, <1>8 DEF ConsoleInv

LEMMA ConsoleKeeps ==
  ASSUME ConsoleInv, Settings!ConsoleNext
  PROVE  ConsoleInv'
<1> SUFFICES ASSUME ~s3' PROVE ConsoleInv'
  BY DEF ConsoleInv
<1>1. \A switches \in {Switch, {"print"}} : switches \in SUBSET Switch
  BY Hooks
<1>2. ASSUME NEW switches \in SUBSET Switch, NEW console \in Console \cup {None},
             \/ Settings!SetupPrinting(console, switches) \/ Settings!TeardownPrinting(switches)
             \/ Settings!RichPrinting(console, switches) \/ Settings!PlainPrinting(switches)
      PROVE  ConsoleInv'
  BY <1>2, SetupKeeps, BlockKeeps
<1>3. ASSUME NEW method \in {None, "theirs"}, Settings!ReplacePrint(method) PROVE ConsoleInv'
  BY <1>3, ReplaceKeeps
<1>4. ASSUME NEW k \in DOMAIN s2, Settings!LeaveBlock(k) PROVE ConsoleInv'
  BY <1>4, LeaveKeeps
<1> QED
  BY <1>1, <1>2, <1>3, <1>4 DEF Settings!ConsoleNext

LEMMA PrintingTold == ConsoleInv => Settings!PrintingIsTold
<1> SUFFICES ASSUME ConsoleInv, ~s3, NEW s \in Switch
             PROVE  /\ s1.saved[s] \notin Settings!Consoles
                    /\ s # "print" \/ (\A k \in DOMAIN s2 : s2[k].kind # "replace") =>
                         /\ s1.saved[s] # None <=> s1.hook[s] \in Settings!Consoles
                         /\ Settings!PrintsTo(s1.hook[s], TRUE) = "plain"
  BY DEF Settings!PrintingIsTold
<1>1. PICK hook, saved : hook = s1.hook[s] /\ saved = s1.saved[s]
  OBVIOUS
<1>2. s # "print" \/ (\A k \in DOMAIN s2 : s2[k].kind # "replace") => Told(hook, saved)
  <2>1. CASE s # "print"
    BY <1>1, <2>1 DEF ConsoleInv, PrintingOK
  <2>2. CASE s = "print" /\ \A k \in DOMAIN s2 : s2[k].kind # "replace"
    <3>1. NoneReplaced(s2, 1)
      BY <2>2 DEF NoneReplaced
    <3> QED
      BY <1>1, <2>2, <3>1 DEF ConsoleInv, PrintTold
  <2> QED
    BY <2>1, <2>2
<1>3. saved \notin Settings!Consoles
  <2>1. CASE s = "print"
    BY <1>1, <2>1 DEF ConsoleInv, PrintingOK, Weak
  <2>2. CASE s # "print"
    BY <1>2, <2>2, Hooks DEF Told
  <2> QED
    BY <2>1, <2>2
<1>4. Told(hook, saved) => (saved # None <=> hook \in Settings!Consoles) /\ Settings!PrintsTo(hook, TRUE) = "plain"
  BY Hooks DEF Told, Settings!PrintsTo
<1> QED
  BY <1>1, <1>2, <1>3, <1>4

\* What leaving every open block in order makes of printing p is q: the bottom block puts
\* q back, and the deepest that keeps all the hooks, or p without one, has the rest of q.
Frame == [kind : {"block"}, before : Printing, inside : {None}]
         \cup [kind : {"replace"}, before : Hook, inside : (Hook \cup {None}) \X (Hook \cup {None})]
Alike(p, q) == p.saved = q.saved /\ \A s \in Switch \ {"print"} : p.hook[s] = q.hook[s]
AllReplace(open, k) == \A j \in DOMAIN open : j > k => open[j].kind = "replace"

LeavesAt(p, open, q) ==
  /\ p \in Printing /\ q \in Printing /\ open \in Seq(Frame)
  /\ Len(open) = 0 => p = q
  /\ \A k \in DOMAIN open : k = Len(open) =>
       open[k].before = IF open[k].kind = "block" THEN q ELSE q.hook["print"]
  /\ AllReplace(open, 0) => Alike(p, q)
  /\ \A k \in DOMAIN open : open[k].kind = "block" /\ AllReplace(open, k) => Alike(open[k].before, q)

SettledInv ==
  /\ s1 \in Printing /\ s2 \in Seq(Frame)
  /\ s11 # None => LeavesAt(s1, s2, s11)

LEMMA SettledBegins == Settings!SettingsInit => SettledInv
<1> SUFFICES ASSUME Settings!SettingsInit PROVE SettledInv
  OBVIOUS
<1>1. s1 = [hook |-> [s \in Switch |-> "plain"], saved |-> [s \in Switch |-> None]] /\ s2 = <<>> /\ s11 = s1
  BY DEF Settings!SettingsInit
<1>2. s1 \in Printing
  BY <1>1 DEF Printing, Hook
<1>3. LeavesAt(s1, s2, s11)
  BY <1>1, <1>2 DEF LeavesAt, Alike
<1> QED
  BY <1>1, <1>2, <1>3 DEF SettledInv

LEMMA LeavesPushed ==
  ASSUME NEW p, NEW open, NEW q, LeavesAt(p, open, q), NEW r \in Printing, NEW b \in Frame, NEW t, t = <<b>> \o open,
         \/ b.kind = "block" /\ b.before = p
         \/ b.kind = "replace" /\ b.before = p.hook["print"] /\ Alike(r, p)
  PROVE  LeavesAt(r, t, q)
<1>1. open \in Seq(Frame) /\ p \in Printing /\ q \in Printing
  BY DEF LeavesAt
<1>2. PICK n \in Nat : n = Len(open) /\ DOMAIN open = 1 .. n
  BY <1>1
<1>3. /\ t \in Seq(Frame) /\ Len(t) = n + 1 /\ DOMAIN t = 1 .. n + 1 /\ t[1] = b
      /\ \A k \in 1 .. n : t[k + 1] = open[k]
      /\ \A k \in 1 .. n + 1 : k = 1 \/ (k - 1 \in 1 .. n /\ t[k] = open[k - 1])
  <2>1. PICK S : S = Frame
    OBVIOUS
  <2>2. PICK s \in Seq(S) : s = open
    BY <1>1, <2>1
  <2>3. /\ t \in Seq(S) /\ Len(t) = Len(s) + 1 /\ t[1] = b
        /\ \A k \in DOMAIN s : k + 1 \in DOMAIN t /\ t[k + 1] = s[k]
        /\ \A k \in DOMAIN t : k = 1 \/ (k - 1 \in DOMAIN s /\ t[k] = s[k - 1])
    BY <2>1, <2>2, Pushed
  <2>4. DOMAIN t = 1 .. n + 1
    BY <1>2, <2>2, <2>3
  <2> QED
    BY <1>2, <2>1, <2>2, <2>3, <2>4
<1>4. ASSUME NEW k \in 0 .. n, AllReplace(t, k + 1) PROVE AllReplace(open, k)
  <2> SUFFICES ASSUME NEW j \in 1 .. n, j > k PROVE open[j].kind = "replace"
    BY <1>2 DEF AllReplace
  <2>1. j + 1 \in DOMAIN t /\ t[j + 1] = open[j] /\ j + 1 > k + 1
    BY <1>3
  <2> QED
    BY <1>4, <2>1 DEF AllReplace
<1>5. n = 0 => p = q
  BY <1>2 DEF LeavesAt
<1>6. ASSUME NEW k \in DOMAIN t, k = Len(t) PROVE t[k].before = IF t[k].kind = "block" THEN q ELSE q.hook["print"]
  <2>1. CASE n = 0
    BY <1>3, <1>5, <1>6, <2>1
  <2>2. CASE n # 0
    <3>1. n \in DOMAIN open /\ t[k] = open[n]
      BY <1>2, <1>3, <1>6, <2>2
    <3> QED
      BY <1>2, <3>1 DEF LeavesAt
  <2> QED
    BY <2>1, <2>2
<1>7. AllReplace(open, 0) => Alike(p, q)
  BY DEF LeavesAt
<1>8. ASSUME AllReplace(t, 0) PROVE Alike(r, q)
  <2>1. b.kind = "replace"
    BY <1>3, <1>8 DEF AllReplace
  <2>2. AllReplace(t, 0 + 1)
    BY <1>3, <1>8 DEF AllReplace
  <2>3. AllReplace(open, 0)
    BY <1>4, <2>2
  <2> QED
    BY <1>7, <2>1, <2>3 DEF Alike
<1>9. ASSUME NEW k \in DOMAIN t, t[k].kind = "block", AllReplace(t, k) PROVE Alike(t[k].before, q)
  <2>1. k - 1 \in 0 .. n /\ k = (k - 1) + 1
    BY <1>3
  <2>2. AllReplace(open, k - 1)
    BY <1>4, <1>9, <2>1
  <2>3. CASE k = 1
    <3>1. Alike(p, q)
      BY <1>7, <2>2, <2>3
    <3> QED
      BY <1>3, <1>9, <2>3, <3>1
  <2>4. CASE k # 1
    <3>1. k - 1 \in DOMAIN open /\ t[k] = open[k - 1]
      BY <1>2, <1>3, <2>4
    <3> QED
      BY <1>9, <2>2, <3>1 DEF LeavesAt
  <2> QED
    BY <2>3, <2>4
<1>10. Len(t) # 0
  BY <1>2, <1>3
<1> QED
  BY <1>1, <1>3, <1>6, <1>8, <1>9, <1>10 DEF LeavesAt

LEMMA LeavesPopped ==
  ASSUME NEW p, NEW open, NEW q, LeavesAt(p, open, q), NEW r \in Printing, 1 \in DOMAIN open,
         NEW t, t = SubSeq(open, 2, Len(open)),
         \/ open[1].kind = "block" /\ r = open[1].before
         \/ open[1].kind = "replace" /\ r.hook["print"] = open[1].before /\ Alike(r, p)
  PROVE  LeavesAt(r, t, q)
<1>1. open \in Seq(Frame) /\ p \in Printing /\ q \in Printing
  BY DEF LeavesAt
<1>2. PICK n \in Nat : n = Len(open) /\ DOMAIN open = 1 .. n /\ n >= 1
  BY <1>1
<1>3. /\ t \in Seq(Frame) /\ Len(t) = n - 1 /\ DOMAIN t = 1 .. n - 1
      /\ \A k \in 1 .. n - 1 : t[k] = open[k + 1]
  <2>1. PICK S : S = Frame
    OBVIOUS
  <2>2. PICK s \in Seq(S) : s = open
    BY <1>1, <2>1
  <2>3. 1 \in DOMAIN s /\ t = SubSeq(s, 2, Len(s))
    BY <2>2
  <2>4. t \in Seq(S) /\ Len(t) = Len(s) - 1
    BY <2>3, Popped
  <2>5. n = Len(s) /\ DOMAIN s = 1 .. n
    BY <1>2, <2>2
  <2>6. DOMAIN t = 1 .. n - 1
    BY <2>4, <2>5
  <2>7. \A k \in 1 .. n - 1 : t[k] = s[k + 1]
    BY <2>3, <2>5
  <2> QED
    BY <1>2, <2>1, <2>2, <2>4, <2>5, <2>6, <2>7
<1>4. ASSUME NEW k \in 0 .. n - 1, AllReplace(t, k) PROVE AllReplace(open, k + 1)
  <2> SUFFICES ASSUME NEW j \in 1 .. n, j > k + 1 PROVE open[j].kind = "replace"
    BY <1>2 DEF AllReplace
  <2>1. j - 1 \in 1 .. n - 1 /\ t[j - 1] = open[(j - 1) + 1] /\ j - 1 > k /\ (j - 1) + 1 = j
    BY <1>3
  <2> QED
    BY <1>3, <1>4, <2>1 DEF AllReplace
<1>5. AllReplace(open, 0) => Alike(p, q)
  BY DEF LeavesAt
<1>6. open[1].kind = "block" /\ AllReplace(open, 1) => Alike(open[1].before, q)
  BY <1>2 DEF LeavesAt
<1>7. ASSUME AllReplace(t, 0) PROVE Alike(r, q)
  <2>1. AllReplace(open, 1)
    <3>1. AllReplace(open, 0 + 1)
      BY <1>2, <1>4, <1>7
    <3> QED
      BY <3>1
  <2>2. CASE open[1].kind = "block"
    BY <1>6, <2>1, <2>2
  <2>3. CASE open[1].kind = "replace"
    <3>1. AllReplace(open, 0)
      BY <1>2, <2>1, <2>3 DEF AllReplace
    <3> QED
      BY <1>5, <2>3, <3>1 DEF Alike
  <2> QED
    BY <2>2, <2>3
<1>8. ASSUME Len(t) = 0 PROVE r = q
  <2>1. n = 1
    BY <1>2, <1>3, <1>8
  <2>2. open[1].before = IF open[1].kind = "block" THEN q ELSE q.hook["print"]
    BY <1>2, <2>1 DEF LeavesAt
  <2>3. CASE open[1].kind = "block"
    BY <2>2, <2>3
  <2>4. CASE open[1].kind = "replace"
    <3>1. AllReplace(t, 0)
      BY <1>3, <2>1 DEF AllReplace
    <3>2. Alike(r, q) /\ r.hook["print"] = q.hook["print"]
      BY <1>7, <2>2, <2>4, <3>1
    <3>3. r.saved = q.saved /\ \A s \in Switch : r.hook[s] = q.hook[s]
      BY <3>2 DEF Alike
    <3>4. r.hook \in [Switch -> Hook] /\ q.hook \in [Switch -> Hook]
      BY <1>1 DEF Printing
    <3>5. r.hook = q.hook
      BY <3>3, <3>4
    <3> QED
      BY <1>1, <3>3, <3>5 DEF Printing
  <2> QED
    BY <2>3, <2>4
<1>9. ASSUME NEW k \in DOMAIN t, k = Len(t) PROVE t[k].before = IF t[k].kind = "block" THEN q ELSE q.hook["print"]
  <2>1. k + 1 = n /\ n \in DOMAIN open /\ t[k] = open[n]
    BY <1>2, <1>3, <1>9
  <2> QED
    BY <1>2, <2>1 DEF LeavesAt
<1>10. ASSUME NEW k \in DOMAIN t, t[k].kind = "block", AllReplace(t, k) PROVE Alike(t[k].before, q)
  <2>1. k + 1 \in DOMAIN open /\ t[k] = open[k + 1] /\ AllReplace(open, k + 1)
    BY <1>2, <1>3, <1>4, <1>10
  <2> QED
    BY <1>10, <2>1 DEF LeavesAt
<1> QED
  BY <1>1, <1>3, <1>7, <1>8, <1>9, <1>10 DEF LeavesAt

LEMMA CallSettles ==
  ASSUME SettledInv, NEW switches \in SUBSET Switch, NEW console \in Console \cup {None},
         Settings!SetupPrinting(console, switches) \/ Settings!TeardownPrinting(switches)
  PROVE  SettledInv'
<1>1. /\ s2' = s2 /\ s11' = IF s2 = <<>> THEN s1' ELSE IF Settings!InBlock THEN s11 ELSE None
      /\ s1' = Settings!Rich(s1, console, switches) \/ s1' = Settings!Plain(s1, switches)
  BY DEF Settings!SetupPrinting, Settings!TeardownPrinting, Settings!Called
<1>2. s1 \in Printing /\ s2 \in Seq(Frame)
  BY DEF SettledInv
<1>3. s1' \in Printing
  <2>1. PICK q : q = s1'
    OBVIOUS
  <2> QED
    BY <1>1, <1>2, <2>1, ChangeTyped
<1>4. CASE s2 = <<>>
  BY <1>1, <1>2, <1>3, <1>4 DEF SettledInv, LeavesAt, Alike
<1>5. CASE s2 # <<>> /\ ~Settings!InBlock
  BY <1>1, <1>2, <1>3, <1>5 DEF SettledInv
<1>6. CASE s2 # <<>> /\ Settings!InBlock
  <2> SUFFICES ASSUME s11 # None PROVE LeavesAt(s1', s2, s11)
    BY <1>1, <1>2, <1>3, <1>6 DEF SettledInv
  <2>1. LeavesAt(s1, s2, s11)
    BY DEF SettledInv
  <2>2. Len(s2) # 0
    BY <1>2, <1>6
  <2>3. ~AllReplace(s2, 0)
    BY <1>2, <1>6 DEF AllReplace, Settings!InBlock
  <2> QED
    BY <1>3, <2>1, <2>2, <2>3 DEF LeavesAt
<1> QED
  BY <1>4, <1>5, <1>6

LEMMA BlockSettles ==
  ASSUME SettledInv, NEW r \in Printing, NEW b \in Frame, r = s1', s2' = <<b>> \o s2, s11' = s11,
         \/ b.kind = "block" /\ b.before = s1
         \/ b.kind = "replace" /\ b.before = s1.hook["print"] /\ Alike(r, s1)
  PROVE  SettledInv'
<1>1. PICK t : t = s2'
  OBVIOUS
<1>2. s11 # None => LeavesAt(r, t, s11)
  <2> SUFFICES ASSUME s11 # None PROVE LeavesAt(r, t, s11)
    OBVIOUS
  <2>1. LeavesAt(s1, s2, s11)
    BY DEF SettledInv
  <2> QED
    BY <1>1, <2>1, LeavesPushed
<1>3. t \in Seq(Frame)
  BY <1>1 DEF SettledInv
<1> QED
  BY <1>1, <1>2, <1>3 DEF SettledInv

LEMMA EnterSettles ==
  ASSUME SettledInv, NEW switches \in SUBSET Switch, NEW console \in Console \cup {None},
         Settings!RichPrinting(console, switches) \/ Settings!PlainPrinting(switches)
  PROVE  SettledInv'
<1>1. PICK b : b = [kind |-> "block", before |-> s1, inside |-> None]
  OBVIOUS
<1>2. /\ s2' = <<b>> \o s2 /\ s11' = s11
      /\ s1' = Settings!Rich(s1, console, switches) \/ s1' = Settings!Plain(s1, switches)
  BY <1>1 DEF Settings!RichPrinting, Settings!PlainPrinting, Settings!OpenedBlock, Settings!Opened
<1>3. PICK q : q = s1'
  OBVIOUS
<1>4. s1 \in Printing
  BY DEF SettledInv
<1>5. q \in Printing
  BY <1>2, <1>3, <1>4, ChangeTyped
<1>6. b \in Frame /\ b.kind = "block" /\ b.before = s1
  BY <1>1, <1>4 DEF Frame
<1> QED
  BY <1>2, <1>3, <1>5, <1>6, BlockSettles

LEMMA ReplaceSettles ==
  ASSUME SettledInv, NEW method \in {None, "theirs"}, Settings!ReplacePrint(method)
  PROVE  SettledInv'
<1>1. PICK b : b = [kind |-> "replace", before |-> s1.hook["print"],
                    inside |-> <<s1'.hook["print"], s1'.saved["print"]>>]
  OBVIOUS
<1>2. /\ s2' = <<b>> \o s2 /\ s11' = s11
      /\ s1' = IF method = None THEN s1 ELSE [s1 EXCEPT !.hook["print"] = method]
  BY <1>1 DEF Settings!ReplacePrint, Settings!Opened
<1>3. PICK hook \in [Switch -> Hook], saved \in [Switch -> Hook \cup {None}] :
        s1 = [hook |-> hook, saved |-> saved]
  BY DEF SettledInv, Printing
<1>4. PICK new \in [Switch -> Hook] : /\ s1' = [hook |-> new, saved |-> saved]
                                      /\ \A s \in Switch \ {"print"} : new[s] = hook[s]
  <2>1. CASE method = None
    BY <1>2, <1>3, <2>1
  <2>2. CASE method # None
    <3>1. PICK new : new = [hook EXCEPT !["print"] = "theirs"]
      OBVIOUS
    <3>2. s1' = [hook |-> new, saved |-> saved]
      BY <1>2, <1>3, <2>2, <3>1
    <3>3. new \in [Switch -> Hook] /\ \A s \in Switch \ {"print"} : new[s] = hook[s]
      BY <1>3, <3>1 DEF Hook
    <3> QED
      BY <3>2, <3>3
  <2> QED
    BY <2>1, <2>2
<1>5. PICK r \in Printing : r = s1' /\ Alike(r, s1)
  BY <1>3, <1>4 DEF Printing, Alike
<1>6. b \in Frame /\ b.kind = "replace" /\ b.before = s1.hook["print"]
  <2>1. PICK pair : pair = <<new["print"], saved["print"]>>
    OBVIOUS
  <2>2. b = [kind |-> "replace", before |-> hook["print"], inside |-> pair]
    BY <1>1, <1>3, <1>4, <2>1
  <2>3. pair \in (Hook \cup {None}) \X (Hook \cup {None}) /\ hook["print"] \in Hook
    BY <1>3, <1>4, <2>1, Hooks
  <2> QED
    BY <1>3, <2>2, <2>3 DEF Frame
<1> QED
  BY <1>2, <1>5, <1>6, BlockSettles

LEMMA Removed ==
  ASSUME NEW S, NEW s \in Seq(S), NEW k \in DOMAIN s
  PROVE  /\ Settings!RemoveAt(s, k) \in Seq(S)
         /\ k = 1 => Settings!RemoveAt(s, k) = SubSeq(s, 2, Len(s))
<1>1. PICK n \in Nat : n = Len(s) /\ DOMAIN s = 1 .. n /\ k \in 1 .. n
  OBVIOUS
<1>2. SubSeq(s, 1, k - 1) \in Seq(S) /\ SubSeq(s, k + 1, n) \in Seq(S)
  BY <1>1
<1>3. Settings!RemoveAt(s, k) = SubSeq(s, 1, k - 1) \o SubSeq(s, k + 1, n)
  BY <1>1 DEF Settings!RemoveAt
<1>4. ASSUME k = 1 PROVE Settings!RemoveAt(s, k) = SubSeq(s, 2, Len(s))
  <2>1. SubSeq(s, 1, k - 1) = <<>>
    BY <1>1, <1>4
  <2>2. SubSeq(s, k + 1, n) = SubSeq(s, 2, Len(s))
    BY <1>1, <1>4
  <2>3. PICK rest \in Seq(S) : rest = SubSeq(s, 2, Len(s))
    BY <1>2, <2>2
  <2>4. Settings!RemoveAt(s, k) = <<>> \o rest
    BY <1>3, <2>1, <2>2, <2>3
  <2>5. <<>> \o rest = rest
    OBVIOUS
  <2> QED
    BY <2>3, <2>4, <2>5
<1>5. Settings!RemoveAt(s, k) \in Seq(S)
  BY <1>2, <1>3
<1> QED
  BY <1>4, <1>5

LEMMA LeaveSettles ==
  ASSUME SettledInv, NEW k \in DOMAIN s2, Settings!LeaveBlock(k)
  PROVE  SettledInv'
<1>1. PICK b : b = s2[k]
  OBVIOUS
<1>2. /\ s1' = Settings!Restored(b) /\ s2' = Settings!RemoveAt(s2, k)
      /\ s11' = IF k # 1 THEN None ELSE s11
  BY <1>1 DEF Settings!LeaveBlock
<1>3. s1 \in Printing /\ s2 \in Seq(Frame) /\ b \in Frame
  BY <1>1 DEF SettledInv
<1>4. PICK r \in Printing : /\ r = s1'
                            /\ \/ b.kind = "block" /\ r = b.before
                               \/ b.kind = "replace" /\ r.hook["print"] = b.before /\ Alike(r, s1)
  <2>1. CASE b.kind = "block"
    <3>1. b.before \in Printing
      BY <1>3, <2>1 DEF Frame
    <3> QED
      BY <1>2, <2>1, <3>1 DEF Settings!Restored
  <2>2. CASE b.kind # "block"
    <3>1. b.kind = "replace" /\ b.before \in Hook
      BY <1>3, <2>2 DEF Frame
    <3>2. PICK hook \in [Switch -> Hook], saved \in [Switch -> Hook \cup {None}] :
            s1 = [hook |-> hook, saved |-> saved]
      BY <1>3 DEF Printing
    <3>3. PICK new : new = [hook EXCEPT !["print"] = b.before]
      OBVIOUS
    <3>4. s1' = [hook |-> new, saved |-> saved]
      BY <1>2, <2>2, <3>2, <3>3 DEF Settings!Restored
    <3>5. /\ new \in [Switch -> Hook] /\ new["print"] = b.before
          /\ \A s \in Switch \ {"print"} : new[s] = hook[s]
      BY <3>1, <3>2, <3>3, Hooks
    <3>6. PICK r \in Printing : r = [hook |-> new, saved |-> saved]
      BY <3>2, <3>5 DEF Printing
    <3> QED
      BY <3>1, <3>2, <3>4, <3>5, <3>6 DEF Alike
  <2> QED
    BY <2>1, <2>2
<1>5. PICK t : t = s2'
  OBVIOUS
<1>6. t \in Seq(Frame) /\ (k = 1 => t = SubSeq(s2, 2, Len(s2)))
  BY <1>2, <1>3, <1>5, Removed
<1>7. s11' # None => LeavesAt(r, t, s11)
  <2> SUFFICES ASSUME s11' # None PROVE LeavesAt(r, t, s11)
    OBVIOUS
  <2>1. k = 1 /\ s11 # None
    BY <1>2
  <2>2. LeavesAt(s1, s2, s11)
    BY <2>1 DEF SettledInv
  <2> QED
    BY <1>1, <1>4, <1>6, <2>1, <2>2, LeavesPopped
<1> QED
  BY <1>2, <1>4, <1>5, <1>6, <1>7 DEF SettledInv

LEMMA SettledKeeps ==
  ASSUME SettledInv, Settings!ConsoleNext
  PROVE  SettledInv'
<1>1. \A switches \in {Switch, {"print"}} : switches \in SUBSET Switch
  BY Hooks
<1>2. ASSUME NEW switches \in SUBSET Switch, NEW console \in Console \cup {None},
             \/ Settings!SetupPrinting(console, switches) \/ Settings!TeardownPrinting(switches)
             \/ Settings!RichPrinting(console, switches) \/ Settings!PlainPrinting(switches)
      PROVE  SettledInv'
  BY <1>2, CallSettles, EnterSettles
<1>3. ASSUME NEW method \in {None, "theirs"}, Settings!ReplacePrint(method) PROVE SettledInv'
  BY <1>3, ReplaceSettles
<1>4. ASSUME NEW k \in DOMAIN s2, Settings!LeaveBlock(k) PROVE SettledInv'
  BY <1>4, LeaveSettles
<1> QED
  BY <1>1, <1>2, <1>3, <1>4 DEF Settings!ConsoleNext

LEMMA PutBack == SettledInv => Settings!BlocksPutBack
BY DEF SettledInv, LeavesAt, Settings!BlocksPutBack

\* The zone is the system's, the one that was chosen last, or one of a block.
ZoneInv ==
  /\ s5 \in Seq(Zone)
  /\ Settings!Local \in {Settings!System, s7} \cup s6 \cup {s5[k] : k \in DOMAIN s5}
  /\ s5 = <<>> /\ s6 = {} /\ s7 = None => Settings!Local = Settings!System

LEMMA ZoneBegins == Settings!SettingsInit => ZoneInv
BY DEF Settings!SettingsInit, ZoneInv, Settings!Local

LEMMA ZoneKeeps ==
  ASSUME ZoneInv, Settings!ZoneNext
  PROVE  ZoneInv'
<1>1. CASE \E name \in Zone : Settings!SetLocal(name)
  BY <1>1 DEF ZoneInv, Settings!SetLocal, Settings!Local, Settings!System
<1>2. CASE \E name \in Zone : Settings!EnterTestLocal(name)
  <2>1. PICK name \in Zone : s5' = <<name>> \o s5 /\ s4' = name /\ s6' = s6 /\ s7' = s7
    BY <1>2 DEF Settings!EnterTestLocal
  <2>2. PICK t : t = s5'
    OBVIOUS
  <2>3. t \in Seq(Zone) /\ t[1] = name /\ 1 \in DOMAIN t
    BY <2>1, <2>2, Pushed DEF ZoneInv
  <2>4. Settings!Local' \in {Settings!System, name}
    BY <2>1 DEF Settings!Local, Settings!System
  <2>5. Settings!System' = Settings!System
    BY DEF Settings!System
  <2> QED
    BY <2>2, <2>3, <2>4, <2>5 DEF ZoneInv
<1>3. CASE \E raises \in BOOLEAN : Settings!LeaveTestLocal(raises)
  <2>1. PICK raises \in BOOLEAN :
          /\ s5 # <<>> /\ s5' = Tail(s5) /\ s4' = (IF raises THEN s4 ELSE None) /\ s7' = s7
          /\ s6' = IF raises THEN s6 \cup {Head(s5)} ELSE {}
    BY <1>3 DEF Settings!LeaveTestLocal
  <2>2. s5 \in Seq(Zone)
    BY DEF ZoneInv
  <2>3. /\ s5' \in Seq(Zone)
        /\ \A k \in DOMAIN s5 : s5[k] = Head(s5) \/ \E j \in DOMAIN s5' : s5'[j] = s5[k]
    <3>1. PICK t : t = s5'
      OBVIOUS
    <3>2. 1 \in DOMAIN s5 /\ Head(s5) = s5[1] /\ t = SubSeq(s5, 2, Len(s5))
      BY <2>1, <2>2, <3>1
    <3>3. /\ t \in Seq(Zone)
          /\ \A k \in DOMAIN s5 : k = 1 \/ (k - 1 \in DOMAIN t /\ s5[k] = t[k - 1])
      BY <2>2, <3>2, Popped
    <3> QED
      BY <3>1, <3>2, <3>3
  <2>4. Settings!System' = Settings!System
    BY DEF Settings!System
  <2>5. CASE raises
    <3>1. Settings!Local' = Settings!Local
      BY <2>1, <2>5 DEF Settings!Local, Settings!System
    <3>2. PICK l : l = Settings!Local
      OBVIOUS
    <3>3. l \in {Settings!System, s7} \cup s6 \cup {s5[k] : k \in DOMAIN s5}
      BY <3>2 DEF ZoneInv
    <3>4. l \in {Settings!System, s7'} \cup s6' \cup {s5'[k] : k \in DOMAIN s5'}
      BY <2>1, <2>3, <2>5, <3>3
    <3>5. s6' # {}
      BY <2>1, <2>5
    <3> QED
      BY <2>3, <2>4, <3>1, <3>2, <3>4, <3>5 DEF ZoneInv
  <2>6. CASE ~raises
    <3>1. Settings!Local' = Settings!System
      BY <2>1, <2>6 DEF Settings!Local, Settings!System
    <3> QED
      BY <2>3, <2>4, <3>1 DEF ZoneInv
  <2> QED
    BY <2>5, <2>6
<1> QED
  BY <1>1, <1>2, <1>3 DEF Settings!ZoneNext

LEMMA ZoneHolds == ZoneInv => Settings!ZoneIsAccountedFor
<1> SUFFICES ASSUME ZoneInv PROVE Settings!ZoneIsAccountedFor
  OBVIOUS
<1>1. PICK l : l = Settings!Local
  OBVIOUS
<1>2. /\ l \in {Settings!System, s7} \cup s6 \cup {s5[k] : k \in DOMAIN s5}
      /\ s5 = <<>> /\ s6 = {} /\ s7 = None => l = Settings!System
  BY <1>1 DEF ZoneInv
<1>3. s5 = <<>> => {s5[k] : k \in DOMAIN s5} = {}
  OBVIOUS
<1>4. s5 = <<>> /\ s6 = {} => l \in {Settings!System, s7}
  BY <1>2, <1>3
<1> QED
  BY <1>1, <1>2, <1>4 DEF Settings!ZoneIsAccountedFor

(* Hooks are what _state says of them, and what teardown gives back is the *)
(* plain one, as long as blocks end in order; blocks that end in order put *)
(* back what calls outside of them left; and the zone is one that somebody *)
(* chose, the system's, or that of a block: for any switches,     *)
(* consoles and zones, and blocks nested to any depth (console _snapshot   *)
(* and _restore, timezone test_local).                                     *)
THEOREM SettingsComeBack == ValuesSpec => []SettingsReturn
<1> DEFINE Inv == part \in {"console", "zone"} => ConsoleInv /\ SettledInv /\ ZoneInv
<1>1. Init => Inv
  BY ConsoleBegins, SettledBegins, ZoneBegins DEF Init
<1>2. Inv /\ [Next]_valuesVars => Inv'
  <2>1. SUFFICES ASSUME Inv, [Next]_valuesVars, part \in {"console", "zone"}, part' = part
                 PROVE  ConsoleInv' /\ SettledInv' /\ ZoneInv'
    BY DEF Next, valuesVars
  <2>2. ASSUME UNCHANGED <<s1, s2, s3, s11>> PROVE ConsoleInv' /\ SettledInv'
    BY <2>1, <2>2 DEF ConsoleInv, NoneReplaced, SettledInv, LeavesAt, AllReplace
  <2>3. ASSUME UNCHANGED <<s4, s5, s6, s7>> PROVE ZoneInv'
    BY <2>1, <2>3 DEF ZoneInv, Settings!Local, Settings!System
  <2>4. CASE Settings!ConsoleNext
    <3>1. UNCHANGED <<s4, s5, s6, s7>>
      BY <2>4 DEF Settings!ConsoleNext, Settings!SetupPrinting, Settings!TeardownPrinting, Settings!RichPrinting,
                  Settings!PlainPrinting, Settings!ReplacePrint, Settings!LeaveBlock, Settings!Called, Settings!ZoneVars
    <3> QED
      BY <2>1, <2>3, <2>4, <3>1, ConsoleKeeps, SettledKeeps
  <2>5. CASE Settings!ZoneNext
    <3>1. UNCHANGED <<s1, s2, s3, s11>>
      BY <2>5 DEF Settings!ZoneNext, Settings!SetLocal, Settings!EnterTestLocal, Settings!LeaveTestLocal,
                  Settings!PrintingVars
    <3> QED
      BY <2>1, <2>2, <2>5, <3>1, ZoneKeeps
  <2>6. CASE UNCHANGED valuesVars
    BY <2>2, <2>3, <2>6 DEF valuesVars
  <2> QED
    BY <2>1, <2>4, <2>5, <2>6 DEF Next
<1>3. Inv => SettingsReturn
  BY PrintingTold, PutBack, ZoneHolds DEF SettingsReturn, Settings!SettingsReturn
<1> QED
  BY <1>1, <1>2, <1>3, PTL DEF ValuesSpec
-----------------------------------------------------------------------------
(* Exports: images.                                                        *)

Image == Html \cup {None}
Job == [html : Html, folder : Exported!Folder, browser : {"pending", "done", "failed"},
        alone : BOOLEAN, before : BOOLEAN]

\* A call that no other was begun beside: what its browser made of the working folder.
JobOK(t) ==
  s2[t].alone =>
    /\ Exported!Busy \subseteq {t}
    /\ s2[t].browser = "done" => s1["working"] = s2[t].html
    /\ ~s2[t].before /\ s2[t].browser # "done" => s1["working"] = None /\ s1[s2[t].folder] = None

ImagesInv ==
  /\ s1 \in [Exported!Folder -> Image]
  /\ s2 \in [Thread -> Job \cup {None}]
  /\ \A t \in Exported!Busy : JobOK(t)
  /\ s3 # None /\ s3.job.alone /\ ~s3.job.before => s3.got = s3.job.html

LEMMA ImagesBegin == Exported!ExportsInit => ImagesInv
BY DEF Exported!ExportsInit, ImagesInv, Exported!Busy, Image

LEMMA HtmlToImageKeeps ==
  ASSUME ImagesInv, NEW t \in Thread, NEW html \in Html, NEW folder \in Exported!Folder,
         Exported!HtmlToImage(t, html, folder)
  PROVE  ImagesInv'
<1>b. PICK alone \in BOOLEAN, before \in BOOLEAN :
        /\ alone <=> Exported!Busy = {}
        /\ before <=> s1[folder] # None \/ s1["working"] # None
        /\ alone = (Exported!Busy = {}) /\ before = (s1[folder] # None \/ s1["working"] # None)
  OBVIOUS
<1>j. PICK job : job = [html |-> html, folder |-> folder, browser |-> "pending", alone |-> alone, before |-> before]
  OBVIOUS
<1>1. /\ t \notin Exported!Busy /\ s1' = s1 /\ s3' = s3
      /\ s2' = [other \in Thread |-> IF other = t THEN job
                                     ELSE IF other \in Exported!Busy THEN [s2[other] EXCEPT !.alone = FALSE] ELSE None]
  BY <1>b, <1>j, Zenon DEF Exported!HtmlToImage
<1>2. job \in Job /\ job.browser = "pending" /\ job.alone = alone /\ job.before = before /\ job.folder = folder
  BY <1>j DEF Job
<1>3. s2'[t] = job
  BY <1>1
<1>4. ASSUME NEW other \in Thread \ {t}
      PROVE  /\ s2'[other] \in Job \cup {None}
             /\ other \in Exported!Busy => s2'[other] \in Job /\ s2'[other].alone = FALSE
             /\ other \notin Exported!Busy => s2'[other] = None
  <2>1. CASE other \in Exported!Busy
    <3>1. s2[other] \in Job
      BY <2>1 DEF ImagesInv, Exported!Busy
    <3>2. PICK old, new : old = s2[other] /\ new = [old EXCEPT !.alone = FALSE]
      OBVIOUS
    <3>3. new \in Job /\ new.alone = FALSE
      BY <3>1, <3>2 DEF Job
    <3>4. s2'[other] = new
      BY <1>1, <2>1, <3>2
    <3> QED
      BY <2>1, <3>3, <3>4
  <2>2. CASE other \notin Exported!Busy
    BY <1>1, <2>2
  <2> QED
    BY <2>1, <2>2
<1>5. s2' \in [Thread -> Job \cup {None}]
  <2>1. \A other \in Thread : s2'[other] \in Job \cup {None}
    BY <1>2, <1>3, <1>4
  <2>2. PICK new : new = s2'
    OBVIOUS
  <2>3. new = [other \in Thread |-> new[other]]
    BY <1>1, <2>2
  <2> QED
    BY <2>1, <2>2, <2>3
<1>6. Exported!Busy' \subseteq Exported!Busy \cup {t}
  BY <1>4 DEF Exported!Busy
<1>7. ASSUME NEW other \in Exported!Busy' PROVE JobOK(other)'
  <2>1. CASE other = t
    <3>1. alone => Exported!Busy' \subseteq {t}
      BY <1>b, <1>6
    <3>2. ~before => s1["working"] = None /\ s1[folder] = None
      BY <1>b
    <3> QED
      BY <1>1, <1>2, <1>3, <2>1, <3>1, <3>2 DEF JobOK
  <2>2. CASE other # t
    <3>1. other \in Exported!Busy /\ other \in Thread
      BY <1>6, <2>2 DEF Exported!Busy
    <3> QED
      BY <1>4, <2>2, <3>1 DEF JobOK
  <2> QED
    BY <2>1, <2>2
<1> QED
  BY <1>1, <1>5, <1>7 DEF ImagesInv

LEMMA BrowserKeeps ==
  ASSUME ImagesInv, NEW t \in Thread, NEW works \in BOOLEAN, Exported!Browser(t, works)
  PROVE  ImagesInv'
<1>j. PICK old, ends, new : /\ old = s2[t] /\ ends = (IF works THEN "done" ELSE "failed")
                            /\ new = [old EXCEPT !.browser = ends]
  OBVIOUS
<1>1. /\ t \in Exported!Busy /\ old.browser = "pending" /\ s3' = s3
      /\ s1' = IF works THEN [s1 EXCEPT !["working"] = old.html] ELSE s1
      /\ s2' = [s2 EXCEPT ![t] = new]
  BY <1>j DEF Exported!Browser
<1>2. old \in Job /\ s2 \in [Thread -> Job \cup {None}] /\ s1 \in [Exported!Folder -> Image] /\ JobOK(t)
  BY <1>j, <1>1 DEF ImagesInv, Exported!Busy
<1>3. /\ new \in Job /\ new.browser = ends /\ new.alone = old.alone /\ new.before = old.before
      /\ new.html = old.html /\ new.folder = old.folder
  BY <1>j, <1>2 DEF Job
<1>4. /\ s2' \in [Thread -> Job \cup {None}] /\ s2'[t] = new
      /\ \A other \in Thread \ {t} : s2'[other] = s2[other]
  BY <1>1, <1>2, <1>3
<1>5. s1' \in [Exported!Folder -> Image] /\ (works => s1'["working"] = old.html) /\ (~works => s1' = s1)
  <2>1. old.html \in Image
    BY <1>2 DEF Job, Image
  <2> QED
    BY <1>1, <1>2, <2>1 DEF Exported!Folder
<1>6. Exported!Busy' \subseteq Exported!Busy
  BY <1>1, <1>4 DEF Exported!Busy
<1>7. ASSUME NEW other \in Exported!Busy' PROVE JobOK(other)'
  <2>1. CASE other = t
    <3>1. SUFFICES ASSUME new.alone
                   PROVE  /\ Exported!Busy' \subseteq {t}
                          /\ new.browser = "done" => s1'["working"] = new.html
                          /\ ~new.before /\ new.browser # "done" => s1'["working"] = None /\ s1'[new.folder] = None
      BY <1>4, <2>1 DEF JobOK
    <3>2. /\ Exported!Busy \subseteq {t}
          /\ ~old.before => s1["working"] = None /\ s1[old.folder] = None
      BY <1>j, <1>1, <1>2, <1>3, <3>1 DEF JobOK
    <3>3. new.browser = "done" <=> works
      BY <1>j, <1>3
    <3> QED
      BY <1>3, <1>5, <1>6, <3>2, <3>3
  <2>2. CASE other # t
    <3>1. other \in Exported!Busy /\ other \in Thread /\ s2'[other] = s2[other]
      BY <1>4, <1>6, <2>2 DEF Exported!Busy
    <3>2. JobOK(other) /\ ~s2[other].alone
      BY <1>1, <2>2, <3>1 DEF ImagesInv, JobOK
    <3> QED
      BY <3>1, <3>2 DEF JobOK
  <2> QED
    BY <2>1, <2>2
<1> QED
  BY <1>1, <1>4, <1>5, <1>7 DEF ImagesInv

LEMMA FinishKeeps ==
  ASSUME ImagesInv, NEW t \in Thread, Exported!Finish(t)
  PROVE  ImagesInv'
<1>j. PICK job : job = s2[t]
  OBVIOUS
<1>1. /\ t \in Exported!Busy /\ s1[job.folder] # None /\ s2' = [s2 EXCEPT ![t] = None]
      /\ \/ s1["working"] = None /\ s3' = [job |-> job, got |-> "FileNotFoundError"] /\ s1' = s1
         \/ /\ s1["working"] # None /\ s3' = [job |-> job, got |-> s1["working"]]
            /\ s1' = [s1 EXCEPT !["working"] = None, ![job.folder] = s1["working"]]
  BY <1>j, Zenon DEF Exported!Finish, Exported!Took
<1>2. job \in Job /\ s2 \in [Thread -> Job \cup {None}] /\ s1 \in [Exported!Folder -> Image] /\ JobOK(t)
  BY <1>j, <1>1 DEF ImagesInv, Exported!Busy
<1>3. /\ s2' \in [Thread -> Job \cup {None}] /\ s2'[t] = None
      /\ \A other \in Thread \ {t} : s2'[other] = s2[other]
  BY <1>1, <1>2
<1>4. s1' \in [Exported!Folder -> Image]
  <2>1. s1["working"] \in Image /\ None \in Image /\ job.folder \in Exported!Folder
    BY <1>2 DEF Image, Job, Exported!Folder
  <2> QED
    BY <1>1, <1>2, <2>1
<1>5. s3'.job = job /\ (job.alone /\ ~job.before => s3'.got = job.html)
  <2>1. ASSUME job.alone, ~job.before PROVE s1["working"] = job.html
    <3>1. job.browser = "done"
      BY <1>j, <1>1, <1>2, <2>1 DEF JobOK
    <3> QED
      BY <1>j, <1>2, <2>1, <3>1 DEF JobOK
  <2>2. job.html # None
    BY <1>2, Assumptions DEF Job, Exported!ExportsAssumption
  <2>3. CASE s1["working"] = None
    BY <1>1, <2>1, <2>2, <2>3
  <2>4. CASE s1["working"] # None
    BY <1>1, <2>1, <2>4
  <2> QED
    BY <2>3, <2>4
<1>6. ASSUME NEW other \in Exported!Busy' PROVE JobOK(other)'
  <2>1. other # t /\ other \in Thread /\ other \in Exported!Busy /\ s2'[other] = s2[other]
    BY <1>3 DEF Exported!Busy
  <2>2. ~s2[other].alone
    BY <1>1, <2>1 DEF ImagesInv, JobOK
  <2> QED
    BY <2>1, <2>2 DEF JobOK
<1> QED
  BY <1>3, <1>4, <1>5, <1>6 DEF ImagesInv

LEMMA ImagesAreTheirs == ImagesInv => Exported!ImagesShowTheirHtml
<1> SUFFICES ASSUME ImagesInv, NEW t \in Exported!Busy, s2[t].alone, s2[t].browser = "done"
             PROVE  s1[s2[t].folder] # None \/ s2[t].folder = "other"
  BY DEF ImagesInv, Exported!ImagesShowTheirHtml
<1>1. PICK job : job = s2[t]
  OBVIOUS
<1>2. job \in Job
  BY <1>1 DEF ImagesInv, Exported!Busy
<1>3. job.html # None /\ s1["working"] = job.html
  BY <1>1, <1>2, Assumptions DEF Job, ImagesInv, JobOK, Exported!ExportsAssumption
<1>4. job.folder \in {"working", "other"}
  BY <1>2 DEF Job, Exported!Folder
<1> QED
  BY <1>1, <1>3, <1>4

-----------------------------------------------------------------------------
(* Exports: documents.                                                     *)

\* The links of an export under way are none of its own documents, but the file.
ExportOK ==
  /\ s6.tool = "quarto" => /\ s6.to \in DOMAIN Writes
                           /\ \A name \in s6.links : name = Document \/ name[1] # Document[1]
  /\ s6.tool = "nbconvert" => s6.to \in DOMAIN Listed

AnswerOK ==
  \E document \in s7 :
    /\ document = [s8.path EXCEPT !.suffix = document.suffix]
    /\ \/ document = s8.path
       \/ \E to \in DOMAIN Listed : /\ s8.path.suffix = Exported!Extension(to)
                                    /\ document.suffix \in Actual[to] \ {Exported!Extension(to)}

DocumentsInv ==
  /\ s4 = [name \in Exported!Name |-> s4[name]] /\ s4 = s5
  /\ s6 # None => ExportOK
  /\ s8 # None /\ s8.path # None => AnswerOK

LEMMA DocumentsBegin == Exported!ExportsInit => DocumentsInv
BY DEF Exported!ExportsInit, DocumentsInv

LEMMA EditKeeps ==
  ASSUME DocumentsInv, NEW name \in Exported!Name, NEW gone \in BOOLEAN, Exported!Edit(name, gone)
  PROVE  DocumentsInv'
<1>1. PICK version : /\ s4' = [s4 EXCEPT ![name] = version] /\ s5' = [s5 EXCEPT ![name] = version]
                     /\ UNCHANGED <<s6, s7, s8>>
  BY Zenon DEF Exported!Edit
<1>2. s4' = s5' /\ s4' = [n \in Exported!Name |-> s4'[n]]
  <2>1. PICK old : old = s4 /\ old = [n \in Exported!Name |-> old[n]]
    BY DEF DocumentsInv
  <2>2. PICK new : new = [old EXCEPT ![name] = version]
    OBVIOUS
  <2>3. new = [n \in Exported!Name |-> new[n]]
    BY <2>1, <2>2
  <2> QED
    BY <1>1, <2>1, <2>2, <2>3 DEF DocumentsInv
<1> QED
  BY <1>1, <1>2 DEF DocumentsInv, ExportOK, AnswerOK, Exported!Extension

LEMMA RefusedKeeps ==
  ASSUME DocumentsInv, NEW error, Exported!Refused(error) \/ Exported!Fails(error)
  PROVE  DocumentsInv'
<1>1. UNCHANGED <<s4, s5, s7>> /\ s6' = None /\ s8' = [path |-> None, error |-> error]
  BY DEF Exported!Refused, Exported!Fails, Exported!Begins, Exported!Answers
<1> QED
  BY <1>1 DEF DocumentsInv

LEMMA BeginQuartoKeeps ==
  ASSUME DocumentsInv, NEW to, NEW title, NEW bin \in BOOLEAN, Exported!BeginQuarto(to, title, bin)
  PROVE  DocumentsInv'
<1>1. CASE ~bin \/ to \notin DOMAIN Writes
  <2>1. Exported!Refused("RuntimeError") \/ Exported!Refused("ValueError")
    BY <1>1 DEF Exported!BeginQuarto
  <2> QED
    BY <2>1, RefusedKeeps
<1>2. CASE bin /\ to \in DOMAIN Writes
  <2>1. PICK stem, begun : begun = [tool |-> "quarto", to |-> to, stem |-> stem, links |-> Exported!Links]
                           /\ s6' = begun /\ UNCHANGED <<s4, s5, s7, s8>>
    BY <1>2 DEF Exported!BeginQuarto, Exported!Begins
  <2>2. \A name \in Exported!Links : name = Document \/ name[1] # Document[1]
    BY DEF Exported!Links, Exported!Stem
  <2>3. ExportOK'
    BY <1>2, <2>1, <2>2 DEF ExportOK
  <2> QED
    BY <2>1, <2>3 DEF DocumentsInv, AnswerOK, Exported!Extension
<1> QED
  BY <1>1, <1>2

LEMMA BeginNbconvertKeeps ==
  ASSUME DocumentsInv, NEW to, NEW bin \in BOOLEAN, NEW template \in BOOLEAN,
         Exported!BeginNbconvert(to, bin, template)
  PROVE  DocumentsInv'
<1>1. CASE ~bin \/ to \notin DOMAIN Listed \/ ~template
  <2>1. Exported!Refused("RuntimeError") \/ Exported!Refused("ValueError")
    BY <1>1 DEF Exported!BeginNbconvert
  <2> QED
    BY <2>1, RefusedKeeps
<1>2. CASE bin /\ to \in DOMAIN Listed /\ template
  <2>1. PICK stem, begun : begun = [tool |-> "nbconvert", to |-> to, stem |-> stem, links |-> {}]
                           /\ s6' = begun /\ UNCHANGED <<s4, s5, s7, s8>>
    BY <1>2 DEF Exported!BeginNbconvert, Exported!Begins
  <2>2. ExportOK'
    BY <1>2, <2>1 DEF ExportOK
  <2> QED
    BY <2>1, <2>2 DEF DocumentsInv, AnswerOK, Exported!Extension
<1> QED
  BY <1>1, <1>2

LEMMA RunQuartoKeeps ==
  ASSUME DocumentsInv, NEW fails \in BOOLEAN, Exported!RunQuarto(fails)
  PROVE  DocumentsInv'
<1>0. s6 # None /\ s6.tool = "quarto" /\ s6.to \in DOMAIN Writes
      /\ \A name \in s6.links : name = Document \/ name[1] # Document[1]
  BY DEF Exported!RunQuarto, DocumentsInv, ExportOK
<1>1. CASE Exported!Fails("CalledProcessError")
  BY <1>1, RefusedKeeps
<1>2. CASE ~Exported!Fails("CalledProcessError")
  <2>1. PICK written : written = [k \in DOMAIN Writes[s6.to] |-> <<Document[1], Writes[s6.to][k]>>]
    OBVIOUS
  <2>2. /\ s4' = [name \in Exported!Name |-> IF \E k \in DOMAIN written : written[k] = name /\ name \in s6.links
                                             THEN Exported!Rendered ELSE s4[name]]
        /\ s5' = s5 /\ s6' = None
        /\ \/ s7' = s7 /\ s8' = [path |-> None, error |-> "RuntimeError"]
           \/ \E suffix : /\ s7' = s7 \cup {Exported!Output(suffix)}
                           /\ s8' = [path |-> Exported!Output(suffix), error |-> None]
    BY <1>2, <2>1, Zenon DEF Exported!RunQuarto, Exported!Stem, Exported!Answers
  <2>3. ASSUME NEW k \in DOMAIN written PROVE written[k] \notin s6.links
    <3>1. PICK suffix : suffix = Writes[s6.to][k] /\ k \in DOMAIN Writes[s6.to]
      BY <2>1
    <3>2. PICK pair : pair = <<Document[1], suffix>>
      OBVIOUS
    <3>3. written[k] = pair /\ pair[1] = Document[1]
      BY <2>1, <3>1, <3>2
    <3>4. pair # Document
      BY <1>0, <3>1, <3>2, Assumptions DEF Exported!ExportsAssumption
    <3> QED
      BY <1>0, <3>3, <3>4
  <2>4. s4' = s4
    <3>1. PICK now : now = s4'
      OBVIOUS
    <3>2. now = [name \in Exported!Name |-> s4[name]]
      BY <2>2, <2>3, <3>1
    <3> QED
      BY <3>1, <3>2 DEF DocumentsInv
  <2>5. s8'.path # None => AnswerOK'
    <3> SUFFICES ASSUME NEW suffix, s7' = s7 \cup {Exported!Output(suffix)},
                        s8' = [path |-> Exported!Output(suffix), error |-> None]
                 PROVE  AnswerOK'
      BY <2>2
    <3>1. PICK output : output = Exported!Output(suffix) /\ output = [output EXCEPT !.suffix = output.suffix]
      BY DEF Exported!Output
    <3>2. output \in s7' /\ s8'.path = output
      BY <3>1
    <3> QED
      BY <3>1, <3>2 DEF AnswerOK
  <2> QED
    BY <2>2, <2>4, <2>5 DEF DocumentsInv, AnswerOK, Exported!Extension
<1> QED
  BY <1>1, <1>2

LEMMA RunNbconvertKeeps ==
  ASSUME DocumentsInv, NEW fails \in BOOLEAN, NEW suffix, Exported!RunNbconvert(fails, suffix)
  PROVE  DocumentsInv'
<1>0. s6 # None /\ s6.tool = "nbconvert" /\ s6.to \in DOMAIN Listed /\ suffix \in Actual[s6.to]
  BY DEF Exported!RunNbconvert, DocumentsInv, ExportOK
<1>1. CASE Exported!Fails("CalledProcessError")
  BY <1>1, RefusedKeeps
<1>2. CASE ~Exported!Fails("CalledProcessError")
  <2>1. PICK to, path, document : /\ to = s6.to /\ to \in DOMAIN Listed /\ suffix \in Actual[to]
                                  /\ path = Exported!Output(Exported!Extension(to))
                                  /\ document = Exported!Output(suffix)
    BY <1>0
  <2>2. /\ s7' = s7 \cup {document} /\ s8' = [path |-> path, error |-> None]
        /\ s6' = None /\ UNCHANGED <<s4, s5>>
    BY <1>2, <2>1, Zenon DEF Exported!RunNbconvert, Exported!Answers
  <2>3. /\ document = [path EXCEPT !.suffix = document.suffix]
        /\ document.suffix = suffix /\ path.suffix = Exported!Extension(to)
        /\ Exported!Extension(to) = suffix => document = path
    BY <2>1 DEF Exported!Output
  <2>4. document \in s7' /\ s8'.path = path
    BY <2>2
  <2>5. AnswerOK'
    <3>1. CASE Exported!Extension(to) = suffix
      BY <2>3, <2>4, <3>1 DEF AnswerOK, Exported!Extension
    <3>2. CASE Exported!Extension(to) # suffix
      <4>1. document.suffix \in Actual[to] \ {Exported!Extension(to)}
        BY <2>1, <2>3, <3>2
      <4> QED
        BY <2>1, <2>3, <2>4, <4>1 DEF AnswerOK, Exported!Extension
    <3> QED
      BY <3>1, <3>2
  <2> QED
    BY <2>2, <2>5 DEF DocumentsInv
<1> QED
  BY <1>1, <1>2

(* An image that is returned to a lone call is of the HTML it was asked    *)
(* for; an export leaves the folder as people made it, and for the path    *)
(* that it returns there is the document that it made, there or under the  *)
(* suffix of its kernel: for any threads, files that people edit meanwhile,*)
(* and formats, as long as no format of quarto is the file's own (export). *)
THEOREM ExportsAreMeant == ValuesSpec => []ExportsAreTheirs
<1> DEFINE Inv == /\ part = "images" => ImagesInv
                  /\ part = "documents" => DocumentsInv
<1>1. Init => Inv
  BY ImagesBegin, DocumentsBegin DEF Init
<1>2. Inv /\ [Next]_valuesVars => Inv'
  <2>1. SUFFICES ASSUME Inv, [Next]_valuesVars PROVE Inv'
    OBVIOUS
  <2>2. part' = part
    BY <2>1 DEF Next, valuesVars
  <2>3. ASSUME part = "images" PROVE ImagesInv'
    <3>1. CASE Exported!ImagesNext
      BY <2>1, <2>3, <3>1, HtmlToImageKeeps, BrowserKeeps, FinishKeeps DEF Exported!ImagesNext
    <3>2. CASE UNCHANGED valuesVars
      BY <2>1, <2>3, <3>2 DEF valuesVars, ImagesInv, JobOK, Exported!Busy
    <3> QED
      BY <2>1, <2>3, <3>1, <3>2 DEF Next
  <2>4. ASSUME part = "documents" PROVE DocumentsInv'
    <3>1. CASE Exported!DocumentsNext
      BY <2>1, <2>4, <3>1, EditKeeps, BeginQuartoKeeps, BeginNbconvertKeeps, RunQuartoKeeps, RunNbconvertKeeps
      DEF Exported!DocumentsNext
    <3>2. CASE UNCHANGED valuesVars
      BY <2>1, <2>4, <3>2 DEF valuesVars, DocumentsInv, ExportOK, AnswerOK, Exported!Extension
    <3> QED
      BY <2>1, <2>4, <3>1, <3>2 DEF Next
  <2> QED
    BY <2>2, <2>3, <2>4
<1>3. Inv => ExportsAreTheirs
  BY ImagesAreTheirs DEF ExportsAreTheirs, DocumentsInv, AnswerOK, Exported!DocumentsAreTheirs
<1> QED
  BY <1>1, <1>2, <1>3, PTL DEF ValuesSpec
-----------------------------------------------------------------------------
(* QueryFiles.                                                             *)

Pieces == Queries!PieceKind \X QueryName

QueryInv ==
  /\ \A f \in DOMAIN s1 : s1[f] \in QueryText
  /\ s2 # None => s2 \in Seq({"queries", "mayutils"} \cup Packages)
  /\ s3 \in SUBSET Packages

LEMMA QueryBegins == Queries!QueryFilesInit => QueryInv
BY DEF Queries!QueryFilesInit, Queries!NoFiles, QueryInv

LEMMA ImportKeeps ==
  ASSUME QueryInv, Queries!ImportQueries
  PROVE  QueryInv'
<1>1. PICK found \in Queries!SetToSeqs(s3) :
        s2' = <<"queries">> \o found \o <<"mayutils">> /\ s1' = s1 /\ s3' = s3
  BY DEF Queries!ImportQueries
<1>2. PICK n : n = Queries!Cardinality(s3)
  OBVIOUS
<1>3. n \in Nat
  <2>1. IsFiniteSet(Packages)
    <3>1. Queries!IsFiniteSet(Packages)
      BY Assumptions DEF Queries!QueryAssumption
    <3> QED
      BY <3>1 DEF IsFiniteSet, Queries!IsFiniteSet
  <2>2. s3 \in SUBSET Packages
    BY DEF QueryInv
  <2>3. Cardinality(s3) \in Nat
    BY <2>1, <2>2, FS_Subset, FS_CardinalityType
  <2>4. Queries!Cardinality(s3) = Cardinality(s3)
    BY Zenon DEF Cardinality, Queries!Cardinality
  <2> QED
    BY <1>2, <2>3, <2>4
<1>4. found \in [1 .. n -> Packages]
  BY <1>1, <1>2 DEF Queries!SetToSeqs, QueryInv
<1>5. PICK All : All = {"queries", "mayutils"} \cup Packages
  OBVIOUS
<1>6. found \in Seq(All)
  BY <1>3, <1>4, <1>5
<1>7. <<"queries">> \in Seq(All) /\ <<"mayutils">> \in Seq(All)
  BY <1>5
<1>8. s2' \in Seq(All)
  BY <1>1, <1>6, <1>7
<1> QED
  BY <1>1, <1>5, <1>8 DEF QueryInv

LEMMA QueriesKeep ==
  ASSUME QueryInv, Queries!QueryFilesNext
  PROVE  QueryInv'
<1>1. CASE Queries!ImportQueries
  BY <1>1, ImportKeeps
<1>2. ASSUME NEW f, NEW text \in QueryText, Queries!AddQuery(f, text) PROVE QueryInv'
  <2>1. /\ s1' = [g \in DOMAIN s1 \cup {f} |-> IF g = f THEN text ELSE s1[g]] /\ s2' = s2 /\ s3' = s3
    BY <1>2 DEF Queries!AddQuery
  <2> QED
    BY <2>1 DEF QueryInv
<1>3. ASSUME NEW f, Queries!RemoveQuery(f) PROVE QueryInv'
  <2>1. s1' = [g \in DOMAIN s1 \ {f} |-> s1[g]] /\ s2' = s2 /\ s3' = s3
    BY <1>3 DEF Queries!RemoveQuery
  <2> QED
    BY <2>1 DEF QueryInv
<1>4. ASSUME NEW p \in Packages, Queries!AddPackage(p) PROVE QueryInv'
  BY <1>4 DEF QueryInv, Queries!AddPackage
<1> QED
  BY <1>1, <1>2, <1>3, <1>4 DEF Queries!QueryFilesNext

\* A beginning of a sequence.
LEMMA Beginning ==
  ASSUME NEW S, NEW s \in Seq(S), NEW m \in 0 .. Len(s), NEW t, t = SubSeq(s, 1, m)
  PROVE  DOMAIN t = 1 .. m /\ \A k \in 1 .. m : t[k] = s[k]
<1>1. PICK n \in Nat : n = Len(s) /\ m \in 0 .. n
  OBVIOUS
<1>2. Len(t) = m /\ t \in Seq(S)
  BY <1>1
<1>3. DOMAIN t = 1 .. m
  BY <1>2
<1>4. \A k \in 1 .. m : t[k] = s[k]
  BY <1>1
<1> QED
  BY <1>3, <1>4

\* A piece of text, and what is cut from its end.
LEMMA Stripped ==
  ASSUME NEW P, NEW text \in Seq(P)
  PROVE  \E n \in 0 .. Len(text) :
           /\ Queries!RStrip(text) = SubSeq(text, 1, n)
           /\ \A k \in DOMAIN text : k > n => Queries!Kind(text[k]) = "blank"
<1>1. PICK I : I = {i \in 1 .. Len(text) : Queries!Kind(text[i]) # "blank"}
  OBVIOUS
<1>2. Queries!RStrip(text) = SubSeq(text, 1, IF I # {} THEN Queries!Max(I) ELSE 0)
  BY <1>1 DEF Queries!RStrip, Queries!SelectLastInSeq
<1>3. CASE I = {}
  BY <1>1, <1>2, <1>3
<1>4. CASE I # {}
  <2>1. \E x \in I : \A y \in I : x >= y
    <3>1. PICK J : J = {Len(text) - i : i \in I}
      OBVIOUS
    <3>2. J \subseteq Nat /\ J # {}
      BY <1>1, <1>4, <3>1
    <3>3. PICK x \in J : \A y \in J : x <= y
      BY <3>2, Dict!LeastNumber
    <3>4. PICK i \in I : x = Len(text) - i
      BY <3>1, <3>3
    <3>5. \A y \in I : Len(text) - y \in J
      BY <3>1
    <3> QED
      BY <1>1, <3>3, <3>4, <3>5
  <2>2. PICK n \in I : n = Queries!Max(I) /\ \A y \in I : n >= y
    BY <2>1 DEF Queries!Max
  <2>n. n \in 1 .. Len(text)
    <3>1. I \subseteq 1 .. Len(text)
      BY <1>1
    <3> QED
      BY <2>2, <3>1
  <2>3. Queries!RStrip(text) = SubSeq(text, 1, n) /\ n \in 0 .. Len(text)
    <3>1. Queries!RStrip(text) = SubSeq(text, 1, n)
      BY <1>2, <1>4, <2>2
    <3>2. n \in 0 .. Len(text)
      BY <2>n
    <3> QED
      BY <3>1, <3>2
  <2>4. ASSUME NEW k \in DOMAIN text, k > n PROVE Queries!Kind(text[k]) = "blank"
    <3>1. k \notin I
      BY <1>1, <2>2, <2>4
    <3>2. k \in 1 .. Len(text)
      OBVIOUS
    <3> QED
      BY <1>1, <3>1, <3>2
  <2> QED
    BY <2>3, <2>4
<1> QED
  BY <1>3, <1>4

LEMMA Ended ==
  ASSUME NEW P, NEW text \in Seq(P), NEW out, out = Queries!RemoveSemicolon(Queries!RStrip(text))
  PROVE  \E m \in 0 .. Len(text) :
           /\ out = SubSeq(text, 1, m)
           /\ \A j, k \in DOMAIN text :
                j < k /\ Queries!Kind(text[j]) = "semicolon" /\ Queries!Kind(text[k]) = "semicolon" => j <= m
<1>1. PICK n, stripped :
        /\ n \in 0 .. Len(text) /\ stripped = SubSeq(text, 1, n) /\ stripped = Queries!RStrip(text)
        /\ \A k \in DOMAIN text : k > n => Queries!Kind(text[k]) = "blank"
  BY Stripped
<1>2. stripped \in Seq(P) /\ Len(stripped) = n
  BY <1>1
<1>3. \A j, k \in DOMAIN text :
        j < k /\ Queries!Kind(text[j]) = "semicolon" /\ Queries!Kind(text[k]) = "semicolon" => j <= n - 1
  BY <1>1
<1>4. CASE out = stripped
  BY <1>1, <1>3, <1>4
<1>5. CASE out # stripped
  <2>1. n >= 1 /\ out = SubSeq(stripped, 1, n - 1)
    BY <1>1, <1>2, <1>5 DEF Queries!RemoveSemicolon
  <2>2. out = SubSeq(text, 1, n - 1)
    BY <1>1, <1>2, <2>1
  <2> QED
    BY <1>1, <1>3, <2>1, <2>2
<1> QED
  BY <1>4, <1>5

\* A beginning of a text, with words for its variables, and but one semicolon less.
RendersTo(text, out) ==
  /\ \A k \in DOMAIN out :
       /\ k \in DOMAIN text
       /\ out[k] = IF Queries!Kind(text[k]) \in Queries!Variables
                   THEN Queries!Piece("text", Queries!Named(text[k])) ELSE text[k]
  /\ \A j, k \in DOMAIN text :
       j < k /\ Queries!Kind(text[j]) = "semicolon" /\ Queries!Kind(text[k]) = "semicolon" =>
         j \in DOMAIN out /\ out[j] = text[j]

LEMMA RenderedOut ==
  ASSUME NEW text \in QueryText, NEW names, NEW out, out = Queries!Rendered(text, names, TRUE), out # None
  PROVE  RendersTo(text, out)
<1>0. text \in Seq(Pieces)
  BY Assumptions DEF Queries!QueryAssumption, Pieces
<1>w. PICK whole : whole = [k \in DOMAIN text |-> IF Queries!Kind(text[k]) \in Queries!Variables
                                                   THEN Queries!Piece("text", Queries!Named(text[k])) ELSE text[k]]
  OBVIOUS
<1>1. out = Queries!RemoveSemicolon(Queries!RStrip(whole))
  BY <1>w DEF Queries!Rendered
<1>2. whole \in Seq(Pieces) /\ DOMAIN whole = DOMAIN text /\ Len(whole) = Len(text)
  <2>1. PICK n \in Nat : DOMAIN text = 1 .. n /\ n = Len(text)
    BY <1>0
  <2>2. ASSUME NEW k \in 1 .. n PROVE whole[k] \in Pieces
    <3>1. PICK piece \in Pieces : piece = text[k]
      BY <1>0, <2>1
    <3>2. whole[k] \in {piece, <<"text", piece[2]>>}
      BY <1>w, <2>1, <3>1 DEF Queries!Piece, Queries!Named
    <3>3. <<"text", piece[2]>> \in Pieces
      BY DEF Pieces, Queries!PieceKind
    <3> QED
      BY <3>2, <3>3
  <2>3. whole = [k \in 1 .. n |-> whole[k]]
    BY <1>w, <2>1
  <2>4. whole \in Seq(Pieces)
    BY <2>2, <2>3
  <2> QED
    BY <2>1, <2>3, <2>4
<1>3. PICK m \in 0 .. Len(whole) :
        /\ out = SubSeq(whole, 1, m)
        /\ \A j, k \in DOMAIN whole :
             j < k /\ Queries!Kind(whole[j]) = "semicolon" /\ Queries!Kind(whole[k]) = "semicolon" => j <= m
  BY <1>1, <1>2, Ended
<1>4. DOMAIN out = 1 .. m /\ \A k \in 1 .. m : out[k] = whole[k]
  <2>1. PICK W : W = Pieces
    OBVIOUS
  <2>2. PICK w \in Seq(W) : w = whole
    BY <1>2, <2>1
  <2>3. out = SubSeq(w, 1, m) /\ m \in 0 .. Len(w)
    BY <1>3, <2>2
  <2>4. DOMAIN out = 1 .. m /\ \A k \in 1 .. m : out[k] = w[k]
    BY <2>3, Beginning
  <2> QED
    BY <2>2, <2>4
<1>5. \A k \in 1 .. m : k \in DOMAIN text
  BY <1>2
<1>6. \A k \in DOMAIN text : Queries!Kind(text[k]) = "semicolon" => whole[k] = text[k]
  BY <1>w DEF Queries!Variables
<1>7. \A k \in DOMAIN text : k \in Nat /\ k >= 1
  BY <1>0
<1>8. ASSUME NEW j \in DOMAIN text, NEW k \in DOMAIN text, j < k,
             Queries!Kind(text[j]) = "semicolon", Queries!Kind(text[k]) = "semicolon"
      PROVE  j \in DOMAIN out /\ out[j] = text[j]
  <2>1. j <= m
    BY <1>2, <1>3, <1>6, <1>8
  <2>2. j \in 1 .. m
    BY <1>7, <2>1
  <2> QED
    BY <1>4, <1>6, <1>8, <2>2
<1> QED
  BY <1>w, <1>4, <1>5, <1>8 DEF RendersTo

WarnedOf(text, out, names) ==
  /\ \A k \in DOMAIN out : Queries!Kind(out[k]) = "legacy" /\ Queries!Named(out[k]) \in names =>
       Queries!Named(out[k]) \in Queries!Legacy(text, names)
  /\ \A k \in DOMAIN out : Queries!Kind(out[k]) \notin Queries!Variables
  /\ \A j, k \in DOMAIN text :
       j < k /\ Queries!Kind(text[j]) = "semicolon" /\ Queries!Kind(text[k]) = "semicolon" =>
         j \in DOMAIN out /\ out[j] = text[j]

LEMMA PlaceholdersFound == QueryInv => Queries!PlaceholdersAreWarnedOf
<1> SUFFICES ASSUME QueryInv, NEW f \in DOMAIN s1, NEW names \in SUBSET QueryName,
                    Queries!Rendered(s1[f], names, TRUE) # None
             PROVE  WarnedOf(s1[f], Queries!Rendered(s1[f], names, TRUE), names)
  BY DEF Queries!PlaceholdersAreWarnedOf, WarnedOf
<1>0. PICK text, out : text = s1[f] /\ out = Queries!Rendered(text, names, TRUE)
  OBVIOUS
<1>1. RendersTo(text, out)
  <2>1. text \in QueryText /\ out # None
    BY <1>0 DEF QueryInv
  <2> QED
    BY <1>0, <2>1, RenderedOut
<1>2. \A k \in DOMAIN out :
        /\ k \in DOMAIN text
        /\ out[k] = IF Queries!Kind(text[k]) \in Queries!Variables
                    THEN Queries!Piece("text", Queries!Named(text[k])) ELSE text[k]
  BY <1>1 DEF RendersTo
<1>3. \A j, k \in DOMAIN text :
        j < k /\ Queries!Kind(text[j]) = "semicolon" /\ Queries!Kind(text[k]) = "semicolon" =>
          j \in DOMAIN out /\ out[j] = text[j]
  BY <1>1 DEF RendersTo
<1>4. ASSUME NEW k \in DOMAIN out
      PROVE  /\ Queries!Kind(out[k]) \notin Queries!Variables
             /\ Queries!Kind(out[k]) = "legacy" => out[k] = text[k]
  <2>1. CASE Queries!Kind(text[k]) \in Queries!Variables
    <3>1. PICK piece : piece = <<"text", Queries!Named(text[k])>>
      OBVIOUS
    <3>2. out[k] = piece /\ piece[1] = "text"
      BY <1>2, <2>1, <3>1 DEF Queries!Piece
    <3> QED
      BY <3>2 DEF Queries!Variables, Queries!Kind
  <2>2. CASE Queries!Kind(text[k]) \notin Queries!Variables
    BY <1>2, <2>2
  <2> QED
    BY <2>1, <2>2
<1>5. ASSUME NEW k \in DOMAIN out, Queries!Kind(out[k]) = "legacy", Queries!Named(out[k]) \in names
      PROVE  Queries!Named(out[k]) \in Queries!Legacy(text, names)
  <2>1. k \in DOMAIN text /\ out[k] = text[k]
    BY <1>2, <1>4, <1>5
  <2> QED
    BY <1>5, <2>1 DEF Queries!Legacy
<1> QED
  BY <1>0, <1>3, <1>4, <1>5 DEF WarnedOf

\* The search finds a file of the name, if a folder has one.
LEMMA FileFound ==
  ASSUME QueryInv, s2 # None, NEW name, NEW suffix, Queries!Suffixed(suffix) = "sql",
         NEW k \in DOMAIN s2, Queries!Exists(Queries!FileIn(s2[k], name, "sql"))
  PROVE  \E f \in DOMAIN s1 : f.name = name /\ Queries!ReadQueryFile(name, suffix) = s1[f]
<1>p. PICK places : places = Queries!Places(name, "sql")
  OBVIOUS
<1>0. PICK n \in Nat : n = Len(s2) /\ DOMAIN s2 = 1 .. n
  BY DEF QueryInv
<1>1. /\ DOMAIN places = 1 .. n + 1 /\ Len(places) = n + 1
      /\ \A i \in 1 .. n + 1 : places[i].name = name
      /\ places[k + 1] = Queries!FileIn(s2[k], name, "sql")
  <2>1. places = [i \in 1 .. n + 1 |-> Queries!FileIn(IF i = 1 THEN "cwd" ELSE s2[i - 1], name, "sql")]
    BY <1>p, <1>0 DEF Queries!Places
  <2>2. \A i \in 1 .. n + 1 : places[i].name = name
    BY <2>1 DEF Queries!FileIn
  <2>3. k \in 1 .. n /\ k + 1 \in 1 .. n + 1 /\ k + 1 # 1 /\ (k + 1) - 1 = k
    BY <1>0
  <2> QED
    BY <2>1, <2>2, <2>3
<1>i. PICK I : I = {i \in 1 .. Len(places) : Queries!Exists(places[i])}
  OBVIOUS
<1>2. k + 1 \in I /\ I \subseteq Nat
  BY <1>i, <1>0, <1>1
<1>3. PICK first \in I : first = Queries!Min(I)
  <2>1. \E x \in I : \A y \in I : x <= y
    BY <1>2, Dict!LeastNumber
  <2> QED
    BY <2>1 DEF Queries!Min
<1>4. Queries!SelectInSeq(places, Queries!Exists) = first
  BY <1>i, <1>2, <1>3 DEF Queries!SelectInSeq
<1>5. first # 0 /\ places[first] \in DOMAIN s1 /\ places[first].name = name
  BY <1>i, <1>1, <1>3 DEF Queries!Exists
<1>6. Queries!ReadQueryFile(name, suffix) = s1[places[first]]
  BY <1>p, <1>4, <1>5 DEF Queries!ReadQueryFile
<1> QED
  BY <1>5, <1>6

LEMMA StatementsStand == QueryInv => Queries!StatementsAreNotFiles
<1> SUFFICES ASSUME QueryInv, s2 # None, NEW value \in Queries!Value, NEW inline \in QueryText
             PROVE  /\ (value.keyword /\ value.space /\ value.suffix # "sql")
                         => Queries!RenderQuery(value, inline, QueryName) = Queries!Rendered(inline, QueryName, TRUE)
                    /\ (value.suffix # "v2" /\ ~value.slash /\ Queries!LooksLikeSqlPath(value)
                          /\ \E k \in DOMAIN s2 : Queries!Exists(Queries!FileIn(s2[k], value.name, "sql")))
                         => \E f \in DOMAIN s1 :
                              f.name = value.name
                                /\ Queries!RenderQuery(value, inline, QueryName) = Queries!Rendered(s1[f], QueryName, TRUE)
  BY DEF Queries!StatementsAreNotFiles
<1>0. None \notin QueryText
  BY Assumptions DEF Queries!QueryAssumption
<1>1. ASSUME value.keyword, value.space, value.suffix # "sql"
      PROVE  Queries!RenderQuery(value, inline, QueryName) = Queries!Rendered(inline, QueryName, TRUE)
  <2>1. ~Queries!LooksLikeSqlPath(value)
    BY <1>1 DEF Queries!LooksLikeSqlPath
  <2>2. inline # None
    BY <1>0
  <2> QED
    BY <2>1, <2>2 DEF Queries!RenderQuery
<1>2. ASSUME value.suffix # "v2", ~value.slash, Queries!LooksLikeSqlPath(value),
             NEW k \in DOMAIN s2, Queries!Exists(Queries!FileIn(s2[k], value.name, "sql"))
      PROVE  \E f \in DOMAIN s1 :
               f.name = value.name
                 /\ Queries!RenderQuery(value, inline, QueryName) = Queries!Rendered(s1[f], QueryName, TRUE)
  <2>1. Queries!Suffixed(value.suffix) = "sql"
    BY <1>2 DEF Queries!Value, Queries!QuerySuffix, Queries!Suffixed
  <2>2. PICK name, suffix : name = value.name /\ suffix = value.suffix
    OBVIOUS
  <2>3. PICK f \in DOMAIN s1 : f.name = name /\ Queries!ReadQueryFile(name, suffix) = s1[f]
    BY <1>2, <2>1, <2>2, FileFound
  <2>4. s1[f] # None
    BY <1>0 DEF QueryInv
  <2>5. Queries!RenderQuery(value, inline, QueryName) = Queries!Rendered(s1[f], QueryName, TRUE)
    BY <1>2, <2>2, <2>3, <2>4 DEF Queries!RenderQuery
  <2> QED
    BY <2>2, <2>3, <2>5
<1> QED
  BY <1>1, <1>2

(* A statement is run as it is written whatever query files come and go,   *)
(* and a name is looked up as a name; a placeholder that a rendering leaves*)
(* is warned of, and nothing is lost of the template but its end: for any  *)
(* names, packages, folders and texts (data/read, looks_like_sql_path;     *)
(* queries, read_query; templating, render_template).                      *)
THEOREM QueriesAreAsMeant == ValuesSpec => []QueriesAreMeant
<1> DEFINE Inv == part = "queries" => QueryInv
<1>1. Init => Inv
  BY QueryBegins DEF Init
<1>2. Inv /\ [Next]_valuesVars => Inv'
  <2>1. SUFFICES ASSUME Inv, [Next]_valuesVars, part' = "queries", part = "queries" PROVE QueryInv'
    BY DEF Next, valuesVars
  <2>2. CASE Queries!QueryFilesNext
    BY <2>1, <2>2, QueriesKeep
  <2>3. CASE UNCHANGED valuesVars
    BY <2>1, <2>3 DEF valuesVars, QueryInv
  <2> QED
    BY <2>1, <2>2, <2>3 DEF Next
<1>3. Inv => QueriesAreMeant
  BY StatementsStand, PlaceholdersFound DEF QueriesAreMeant
<1> QED
  BY <1>1, <1>2, <1>3, PTL DEF ValuesSpec
=============================================================================
