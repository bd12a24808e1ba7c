------------------------------ MODULE Colours ------------------------------
(***************************************************************************)
(* Colour of objects/colours: colours that are changed in place, the named *)
(* ones of the module among them, and the texts that they are written to   *)
(* and parsed from.  The parser of PIL, the conversions of colorsys and the*)
(* table of CSS names are external.  A channel is counted in parts of a    *)
(* unit, as blended channels are fractions; so is the opacity.  Whether    *)
(* the channels are floats is kept apart: 255.0 is not written as 255 is.  *)
(***************************************************************************)
EXTENDS Integers, Sequences, FiniteSets, Python

CONSTANTS
  Digit,   \* the digits of a channel's text have this base: 16
  Parts,   \* the parts of a unit that are told apart
  Levels,  \* the channels that new colours have, of 0 .. Top
  Named,   \* what CSS has a name for: channels
  MaxMade  \* bound: the colours that are made

VARIABLES
  colours,  \* the objects: 1 is the shared one of the module, SPECTRUM or TRANSPARENT
  parsed    \* the last text that was written and parsed: the colour it is of, and the outcome

Top == Digit * Digit - 1   \* 255
Third == Digit + 1         \* 17, a digit twice
Colour(r, g, b, a) == [r |-> r, g |-> g, b |-> b, a |-> a, float |-> FALSE]
Opaque == Parts
Whole(x) == x % Parts = 0
IsWhole(c) == Whole(c.r) /\ Whole(c.g) /\ Whole(c.b)

\* __post_init__
Valid(c) == (\A x \in {c.r, c.g, c.b} : x \in 0 .. Top * Parts) /\ c.a \in 0 .. Opaque

\* Python's round: to the even one of two that are as near
RoundedParts(n, parts) ==
  LET down == n \div parts
      rest == n % parts
  IN IF 2 * rest < parts THEN down ELSE IF 2 * rest > parts THEN down + 1
     ELSE IF down % 2 = 0 THEN down ELSE down + 1
Nearest(x) == RoundedParts(x, Parts) * Parts

\* round, of the opacity too: all four are ints then
RoundedColour(c) == Colour(Nearest(c.r), Nearest(c.g), Nearest(c.b), Nearest(c.a))

\* blend over what is opaque; the result is opaque, its channels those of one float
\* or more in the sum: an opacity is a float, but for a 0 or 1 that may be an int
Mix(x, y, a) == (x * a + y * (Parts - a)) \div Parts
Mixes(x, y, a) == (x * a + y * (Parts - a)) % Parts = 0  \* within the parts told apart
Floats(f, g) == IF f.a \in {0, Opaque} /\ ~f.float /\ ~g.float THEN BOOLEAN ELSE {TRUE}
Blend(f, g, float) ==
  [Colour(Mix(f.r, g.r, f.a), Mix(f.g, g.g, f.a), Mix(f.b, g.b, f.a), Opaque) EXCEPT !.float = float]

\* to_cmyk, as four fractions of one denominator; of black the inks are 0
Largest(c) == CHOOSE x \in {c.r, c.g, c.b} : \A y \in {c.r, c.g, c.b} : y <= x
ToCmyk(c) ==
  LET top == Largest(c) IN
  IF top = 0 THEN [of |-> Top * Parts, c |-> 0, m |-> 0, y |-> 0, k |-> Top * Parts]
  ELSE [of |-> top, c |-> top - c.r, m |-> top - c.g, y |-> top - c.b, k |-> Top * Parts - top]

-----------------------------------------------------------------------------
(* to_str: the form of the text, and the channels and the opacity in it;   *)
(* None when it raises.  Hexadecimal digits want ints: format x and hex.    *)
Methods == {"rgb", "rgba", "rgba?", "hex", "hexa", "hexa?", "hex3", "hsv", "hsva", "hsva?", "css", "cmyk"}

Text(form, c, a) == [form |-> form, c |-> <<c.r, c.g, c.b>>, a |-> a, float |-> c.float]
\* the two digits of the opacity
AlphaDigits(a) == RoundedParts(a * Top, Parts)

\* Mutant of ToStr: an opacity of nothing is left out.
ToStrTruthy(c, method) ==
  CASE method = "rgb" \/ (method = "rgba?" /\ c.a \in {0, Opaque}) -> Text("rgb", c, None)
    [] method \in {"rgba", "rgba?"} -> Text("rgba", c, c.a)
    [] OTHER -> None
ToStr(c, method) ==
  CASE method = "rgb" \/ (method = "rgba?" /\ c.a = Opaque) -> Text("rgb", c, None)
    [] method \in {"rgba", "rgba?"} -> Text("rgba", c, c.a)
    [] method = "hsv" \/ (method = "hsva?" /\ c.a = Opaque) -> Text("hsv", c, None)
    [] method \in {"hsva", "hsva?"} -> Text("hsva", c, c.a)
    [] method = "cmyk" -> Text("cmyk", c, None)
    [] c.float -> None
    [] method = "hex" \/ (method = "hexa?" /\ c.a = Opaque) -> Text("hex", c, None)
    [] method \in {"hexa", "hexa?"} -> Text("hexa", c, AlphaDigits(c.a))
    [] method = "hex3" -> IF \A x \in {c.r, c.g, c.b} : (x \div Parts) % Third = 0 THEN Text("hex", c, None) ELSE None
    [] method = "css" -> IF <<c.r \div Parts, c.g \div Parts, c.b \div Parts>> \in Named THEN Text("hex", c, None) ELSE None
    [] OTHER -> None

\* PIL: it reads rgb with channels of digits only, hexadecimal digits with an
\* opacity of 0 .. Top, fractions in hsv, and no cmyk
Getrgb(t) ==
  IF t.form = "cmyk" \/ (t.form \in {"rgb", "rgba"} /\ t.float) THEN None
  ELSE [i \in 1..3 |-> Nearest(t.c[i])]

\* parse: the opacity is cut off a text with commas, and that of hexadecimal digits
\* is taken as PIL gives it; None when it raises
Parse(t) ==
  LET rgb == Getrgb(t)
      opacity == IF t.form = "hexa" THEN t.a * Parts ELSE IF t.a = None THEN Opaque ELSE t.a
      colour == Colour(rgb[1], rgb[2], rgb[3], opacity)
  IN IF rgb = None THEN None ELSE IF Valid(colour) THEN colour ELSE None

\* hex_to_rgba, which takes the opacity of the digits in hundredths
HexToRgba(t) ==
  IF t.form \notin {"hex", "hexa"} THEN None
  ELSE [form |-> "rgba", c |-> t.c,
        a |-> IF t.form = "hex" THEN 100 ELSE RoundedParts(t.a * 100, Top)]

-----------------------------------------------------------------------------
ColoursInit ==
  /\ \E level \in Levels, a \in {0, Opaque} :
       colours = <<Colour(level * Parts, 0, level * Parts, a)>>
  /\ parsed = None

Make ==
  /\ Len(colours) < MaxMade
  /\ \E r, g \in Levels : \E a \in 0 .. Opaque : colours' = Append(colours, Colour(r * Parts, g * Parts, 0, a))
  /\ UNCHANGED parsed
\* Colours are changed where they are, the shared one for all who have it.
SetOpacity(i, a) == colours' = [colours EXCEPT ![i].a = a] /\ UNCHANGED parsed
Round(i) == colours' = [colours EXCEPT ![i] = RoundedColour(@)] /\ UNCHANGED parsed
BlendOver(i, j) ==
  /\ Len(colours) < MaxMade /\ colours[j].a = Opaque
  /\ LET f == colours[i]
         g == colours[j]
     IN /\ Mixes(f.r, g.r, f.a) /\ Mixes(f.g, g.g, f.a) /\ Mixes(f.b, g.b, f.a)
        /\ \E float \in Floats(f, g) : colours' = Append(colours, Blend(f, g, float))
  /\ UNCHANGED parsed

\* A text of the colour as it is now is parsed.
ParseText(i, method) ==
  LET text == ToStr(colours[i], method) IN
  /\ text # None
  /\ parsed' = [text |-> text, method |-> method, of |-> colours[i], colour |-> Parse(text)]
  /\ UNCHANGED colours

ColoursNext ==
  \/ Make
  \/ \E i \in DOMAIN colours :
       \/ \E a \in 0 .. Opaque : SetOpacity(i, a)
       \/ Round(i)
       \/ \E j \in DOMAIN colours : BlendOver(i, j)
       \/ \E method \in Methods : ParseText(i, method)

-----------------------------------------------------------------------------
(* A colour with whole channels that is written and parsed again is the    *)
(* same colour, opacity and all where the form has one (colours, to_str    *)
(* and parse), but for three texts: cmyk is not read; the eight digits     *)
(* parse refuses unless the opacity is 0, or takes 1 of Top for opaque; and*)
(* rgb of floats, which a blend leaves, is "255.0", which is not read.     *)
TextsReadBack ==
  parsed # None /\ IsWhole(parsed.of) =>
    LET c == [parsed.of EXCEPT !.float = FALSE] IN
    CASE parsed.text.form = "cmyk" -> parsed.colour = None
      [] parsed.text.form \in {"rgb", "rgba"} /\ parsed.of.float -> parsed.colour = None
      [] parsed.text.form = "hexa" -> parsed.colour # None => AlphaDigits(c.a) \in {0, 1}
      [] parsed.method \in {"rgba", "rgba?", "hsva", "hsva?"} -> parsed.colour = c
      [] OTHER -> parsed.colour = [c EXCEPT !.a = Opaque]

(* The eight digits, which parse misreads, are turned into a text of rgba  *)
(* with the opacity they were written from, as near as both roundings let  *)
(* it be (colours, to_str and hex_to_rgba); six digits are opaque.         *)
DigitsKeepOpacity ==
  parsed # None /\ parsed.text.form \in {"hex", "hexa"} =>
    LET css == HexToRgba(parsed.text)
        opacity == IF parsed.text.form = "hexa" THEN parsed.of.a ELSE Opaque
        error == 2 * Top * (css.a * Parts - 100 * opacity)
    IN css.c = parsed.text.c /\ error <= Parts * (100 + Top) /\ -error <= Parts * (100 + Top)

(* The inks of a colour and its black give its channels back, to the part  *)
(* (colours, to_cmyk), and no channel leaves its range in a blend.         *)
ChannelsAreKept ==
  \A i \in DOMAIN colours :
    LET c == colours[i]
        inks == ToCmyk(c)
        back(ink) == ((inks.of - ink) * (Top * Parts - inks.k)) \div inks.of
    IN Valid(c) /\ <<back(inks.c), back(inks.m), back(inks.y)>> = <<c.r, c.g, c.b>>
=============================================================================
