------------------------------- MODULE Names -------------------------------
(***************************************************************************)
(* The forms that String of objects/strings gives a name: its words, in    *)
(* snake, kebab, camel, pascal, title and sentence form, and the slug.  A  *)
(* character is told apart by what the patterns look at: it is a capital,  *)
(* a small letter, a digit or a separator.                                 *)
(***************************************************************************)
EXTENDS Integers, Sequences, SequencesExt, FiniteSets

CONSTANTS
  MaxLength,  \* bound: the length of a name
  Separators, \* the separators that a name has at first
  SlugLengths \* the max_length of a slug

VARIABLES
  name,   \* a name, in the form that it was given last
  words,  \* history: the words of the name as it was first
  forms   \* history: the forms it was given

Capital == {"A"}
Small == {"a"}
Digit == {"1"}
Separator == {"_", "-", " "}
Lower(c) == IF c \in Capital THEN "a" ELSE c
Upper(c) == IF c \in Small THEN "A" ELSE c
Lowered(s) == [i \in DOMAIN s |-> Lower(s[i])]
Capitalised(s) == [i \in DOMAIN s |-> IF i = 1 THEN Upper(s[i]) ELSE Lower(s[i])]

Precedes(s, i, class) == i > 1 /\ s[i - 1] \in class
Follows(s, i, class) == i < Len(s) /\ s[i + 1] \in class

\* the pieces of s that begin at starts, and those between what parts them
Pieces(s, starts, parting) ==
  LET cut == FoldLeft(LAMBDA pieces, i :
                 IF s[i] \in parting THEN Append(pieces, <<>>)
                 ELSE IF i \in starts \/ pieces = <<>> THEN Append(pieces, <<s[i]>>)
                 ELSE [pieces EXCEPT ![Len(pieces)] = Append(@, s[i])],
               <<>>, [i \in DOMAIN s |-> i])
  IN SelectSeq(cut, LAMBDA piece : piece # <<>>)
Joined(pieces, by) == FlattenSeq([k \in DOMAIN pieces |-> IF k = 1 THEN pieces[k] ELSE by \o pieces[k]])

-----------------------------------------------------------------------------
\* to_snake: a run of capitals begins a word, and a capital before a small letter;
\* a "_" that is there stays
ToSnake(s) ==
  LET starts == {i \in DOMAIN s : s[i] \in Capital /\ (~Precedes(s, i, Capital) \/ Follows(s, i, Small))}
  IN Lowered(Joined(Pieces(s, starts, {"-", " "}), <<"_">>))

\* _words
Words(s) == Pieces(ToSnake(s), {}, {"_"})

\* Mutant of ToKebab: the run of capitals before a word is not looked for.
ToKebabPlain(s) ==
  LET starts == {i \in DOMAIN s : s[i] \in Capital /\ Precedes(s, i, Small \cup Digit)}
  IN Lowered(Joined(Pieces(s, starts, Separator), <<"-">>))
\* to_kebab: the last of a run of capitals begins a word when a small letter follows
ToKebab(s) ==
  LET starts == {i \in DOMAIN s : /\ s[i] \in Capital
                                  /\ \/ Precedes(s, i, Capital) /\ Follows(s, i, Small)
                                     \/ Precedes(s, i, Small \cup Digit)}
  IN Lowered(Joined(Pieces(s, starts, Separator), <<"-">>))

Capitals(s) == LET parts == Words(s) IN [k \in DOMAIN parts |-> Capitalised(parts[k])]
ToPascal(s) == Joined(Capitals(s), <<>>)
ToTitle(s) == Joined(Capitals(s), <<" ">>)
ToCamel(s) ==
  LET parts == Words(s) IN Joined([k \in DOMAIN parts |-> IF k = 1 THEN parts[k] ELSE Capitalised(parts[k])], <<>>)
ToSentence(s) ==
  LET parts == Words(s) IN Joined([k \in DOMAIN parts |-> IF k = 1 THEN Capitalised(parts[k]) ELSE parts[k]], <<" ">>)

\* to_slug: separators come to one "_", and none is at the ends, also of what is cut
RStripped(s) == SubSeq(s, 1, CHOOSE n \in 0 .. Len(s) :
  (\A i \in n + 1 .. Len(s) : s[i] = "_") /\ (n = 0 \/ s[n] # "_"))
ToSlug(s, length) ==
  LET slug == Joined(Pieces(Lowered(s), {}, Separator), <<"_">>)
  IN RStripped(SubSeq(slug, 1, IF length < Len(slug) THEN length ELSE Len(slug)))

-----------------------------------------------------------------------------
Form == [snake |-> ToSnake(name), kebab |-> ToKebab(name), camel |-> ToCamel(name), pascal |-> ToPascal(name),
         title |-> ToTitle(name), sentence |-> ToSentence(name)]

NamesInit ==
  /\ \E n \in 1 .. MaxLength : name \in [1..n -> Capital \cup Small \cup Digit \cup Separators]
  /\ words = Words(name)
  /\ forms = {}

Convert(form) == name' = Form[form] /\ forms' = forms \cup {form} /\ UNCHANGED words
Slug(length) ==
  /\ name' = ToSlug(name, length)
  /\ forms' = forms \cup {"slug"}
  /\ UNCHANGED words

NamesNext ==
  \/ \E form \in DOMAIN Form : Convert(form)
  \/ \E length \in SlugLengths : Slug(length)

-----------------------------------------------------------------------------
\* A form without separators keeps a word apart when a letter begins it and a small
\* letter comes next.
KeptApart == \A k \in DOMAIN words : words[k][1] \in Small /\ (Len(words[k]) > 1 => words[k][2] \in Small) /\ Len(words[k]) > 1

(* A name has the same words after any chain of conversions to snake,      *)
(* kebab, title and sentence form, whose patterns are not the same         *)
(* (strings, to_snake and to_kebab), and also of camel and pascal form when*)
(* its words are of letters, two or more each.                             *)
FormsKeepWords ==
  /\ forms \cap {"camel", "pascal", "slug"} = {} \/ (KeptApart /\ "slug" \notin forms) => Words(name) = words
  /\ forms = {"slug"} => name = ToSlug(name, Len(name)) /\ (name # <<>> => name[1] # "_")
=============================================================================
