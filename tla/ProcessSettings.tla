--------------------------- MODULE ProcessSettings ---------------------------
(***************************************************************************)
(* What is kept once for a whole process: the hooks that print, show and   *)
(* report (visualisation/console), the local time zone (Tz of              *)
(* objects/datetime/timezone) and the table of the extras that a missing   *)
(* module is in (core/extras).  rich, pendulum and importlib are external. *)
(***************************************************************************)
EXTENDS Integers, Sequences, SequencesExt, FiniteSets, Python

CONSTANTS
  Switch,    \* "print", "traceback" and "pretty"
  Console,   \* consoles of the caller's
  Zone,      \* what zones are made of: <<"name", its name>> or <<"offset", seconds>>
  Requires,  \* the Requires-Dist lines of the package: distribution, extra and another marker
  TopLevel,  \* what top_level.txt of an installed distribution says: modules, or {}
  Fallback,  \* the modules of a distribution by DIST_MODULE_OVERRIDES or by its name
  MaxBlocks  \* bound: the with-blocks that are open at once

\* None of the hooks of Python or of a caller's is that of a console.
SettingsAssumption ==
  /\ "print" \in Switch
  /\ (Console \cup {"CONSOLE"}) \cap {"plain", "theirs", None} = {} /\ None \notin {"plain", "theirs"}

VARIABLES
  printing,   \* the hook of each switch, and _state: what it stands in for, or None
  blocks,     \* the open blocks, innermost first: what each puts back
  disturbed,  \* history: blocks were left out of order, or replace_print over a change
  zone,       \* the local zone that was set, or None for the system's
  tests,      \* the zones of the open blocks of test_local, innermost first
  leaked,     \* history: the zones of blocks that an exception ended, since one ended well
  chosen,     \* history: the zone that set_local set last
  installed,  \* the distributions that are installed
  table,      \* load_extras_map's only cached result: what it is, and of which distributions
  hint,       \* the last hint: of which module, in how many blocks, what it names
  settled     \* history: what calls outside of all blocks left of printing; None when
              \* one was in a replace_print alone, whose end undoes part of it

PrintingVars == <<printing, blocks, disturbed, settled>>
ZoneVars == <<zone, tests, leaked, chosen>>
ExtrasVars == <<installed, table, hint>>

Distribution == DOMAIN TopLevel

SettingsInit ==
  /\ printing = [hook |-> [s \in Switch |-> "plain"], saved |-> [s \in Switch |-> None]]
  /\ blocks = <<>> /\ disturbed = FALSE /\ settled = printing
  /\ zone = None /\ tests = <<>> /\ leaked = {} /\ chosen = None
  /\ installed = {}
  /\ table = None /\ hint = None

-----------------------------------------------------------------------------
\* __getattr__ makes the console of the module at its first use
Resolved(console) == IF console = None THEN "CONSOLE" ELSE console
Consoles == Console \cup {"CONSOLE"}

\* setup_printing: a hook that is there already stays
Rich(now, console, switches) ==
  LET new == {s \in switches : now.saved[s] = None} IN
  [hook |-> [s \in Switch |-> IF s \in new THEN Resolved(console) ELSE now.hook[s]],
   saved |-> [s \in Switch |-> IF s \in new THEN now.hook[s] ELSE now.saved[s]]]

\* teardown_printing
Plain(now, switches) ==
  LET old == {s \in switches : now.saved[s] # None} IN
  [hook |-> [s \in Switch |-> IF s \in old THEN now.saved[s] ELSE now.hook[s]],
   saved |-> [s \in Switch |-> IF s \in old THEN None ELSE now.saved[s]]]

InBlock == \E k \in DOMAIN blocks : blocks[k].kind = "block"
Called ==
  /\ settled' = IF blocks = <<>> THEN printing' ELSE IF InBlock THEN settled ELSE None
  /\ UNCHANGED <<blocks, disturbed, ZoneVars, ExtrasVars>>
SetupPrinting(console, switches) == printing' = Rich(printing, console, switches) /\ Called
TeardownPrinting(switches) == printing' = Plain(printing, switches) /\ Called

\* _snapshot
Opened(kind, before, inside) ==
  Len(blocks) < MaxBlocks /\ blocks' = <<[kind |-> kind, before |-> before, inside |-> inside]>> \o blocks
OpenedBlock == Opened("block", printing, None)

RichPrinting(console, switches) ==
  printing' = Rich(printing, console, switches) /\ OpenedBlock /\ UNCHANGED <<disturbed, settled, ZoneVars, ExtrasVars>>
PlainPrinting(switches) ==
  printing' = Plain(printing, switches) /\ OpenedBlock /\ UNCHANGED <<disturbed, settled, ZoneVars, ExtrasVars>>
ReplacePrint(method) ==
  /\ printing' = IF method = None THEN printing ELSE [printing EXCEPT !.hook["print"] = method]
  /\ Opened("replace", printing.hook["print"], <<printing'.hook["print"], printing'.saved["print"]>>)
  /\ UNCHANGED <<disturbed, settled, ZoneVars, ExtrasVars>>

\* Mutant of Restored: the hooks and not the state.
RestoredHooks(block) ==
  IF block.kind = "block" THEN [printing EXCEPT !.hook = block.before.hook]
  ELSE [printing EXCEPT !.hook["print"] = block.before]
\* _restore, and the end of replace_print
Restored(block) ==
  IF block.kind = "block" THEN block.before
  ELSE [printing EXCEPT !.hook["print"] = block.before]

\* The block at k ends, well or by an exception; threads end theirs in any order.
LeaveBlock(k) ==
  LET block == blocks[k] IN
  /\ printing' = Restored(block)
  /\ blocks' = RemoveAt(blocks, k)
  /\ disturbed' = \/ disturbed \/ k # 1
                  \/ block.kind = "replace" /\ block.inside # <<printing.hook["print"], printing.saved["print"]>>
  /\ settled' = IF k # 1 THEN None ELSE settled
  /\ UNCHANGED <<ZoneVars, ExtrasVars>>

\* safe_printer: what goes to a file goes to the print of Python
PrintsTo(hook, file) == IF hook \in Consoles /\ file THEN "plain" ELSE hook

ConsoleNext ==
  \/ \E switches \in {Switch, {"print"}} :
       \/ \E console \in Console \cup {None} : SetupPrinting(console, switches) \/ RichPrinting(console, switches)
       \/ TeardownPrinting(switches) \/ PlainPrinting(switches)
  \/ \E method \in {None, "theirs"} : ReplacePrint(method)
  \/ \E k \in DOMAIN blocks : LeaveBlock(k)

-----------------------------------------------------------------------------
(* A name gives a Tz, which can be set; a number a zone of pendulum's own, *)
(* which has neither set_local nor test_local.                             *)
Spawn(name) == [name |-> name, is |-> IF name[1] = "offset" THEN "FixedTimezone" ELSE "Tz"]

\* local: without a zone that was set the one of the system
System == <<"name", "system">>
Local == IF zone = None THEN System ELSE zone

SetLocal(name) ==
  /\ Spawn(name).is = "Tz"
  /\ zone' = name /\ chosen' = name /\ leaked' = {}
  /\ UNCHANGED <<tests, PrintingVars, ExtrasVars>>

EnterTestLocal(name) ==
  /\ Spawn(name).is = "Tz" /\ Len(tests) < MaxBlocks
  /\ tests' = <<name>> \o tests
  /\ zone' = name
  /\ UNCHANGED <<leaked, chosen, PrintingVars, ExtrasVars>>

\* pendulum: the zone of the system comes back, and none after an exception
LeaveTestLocal(raises) ==
  /\ tests # <<>>
  /\ tests' = Tail(tests)
  /\ zone' = IF raises THEN zone ELSE None
  /\ leaked' = IF raises THEN leaked \cup {Head(tests)} ELSE {}
  /\ UNCHANGED <<chosen, PrintingVars, ExtrasVars>>

ZoneNext ==
  \/ \E name \in Zone : SetLocal(name) \/ EnterTestLocal(name)
  \/ \E raises \in BOOLEAN : LeaveTestLocal(raises)

-----------------------------------------------------------------------------
(* A line's markers, and the names of extras, are sequences of what "and"  *)
(* parts: "pandas" is <<"p", "and", "as">>.                                *)
Markers(line) == (IF line.python THEN <<"python", "and">> ELSE <<>>) \o
                 (IF line.extra = None THEN <<>> ELSE <<"extra", "==">> \o line.extra)

\* parse_requires_dist_line: the rest of the first clause that begins with "extra"
ParsedExtra(line) ==
  LET markers == Markers(line)
      ends == {i \in DOMAIN markers : markers[i] = "and"} \cup {Len(markers) + 1}
      begins == {i \in DOMAIN markers : markers[i] = "extra" /\ (i = 1 \/ markers[i - 1] = "and")}
  IN IF begins = {} THEN None
     ELSE LET i == CHOOSE i \in begins : \A j \in begins : i <= j
              end == CHOOSE e \in ends : e > i /\ \A f \in ends : f > i => e <= f
          IN SubSeq(markers, i + 2, end - 1)

\* modules_for_distribution
ModulesForDistribution(distribution) ==
  IF distribution \in installed /\ TopLevel[distribution] # {} THEN TopLevel[distribution] ELSE Fallback[distribution]

\* Mutant of LoadExtrasMap: the extra of a module's last line.
LoadExtrasMapLast ==
  LET lines(module) == {k \in DOMAIN Requires : module \in ModulesForDistribution(Requires[k].dist)}
  IN [module \in UNION {ModulesForDistribution(Requires[k].dist) : k \in DOMAIN Requires} |->
        {ParsedExtra(Requires[CHOOSE k \in lines(module) : \A j \in lines(module) : j <= k])}]
\* load_extras_map, of the lines that have an extra
LoadExtrasMap ==
  LET lines == {k \in DOMAIN Requires : ParsedExtra(Requires[k]) # None}
  IN [module \in UNION {ModulesForDistribution(Requires[k].dist) : k \in lines} |->
        {ParsedExtra(Requires[k]) : k \in {k \in lines : module \in ModulesForDistribution(Requires[k].dist)}}]

Table == IF table = None THEN [of |-> installed, extras |-> LoadExtrasMap] ELSE table

\* extras_for_module: a dotted name is looked up by ever fewer of its parts
ExtrasForModule(name) ==
  LET known == {k \in 1 .. Len(name) : SubSeq(name, 1, k) \in DOMAIN Table.extras}
  IN IF known = {} THEN {} ELSE Table.extras[SubSeq(name, 1, CHOOSE k \in known : \A j \in known : j <= k)]

\* requires_extras with the extras given, or may_require_extras, around a module that
\* is not there; every block around adds a hint
MissingModule(name, extras, depth) ==
  /\ hint' = [of |-> name, given |-> extras,
              names |-> [block \in 1 .. depth |-> IF extras # {} THEN extras ELSE ExtrasForModule(name)]]
  /\ table' = IF extras = {} THEN Table ELSE table
  /\ UNCHANGED <<installed, PrintingVars, ZoneVars>>

InstallOrRemove(distribution) ==
  /\ installed' = IF distribution \in installed THEN installed \ {distribution} ELSE installed \cup {distribution}
  /\ UNCHANGED <<table, hint, PrintingVars, ZoneVars>>

AllModules == UNION {TopLevel[d] \cup Fallback[d] : d \in Distribution}
ExtrasNext ==
  \/ \E name \in AllModules \cup {Append(module, "part") : module \in AllModules} :
       \E extras \in {{}, {<<"given">>}}, depth \in 1 .. 2 : MissingModule(name, extras, depth)
  \/ \E distribution \in Distribution : InstallOrRemove(distribution)

-----------------------------------------------------------------------------
(* However calls and blocks of setup_printing, teardown_printing,          *)
(* rich_printing, plain_printing and replace_print follow and nest (console*)
(* _snapshot and _restore): as long as blocks end in order, and none of    *)
(* replace_print over a change within, _state says that a hook is rich just*)
(* when it is, but for print in a replace_print; and what it stands in for *)
(* is never a console's, so that teardown gives the plain hook back.       *)
PrintingIsTold ==
  ~disturbed =>
    \A s \in Switch :
      /\ printing.saved[s] \notin Consoles
      /\ s # "print" \/ (\A k \in DOMAIN blocks : blocks[k].kind # "replace") =>
           /\ printing.saved[s] # None <=> printing.hook[s] \in Consoles
           /\ PrintsTo(printing.hook[s], TRUE) = "plain"

(* However blocks nest, and whatever setup_printing and teardown_printing  *)
(* do within them, once all have ended in order the hooks and _state are   *)
(* what the calls outside of blocks left.  A call in a replace_print that  *)
(* is in no other block counts as outside, but is undone in part: of those *)
(* nothing is said.                                                        *)
BlocksPutBack == settled # None /\ blocks = <<>> => printing = settled

(* "Restores the previous value on exit" (timezone:333-334): of the zone of*)
(* the system that is so, and after a block that ended well nothing is left*)
(* of those that an exception ended.  It is not so, though, of a zone that *)
(* set_local chose and of an enclosing block's: pendulum goes back to the  *)
(* system's from both; and an exception leaves the zone of the block.  So  *)
(* the zone is the system's, the chosen one, an open block's, or one that  *)
(* an exception left.                                                      *)
ZoneIsAccountedFor ==
  /\ Local \in {System, chosen} \cup leaked \cup {tests[k] : k \in DOMAIN tests}
  /\ tests = <<>> /\ leaked = {} => Local \in {System, chosen}
  /\ tests = <<>> /\ leaked = {} /\ chosen = None => Local = System

(* What blocks make of the hooks goes when they end, _state says which     *)
(* hooks are rich, and a zone is the one that somebody's call or block     *)
(* explains, as in the three above.                                        *)
SettingsReturn == PrintingIsTold /\ BlocksPutBack /\ ZoneIsAccountedFor

Provides(line, name) ==
  LET modules == IF line.dist \in table.of /\ TopLevel[line.dist] # {} THEN TopLevel[line.dist] ELSE Fallback[line.dist]
  IN \E k \in 1 .. Len(name) : SubSeq(name, 1, k) \in modules
Promised(of) == {Requires[k].extra : k \in {k \in DOMAIN Requires : Requires[k].extra # None /\ Provides(Requires[k], of)}}
HasAnd(extra) == \E k \in DOMAIN extra : extra[k] = "and"

(* A hint names every extra that a missing module is in, and no other      *)
(* (extras, format_missing_extra_hint), as the distributions said that were*)
(* installed when the table was first asked for: but for extras with "and" *)
(* in their names.                                                         *)
HintsNameTheExtras ==
  hint # None /\ hint.given = {} =>
    \A k \in DOMAIN hint.names :
      LET plain(extras) == {extra \in extras : ~HasAnd(extra)} IN
      /\ plain(Promised(hint.of)) \subseteq hint.names[k]
      /\ \A extra \in hint.names[k] : \/ extra \in Promised(hint.of)
                                      \/ \E cut \in Promised(hint.of) : HasAnd(cut) /\ extra[1] = cut[1]

(* "the name of the extras group the requirement belongs to" (extras:222): *)
(* so a hint names an extra that there is.                                 *)
HintsAreActionable ==
  hint # None /\ hint.given = {} => \A k \in DOMAIN hint.names : hint.names[k] = Promised(hint.of)
=============================================================================
