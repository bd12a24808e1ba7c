------------------------------ MODULE Logging -------------------------------
(***************************************************************************)
(* The logger of log_func (mayutils.environment.logging): a clone that the *)
(* logging module does not know, to which decorated calls attach handlers  *)
(* for as long as they run, and whose level a with-block restores.  The    *)
(* logging module is external: it caches which levels are enabled, and     *)
(* forgets that for the loggers it knows.                                  *)
(***************************************************************************)
EXTENDS Integers, Sequences, Python

CONSTANTS
  LogThread,
  Handler,
  Target,    \* what is decorated, a function or a class, with what it is given; its
             \* handlers are a set, as their order changes nothing here
  SetLevels, \* the levels that programs set
  MaxLogCalls, \* bound: the decorated calls in all
  MaxSets    \* bound: how often a level is set or a with-block begins

\* What a logger is: its cache holds of some levels whether they are enabled.
Logger == [level : Nat, previous : Nat \cup {None}, handlers : SUBSET Handler,
           cache : SUBSET (Nat \X BOOLEAN)]

ASSUME LoggingAssumption ==
  /\ SetLevels \subseteq Nat
  /\ None \notin Logger \cup Nat
  /\ \A target \in Target : target.handlers \subseteq Handler \cup {None}
  /\ MaxLogCalls \in Nat
  /\ MaxSets \in Nat

Debug == 10
Warning == 30
Error == 40

VARIABLES
  rootLevel, \* the level of the root logger
  logger,    \* the global logger, None before the first decorated call
  frames,    \* each thread's decorated calls, the innermost first
  withs,     \* history: the levels at the beginning of the open with-blocks
  overlaps,  \* history: a with-block began within another
  logCalls,
  sets

loggingVars == <<rootLevel, logger, frames, withs, overlaps, logCalls, sets>>

-----------------------------------------------------------------------------
\* log_func, on a function: the handlers that are not None, and what it logs
LogFunc(target) ==
  [handlers |-> target.handlers \ {None},
   level |-> target.level, entry |-> target.entry, exit |-> target.exit,
   exception |-> target.exception]

\* log_class: every attribute that is callable and no dunder, private ones too
LogClass(target) ==
  {LogFunc(target) : a \in {b \in target.attributes : ~b.dunder /\ b.callable}}

\* log
Log(target) == IF target.attributes = None THEN {LogFunc(target)} ELSE LogClass(target)

Logged == UNION {Log(target) : target \in Target}

-----------------------------------------------------------------------------
\* Logger.__init__ and clone, of the logging module's logger of the module: level
\* NOTSET, no handlers, and an empty cache of its own
Clone == [level |-> 0, previous |-> None, handlers |-> {}, cache |-> {}]

\* spawn, and get_logger, of which two threads may get two alike
GetLogger == IF logger = None THEN Clone ELSE logger

\* getEffectiveLevel, and isEnabledFor with its cache
Effective(lg) == IF lg.level # 0 THEN lg.level ELSE rootLevel
Enabled(lg, l) ==
  \/ <<l, TRUE>> \in lg.cache
  \/ <<l, FALSE>> \notin lg.cache /\ l >= Effective(lg)

\* dispatch: the number of the level, and the effective one for a name that is none
LevelInt(lg, level) == IF level \in {Debug, Warning, Error} THEN level ELSE Effective(lg)

LoggingInit ==
  /\ rootLevel = Warning
  /\ logger = None
  /\ frames = [t \in LogThread |-> <<>>]
  /\ withs = <<>>
  /\ overlaps = FALSE
  /\ logCalls = 0
  /\ sets = 0

Shares(f, g) == f.handlers \cap g.handlers # {}

Top2(t) == Head(frames[t])

Phase(t, phase) == frames[t] # <<>> /\ Top2(t).phase = phase

\* The wrapper: the logger, and the first of the handlers to attach.  Calls that
\* share a handler are not alone.
CallLogged(t, f) ==
  LET meets == \E u \in LogThread : \E i \in DOMAIN frames[u] : Shares(frames[u][i].f, f)
      frame == [f |-> f, phase |-> "attach", todo |-> f.handlers,
                sent |-> {}, got |-> {}, alone |-> ~meets]
      met == [u \in LogThread |-> [i \in DOMAIN frames[u] |->
                IF Shares(frames[u][i].f, f) THEN [frames[u][i] EXCEPT !.alone = FALSE]
                ELSE frames[u][i]]]
  IN
  /\ logCalls < MaxLogCalls
  /\ logCalls' = logCalls + 1
  /\ frames[t] # <<>> => Top2(t).phase = "body"
  /\ logger' = GetLogger
  /\ frames' = [met EXCEPT ![t] = <<frame>> \o @]
  /\ UNCHANGED <<rootLevel, withs, overlaps, sets>>

\* attach_handler, addHandler, of the next: a handler is there once
Attach(t) ==
  /\ Phase(t, "attach")
  /\ \/ /\ Top2(t).todo = {}
        /\ frames' = [frames EXCEPT ![t][1].phase = "entry"] /\ UNCHANGED logger
     \/ \E h \in Top2(t).todo :
          /\ logger' = [logger EXCEPT !.handlers = @ \cup {h}]
          /\ frames' = [frames EXCEPT ![t][1].todo = @ \ {h}]
  /\ UNCHANGED <<rootLevel, withs, overlaps, logCalls, sets>>

\* dispatch: the record goes to the handlers that are attached, when it is enabled;
\* a level that the cache does not hold is looked up and cached.
Heard(x, message, on) ==
  [x EXCEPT !.sent = IF on THEN @ \cup {message} ELSE @,
            !.got = IF on THEN @ \cup {<<h, message>> : h \in logger.handlers} ELSE @]
Turn(x, phase) == [x EXCEPT !.phase = phase, !.todo = x.f.handlers]

Dispatch(t, message, level, phase) ==
  LET l == LevelInt(logger, level)
      on == Enabled(logger, l)
  IN
  /\ logger' = [logger EXCEPT !.cache = @ \cup {<<l, on>>}]
  /\ frames' = [frames EXCEPT ![t][1] = Turn(Heard(@, message, on), phase)]

Quietly(t, phase) ==
  /\ frames' = [frames EXCEPT ![t][1] = Turn(@, phase)]
  /\ UNCHANGED logger

\* The entry's message.
LogEntry(t) ==
  /\ Phase(t, "entry")
  /\ IF Top2(t).f.entry THEN Dispatch(t, "entry", Top2(t).f.level, "body")
     ELSE Quietly(t, "body")
  /\ UNCHANGED <<rootLevel, withs, overlaps, logCalls, sets>>

\* Mutant of LogOutcome: the handlers of a call that raises stay, without the finally.
LogOutcomeUnprotected(t, raised) ==
  /\ Phase(t, "body")
  /\ IF raised
     THEN frames' = [frames EXCEPT ![t] = Tail(@)] /\ UNCHANGED logger
     ELSE IF Top2(t).f.exit THEN Dispatch(t, "outcome", Top2(t).f.level, "detach")
          ELSE Quietly(t, "detach")
  /\ UNCHANGED <<rootLevel, withs, overlaps, logCalls, sets>>

\* The function returns or raises, with what is logged of it.
LogOutcome(t, raised) ==
  /\ Phase(t, "body")
  /\ IF raised
     THEN IF Top2(t).f.exception THEN Dispatch(t, "outcome", Error, "detach")
          ELSE Quietly(t, "detach")
     ELSE IF Top2(t).f.exit THEN Dispatch(t, "outcome", Top2(t).f.level, "detach")
          ELSE Quietly(t, "detach")
  /\ UNCHANGED <<rootLevel, withs, overlaps, logCalls, sets>>

\* The finally of the wrapper.
Detach(t) ==
  /\ Phase(t, "detach")
  /\ \/ /\ Top2(t).todo = {}
        /\ frames' = [frames EXCEPT ![t] = Tail(@)] /\ UNCHANGED logger
     \/ \E h \in Top2(t).todo :
          /\ logger' = [logger EXCEPT !.handlers = @ \ {h}]
          /\ frames' = [frames EXCEPT ![t][1].todo = @ \ {h}]
  /\ UNCHANGED <<rootLevel, withs, overlaps, logCalls, sets>>

-----------------------------------------------------------------------------
Sets == sets < MaxSets /\ sets' = sets + 1

\* __enter__
EnterWith ==
  /\ Sets
  /\ logger # None
  /\ logger' = [logger EXCEPT !.previous = logger.level]
  /\ overlaps' = (overlaps \/ withs # <<>>)
  /\ withs' = <<logger.level>> \o withs
  /\ UNCHANGED <<rootLevel, frames, logCalls>>

\* setLevel within a with-block: the logging module forgets the caches of the
\* loggers that it knows, and so not this one's
SetLevel(level) ==
  /\ Sets
  /\ withs # <<>>
  /\ logger' = [logger EXCEPT !.level = level]
  /\ UNCHANGED <<rootLevel, frames, withs, overlaps, logCalls>>

\* configure: the handlers of the root logger, and its level
Configure ==
  /\ Sets
  /\ rootLevel' = Debug
  /\ UNCHANGED <<logger, frames, withs, overlaps, logCalls>>

\* __exit__
ExitWith ==
  /\ withs # <<>>
  /\ withs' = Tail(withs)
  /\ logger' = IF logger.previous = None THEN logger
               ELSE [logger EXCEPT !.level = logger.previous, !.previous = None]
  /\ UNCHANGED <<rootLevel, frames, overlaps, logCalls, sets>>

LoggingNext ==
  \/ \E t \in LogThread :
       \/ \E f \in Logged : CallLogged(t, f)
       \/ Attach(t) \/ LogEntry(t) \/ Detach(t)
       \/ \E raised \in BOOLEAN : LogOutcome(t, raised)
  \/ EnterWith \/ Configure \/ ExitWith
  \/ \E level \in SetLevels : SetLevel(level)

LoggingSpec == LoggingInit /\ [][LoggingNext]_loggingVars

-----------------------------------------------------------------------------
(* The handlers of log_func are "temporarily attached per call" (logging,  *)
(* log_func): when no decorated call runs none is left, however calls of   *)
(* several threads, recursive ones and ones that raise share handlers and  *)
(* logger.                                                                 *)
HandlersLeave ==
  logger # None =>
    \A h \in logger.handlers :
      \E t \in LogThread : \E i \in DOMAIN frames[t] : h \in frames[t][i].f.handlers

(* Each handler of a call gets the call's messages that are enabled        *)
(* (logging, log_func), unless a call that shares it began meanwhile: that *)
(* one's end takes the handler away from both.                             *)
MessagesArrive ==
  \A t \in LogThread : \A i \in DOMAIN frames[t] :
    frames[t][i].phase = "detach" /\ frames[t][i].alone =>
      \A h \in frames[t][i].f.handlers, m \in frames[t][i].sent :
        <<h, m>> \in frames[t][i].got

(* The two: a handler is on the logger for its calls, and hears them.      *)
HandlersServeTheirCalls == HandlersLeave /\ MessagesArrive
=============================================================================
