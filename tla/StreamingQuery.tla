--------------------------- MODULE StreamingQuery ---------------------------
(***************************************************************************)
(* mayutils.data.live.StreamingQuery: a frame that grows by the rows past  *)
(* a cursor, the greatest value of the cursor column read so far.  A row   *)
(* is its value in that column, here the time it is inserted at, which no  *)
(* two rows share.  The query template is "value > {{ cursor }}", and the  *)
(* cursor is rendered with time_format, which cuts it to its grain.        *)
(***************************************************************************)
EXTENDS Integers, FiniteSets, Sequences, SequencesExt, FiniteSetsExt

CONSTANTS
  Grain,           \* the unit of time_format
  MaxRows,         \* max_rows, or None
  MaxAge,          \* max_age, or None
  UpdateFrequency, \* update_frequency, or None
  Started,         \* bound: the object is built at this time
  Horizon,         \* bound: the clock stops there
  None             \* Python's None

\* validate_retention
StreamingQueryAssumption ==
  /\ Grain \in Nat \ {0}
  /\ None \notin Int
  /\ MaxRows \in (Nat \ {0}) \cup {None}
  /\ MaxAge \in (Nat \ {0}) \cup {None}
  /\ UpdateFrequency \in Nat \cup {None}
  /\ Started \in Nat
  /\ Horizon \in Nat

VARIABLES
  ordered, \* whether the query has an ORDER BY; it never changes
  table,   \* the rows at the source
  data,    \* self._data
  cursor,  \* self.cursor_value
  updated, \* self.last_updated
  base,    \* history: the cursor that data was first filled from
  escaped, \* history: an update has raised since
  now

vars == <<ordered, table, data, cursor, updated, base, escaped, now>>

TypeOK ==
  /\ ordered \in BOOLEAN
  /\ table \subseteq 1..now
  /\ data \in Seq(table)
  /\ cursor \in 0..now
  /\ updated \in 0..now
  /\ base \in 0..cursor
  /\ escaped \in BOOLEAN
  /\ now \in Nat

-----------------------------------------------------------------------------
\* The frames the reader may return for a set of rows.
Frames(delta) ==
  {d \in SetToSeqs(delta) : ordered => \A i, j \in DOMAIN d : i < j => d[i] < d[j]}

Cut(t) == t - (t % Grain)

\* Mutant of Fetched: the query is "value >= {{ cursor }}".
FetchedFrom(c) == {r \in table : r >= Cut(c)}

\* read_query, with the cursor rendered by the property cursor
Fetched(c) == {r \in table : r > Cut(c)}

\* fetch: the cursor after a frame with these rows
Advanced(c, delta) == IF delta = {} THEN c ELSE Max(delta)

\* BackendOperations.max, of the cursor's column
Newest(d) == Max(ToSet(d))
\* BackendOperations.filter_ge
AtLeast(d, least) ==
  LET kept[i \in 0..Len(d)] ==
        IF i = 0 THEN <<>>
        ELSE IF d[i] >= least THEN Append(kept[i - 1], d[i]) ELSE kept[i - 1]
  IN kept[Len(d)]
\* BackendOperations.tail
LastRows(d, n) == IF Len(d) > n THEN SubSeq(d, Len(d) - n + 1, Len(d)) ELSE d

\* apply_retention: by the age, from the newest row's rendered value, then by number
Retained(d) ==
  LET young == IF MaxAge # None /\ d # <<>>
               THEN AtLeast(d, Cut(Cut(Newest(d)) - MaxAge))
               ELSE d
  IN IF MaxRows # None THEN LastRows(young, MaxRows) ELSE young

ShouldUpdate(force) ==
  ~force /\ UpdateFrequency # None => now - updated > UpdateFrequency

\* __init__: fetches from initial_cursor, here 0; applies no retention.
Init ==
  /\ ordered \in BOOLEAN
  /\ now = Started
  /\ table \in SUBSET (1..Started)
  /\ data \in Frames({r \in table : r > 0})
  /\ cursor = Advanced(0, table)
  /\ updated = now
  /\ base = 0
  /\ escaped = FALSE

\* update within update_frequency of the last
Skip ==
  /\ ~ShouldUpdate(FALSE)
  /\ UNCHANGED <<ordered, table, data, cursor, updated, base, escaped, now>>

\* update: an empty delta changes nothing but last_updated
Update(force) ==
  LET delta == Fetched(cursor) IN
  /\ ShouldUpdate(force)
  /\ cursor' = Advanced(cursor, delta)
  /\ IF delta = {}
     THEN UNCHANGED data
     ELSE \E d \in Frames(delta) : data' = Retained(data \o d)
  /\ updated' = now
  /\ UNCHANGED <<ordered, table, base, escaped, now>>

\* update: the reader raises, the exception is logged
UpdateFails(force) ==
  /\ ShouldUpdate(force)
  /\ UNCHANGED <<ordered, table, data, cursor, updated, base, escaped, now>>

\* update: concat raises, outside of the try, for the delta does not fit the
\* frame (the types of its columns)
UpdateRaises(force) ==
  LET delta == Fetched(cursor) IN
  /\ ShouldUpdate(force)
  /\ delta # {}
  /\ cursor' = Advanced(cursor, delta)
  /\ escaped' = TRUE
  /\ UNCHANGED <<ordered, table, data, updated, base, now>>

Reset ==
  LET delta == Fetched(cursor) IN
  /\ data' \in Frames(delta)
  /\ cursor' = Advanced(cursor, delta)
  /\ base' = cursor
  /\ escaped' = FALSE
  /\ updated' = now
  /\ UNCHANGED <<ordered, table, now>>

ResetRaises ==
  /\ UNCHANGED <<ordered, table, data, cursor, updated, base, escaped, now>>

\* A row arrives at the source, with a greater value than all before.
Insert ==
  /\ now \notin table
  /\ now > 0
  /\ table' = table \cup {now}
  /\ UNCHANGED <<ordered, data, cursor, updated, base, escaped, now>>

Tick ==
  /\ now < Horizon
  /\ now' = now + 1
  /\ UNCHANGED <<ordered, table, data, cursor, updated, base, escaped>>

Next ==
  \/ Skip
  \/ \E force \in BOOLEAN : Update(force) \/ UpdateFails(force) \/ UpdateRaises(force)
  \/ Reset \/ ResetRaises
  \/ Insert \/ Tick

Spec == Init /\ [][Next]_vars

-----------------------------------------------------------------------------
(* "only rows past the previous cursor are fetched" (live.py,              *)
(* StreamingQuery): through any failures, resets and skipped updates, no   *)
(* row is in the frame twice.                                              *)
SeenOnce == IsInjective(data)

(* "Fetch new rows since the last cursor and append them" (live.py,        *)
(* StreamingQuery.update), "Maximum rows to retain", "Maximum age of rows  *)
(* to retain": a row that the cursor has passed since the frame was filled *)
(* by the constructor or a reset is in the frame, unless max_rows newer    *)
(* rows or a row newer by max_age have been read after it.  The query is   *)
(* ordered, and no update has raised since: a delta that concat refuses is *)
(* not fetched again, for the cursor is past it.                           *)
MissingOnlyByRetention ==
  ordered /\ ~escaped =>
    \A r \in table :
      /\ base < r
      /\ r <= cursor
      /\ r \notin ToSet(data)
      => \/ MaxRows # None /\ Cardinality({s \in ToSet(data) : s > r}) >= MaxRows
         \/ MaxAge # None /\ cursor - r > MaxAge

(* "Incrementally pull rows by tracking max(cursor_column)" (live.py,      *)
(* StreamingQuery): the cursor is the greatest value in the frame, whatever *)
(* retention, logged failures and resets did to it, so that the next fetch *)
(* begins where the frame ends; with the same two conditions.              *)
CursorIsNewest ==
  ordered /\ ~escaped /\ data # <<>> => cursor = Max(ToSet(data))
=============================================================================
