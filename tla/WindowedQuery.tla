--------------------------- MODULE WindowedQuery ---------------------------
(***************************************************************************)
(* mayutils.data.live.WindowedQuery: a frame that holds the rows of a time *)
(* window, which slides or expands to the present.  The template takes raw *)
(* rows, "start <= time < end" or BETWEEN start AND end, or aggregates     *)
(* them by buckets of the grain of time_format, "start <= bucket <= end".  *)
(* Rows arrive at the source at the time they carry.                       *)
(***************************************************************************)
EXTENDS Integers, FiniteSets, Sequences, SequencesExt, FiniteSetsExt

CONSTANTS
  Setups,   \* the arguments the object may be built with, see Setup
  Started,  \* bound: the object is built at this time
  Horizon,  \* bound: the clock stops there
  Arrivals, \* bound: the rows that arrive at one time
  None      \* Python's None

\* grain: the unit of time_format; buckets: whether the query aggregates;
\* closed: whether it takes raw rows BETWEEN start AND end;
\* keepsOrder: whether the backend keeps the order of the rows when it removes
\* duplicates, as pandas does and polars does not.  The rest are arguments, with
\* the bounds of validate_retention.
Setup == [grain : Nat \ {0}, buckets : BOOLEAN, closed : BOOLEAN, rolling : BOOLEAN,
          deduplicate : BOOLEAN, keepsOrder : BOOLEAN, maxRows : (Nat \ {0}) \cup {None},
          maxAge : (Nat \ {0}) \cup {None}, updateFrequency : Nat \cup {None}]

WindowedQueryAssumption ==
  /\ Setups \subseteq Setup
  /\ None \notin Int
  /\ Horizon \in Nat
  /\ Started \in 0..Horizon
  /\ Arrivals \in Nat

VARIABLES
  setup,   \* a member of Setups; it never changes
  table,   \* table[t]: how many rows the source has at time t
  data,    \* self._data
  start,   \* self._interval.start
  end,     \* self._interval.end
  from,    \* self.start_timestamp
  updated, \* self.last_updated
  met,     \* history: the times that two windows had in common since data was filled
  escaped, \* history: an update or a reset has raised since data was last filled
  outcome, \* history: how the last call ended
  now

vars == <<setup, table, data, start, end, from, updated, met, escaped, outcome, now>>

\* A raw row and its number among those of its time; or a bucket and its count.
Row == [at : 0..Horizon, n : Nat]

TypeOK ==
  /\ setup \in Setups
  /\ table \in [0..Horizon -> 0..Arrivals]
  /\ data \in Seq(Row)
  /\ from \in 0..now
  /\ start \in 0..end
  /\ end \in 0..now
  /\ updated \in 0..now
  /\ met \subseteq Int
  /\ escaped \in BOOLEAN
  /\ outcome \in {"built", "updated", "skipped", "logged", "raised", "reset", "lost"}
  /\ now \in 0..Horizon

-----------------------------------------------------------------------------
Cut(t) == t - (t % setup.grain)

\* The raw rows at the source, and those of a bucket.
Stored == {p \in (0..now) \X (1..Arrivals) : p[2] <= table[p[1]]}
Bucket(b) == {p \in Stored : Cut(p[1]) = b}

\* The rows at the source that answer the query.
Answer(s, e) ==
  IF setup.buckets
  THEN {[at |-> b, n |-> Cardinality(Bucket(b))] : b \in {c \in s..e : Bucket(c) # {}}}
  ELSE {[at |-> p[1], n |-> p[2]] : p \in {q \in Stored :
          s <= q[1] /\ (q[1] < e \/ (setup.closed /\ q[1] = e))}}

Before(q, r) == q.at < r.at \/ (q.at = r.at /\ q.n < r.n)

\* read_query; the query has an ORDER BY
Frames(s, e) ==
  {d \in SetToSeqs(Answer(Cut(s), Cut(e))) : \A i, j \in DOMAIN d : i < j => Before(d[i], d[j])}

\* BackendOperations.filter_ge
AtLeast(d, least) ==
  LET kept[i \in 0..Len(d)] ==
        IF i = 0 THEN <<>>
        ELSE IF d[i].at >= least THEN Append(kept[i - 1], d[i]) ELSE kept[i - 1]
  IN kept[Len(d)]

\* BackendOperations.deduplicate: the last row of each value
LastOfEach(d) ==
  LET kept == {i \in DOMAIN d : \A j \in DOMAIN d : i < j => d[j].at # d[i].at}
  IN {[i \in DOMAIN order |-> d[order[i]]] :
        order \in {o \in SetToSeqs(kept) :
                     setup.keepsOrder => \A i, j \in DOMAIN o : i < j => o[i] < o[j]}}

\* BackendOperations.max, of the column of time
Newest(d) == Max({r.at : r \in ToSet(d)})
\* BackendOperations.tail
LastRows(d, n) == IF Len(d) > n THEN SubSeq(d, Len(d) - n + 1, Len(d)) ELSE d

\* apply_retention: by the age, from the newest row's rendered value, then by number
Retained(d) ==
  LET young == IF setup.maxAge # None /\ d # <<>>
               THEN AtLeast(d, Cut(Cut(Newest(d)) - setup.maxAge))
               ELSE d
  IN IF setup.maxRows # None THEN LastRows(young, setup.maxRows) ELSE young

ShouldUpdate(force) ==
  ~force /\ setup.updateFrequency # None => now - updated > setup.updateFrequency

\* fetch: the start of the next window, and the rows that are still in it
NextStart == IF setup.rolling THEN now - (end - start) ELSE start

Rolled == IF setup.rolling THEN AtLeast(data, Cut(NextStart)) ELSE data

\* fetch and update: concat, deduplicate and retain; not for an empty delta
Grown(delta) ==
  IF delta = <<>>
  THEN {Rolled}
  ELSE {Retained(d) : d \in IF setup.deduplicate THEN LastOfEach(Rolled \o delta) ELSE {Rolled \o delta}}

\* __init__: fetches the first window; applies no retention.
Init ==
  /\ setup \in Setups
  /\ now = Started
  /\ table \in {f \in [0..Horizon -> 0..Arrivals] : \A t \in (Started + 1)..Horizon : f[t] = 0}
  /\ from \in 0..Started
  /\ start = from
  /\ end = now
  /\ data \in Frames(start, end)
  /\ updated = now
  /\ met = {}
  /\ escaped = FALSE
  /\ outcome = "built"

\* update within update_frequency of the last
Skip ==
  /\ ~ShouldUpdate(FALSE)
  /\ outcome' = "skipped"
  /\ UNCHANGED <<setup, table, data, start, end, from, updated, met, escaped, now>>

Update(force) ==
  /\ ShouldUpdate(force)
  /\ \E delta \in Frames(end, now) : data' \in Grown(delta)
  /\ start' = NextStart
  /\ end' = now
  /\ updated' = now
  /\ met' = IF setup.closed THEN met \cup {Cut(end)} ELSE met
  /\ outcome' = "updated"
  /\ UNCHANGED <<setup, table, from, escaped, now>>

\* Mutant of UpdateFails: the frame is not restored.
UpdateFailsRolled(force) ==
  /\ ShouldUpdate(force)
  /\ data' = Rolled
  /\ outcome' = "logged"
  /\ UNCHANGED <<setup, table, start, end, from, updated, met, escaped, now>>

\* update: the reader raises; the frame and the window are restored
UpdateFails(force) ==
  /\ ShouldUpdate(force)
  /\ outcome' = "logged"
  /\ UNCHANGED <<setup, table, data, start, end, from, updated, met, escaped, now>>

\* update: concat raises, outside of the try, for the delta does not fit the
\* frame (the types of its columns)
UpdateRaises(force) ==
  /\ ShouldUpdate(force)
  /\ Answer(Cut(end), Cut(now)) # {}
  /\ data' = Rolled
  /\ start' = NextStart
  /\ end' = now
  /\ escaped' = TRUE
  /\ outcome' = "raised"
  /\ UNCHANGED <<setup, table, from, updated, met, now>>

\* reset, with start_timestamp or the one it has
Reset(t) ==
  /\ from' = t
  /\ start' = t
  /\ end' = now
  /\ data' \in Frames(t, now)
  /\ updated' = now
  /\ met' = {}
  /\ escaped' = FALSE
  /\ outcome' = "reset"
  /\ UNCHANGED <<setup, table, now>>

\* reset: the reader raises, after the window is moved
ResetRaises(t) ==
  /\ from' = t
  /\ start' = t
  /\ end' = now
  /\ escaped' = TRUE
  /\ outcome' = "lost"
  /\ UNCHANGED <<setup, table, data, updated, met, now>>

\* A row arrives at the source.
Insert ==
  /\ table[now] < Arrivals
  /\ table' = [table EXCEPT ![now] = @ + 1]
  /\ UNCHANGED <<setup, data, start, end, from, updated, met, escaped, outcome, now>>

Tick ==
  /\ now < Horizon
  /\ now' = now + 1
  /\ UNCHANGED <<setup, table, data, start, end, from, updated, met, escaped, outcome>>

Next ==
  \/ Skip
  \/ \E force \in BOOLEAN : Update(force) \/ UpdateFails(force) \/ UpdateRaises(force)
  \/ \E t \in {from, now} : Reset(t) \/ ResetRaises(t)
  \/ Insert \/ Tick

Spec == Init /\ [][Next]_vars

-----------------------------------------------------------------------------
\* The rows of a set that are in the window and cannot change any more.
Settled(rows) == {r \in rows : Cut(start) <= r.at /\ r.at < Cut(end)}

\* The places of the frame that newer rows have.
Newer(r) == {i \in DOMAIN data : Before(r, data[i])}

(* "only the delta since the previous window end is fetched" (live.py,      *)
(* WindowedQuery), "which handles re-fetched open buckets in time-bucketed  *)
(* aggregate queries": from the start to the end of the window the frame    *)
(* holds the rows the source has and no others, with their final values,    *)
(* but for those that max_rows newer ones, counted as often as the frame    *)
(* has them, or rows newer by max_age have displaced, through logged        *)
(* failures, skipped updates and resets, until one raises.                  *)
HoldsWindow ==
  LET rows == Settled(Answer(Cut(start), Cut(end))) IN
  ~escaped =>
    /\ Settled(ToSet(data)) \subseteq rows
    /\ \A r \in rows \ ToSet(data) :
         \/ setup.maxRows # None /\ Cardinality(Newer(r)) >= setup.maxRows
         \/ setup.maxAge # None /\ \E i \in Newer(r) : data[i].at - r.at > setup.maxAge

(* "dedupes on index_column" and "the delta since the previous window end" *)
(* (live.py, WindowedQuery): no row and no bucket is in the frame twice,    *)
(* also after an update or a reset raised; but a BETWEEN over raw rows,     *)
(* which are not deduplicated, fetches those of the time at which one       *)
(* window ends and the next begins once more, and no others                 *)
(* (test_no_dedup_by_default).                                              *)
SeenOnce ==
  /\ \A i, j \in DOMAIN data : data[i] = data[j] /\ i # j => data[i].at \in met
  /\ setup.buckets => IsInjective([i \in DOMAIN data |-> data[i].at])

(* "On failure the previous data and interval are preserved" (live.py,      *)
(* WindowedQuery.update): an update that fails, and is logged or raises,    *)
(* leaves the frame and the window as they were.                            *)
FailurePreserves ==
  [][outcome' \in {"logged", "raised"} => UNCHANGED <<data, start, end>>]_vars
=============================================================================
