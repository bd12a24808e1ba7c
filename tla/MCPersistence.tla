--------------------------- MODULE MCPersistence ---------------------------
(***************************************************************************)
(* What outlives a call or a process: the pickle file of a decorated       *)
(* function, the folder of a file store and its sweeps, the caches of      *)
(* read_query, and the live queries.  They share no state here, and a      *)
(* behaviour is one of one of them.                                        *)
(***************************************************************************)
EXTENDS PickleCache, TLC

CONSTANTS
  Parts,            \* the components that run
  Item,             \* FileStore: the keys
  Pickle, Tabular,  \* its suffixes
  Setups, MaxCalls, MaxRestarts, FilesEnd,
  Query, Backend,   \* ReadQuery
  Lifetime, Minute, MaxReads, ReadsEnd,
  Kind, Limit, MaxPuts, MaxSweeps, FolderEnd,  \* CacheFolder
  MaxHeld, MaxOld, Every, Built, StreamEnd,    \* StreamingQuery: its limits and bounds
  Windows,          \* the arguments of the windowed query, and its bounds
  Opened, WindowEnd, Arriving,
  f1, f2            \* the keys of SoundSetups

VARIABLES part,  \* the component that runs
  setup, folder, suffix, resolved, at, key, doomed, since, served, time, calls, restarts,
  shared, files, request, result, cleared, reads, clock,
  ordered, rows, held, cursor, read, base, raised, hour,
  window, source, frame, start, end, from, updated, met, escaped, outcome, day,
  disk, suffixes, memory, latest, mixed, found, sweep, report, moment, puts, sweeps

filesVars == <<setup, folder, suffix, resolved, at, key, doomed, since, served, time, calls, restarts>>

readsVars == <<shared, files, request, result, cleared, reads, clock>>

streamVars == <<ordered, rows, held, cursor, read, base, raised, hour>>

windowVars == <<window, source, frame, start, end, from, updated, met, escaped, outcome, day>>

sweptVars == <<disk, suffixes, memory, latest, mixed, found, sweep, report, moment, puts, sweeps>>

\* The suffix is left to the store and all values are pickled; or it is that of
\* data frames, with a backend and without, which the value of f2 is and that of
\* f1 is not.
SoundSetups ==
  {[given |-> None, backend |-> FALSE, kindOf |-> [k \in {f1, f2} |-> Pickle]]} \cup
  [given : {Tabular}, backend : BOOLEAN,
   kindOf : {[k \in {f1, f2} |-> IF k = f2 THEN Tabular ELSE Pickle]}]

Raw == [grain |-> 1, buckets |-> FALSE, closed |-> FALSE, rolling |-> FALSE, deduplicate |-> FALSE,
        keepsOrder |-> TRUE, maxRows |-> None, maxAge |-> None, updateFrequency |-> None]

Bucketed == [Raw EXCEPT !.grain = 2, !.buckets = TRUE, !.deduplicate = TRUE]

\* A window that slides, by number and by age of the rows; one of buckets that
\* expands, in pandas and in polars; and a BETWEEN over raw rows that expands.
SmallWindows ==
  {[Raw EXCEPT !.grain = 2, !.rolling = TRUE, !.maxRows = 2, !.updateFrequency = 1],
   [Raw EXCEPT !.rolling = TRUE, !.maxAge = 2],
   [Bucketed EXCEPT !.maxRows = 2],
   [Bucketed EXCEPT !.keepsOrder = FALSE],
   [Raw EXCEPT !.closed = TRUE, !.maxRows = 3]}

\* A window of raw rows that expands.
PlainWindow == {Raw}

Files == INSTANCE FileStore WITH
  Instance <- Process, Key <- Item, Horizon <- FilesEnd, pc <- at, answer <- served, now <- time

Reads == INSTANCE ReadQuery WITH
  Horizon <- ReadsEnd, now <- clock

Stream == INSTANCE StreamingQuery WITH
  Grain <- 1, MaxRows <- MaxHeld, MaxAge <- MaxOld, UpdateFrequency <- Every,
  Started <- Built, Horizon <- StreamEnd,
  table <- rows, data <- held, updated <- read, escaped <- raised, now <- hour

Window == INSTANCE WindowedQuery WITH
  Setups <- Windows, Started <- Opened, Horizon <- WindowEnd, Arrivals <- Arriving,
  setup <- window, table <- source, data <- frame, now <- day

Swept == INSTANCE CacheFolder WITH
  Horizon <- FolderEnd, folder <- disk, stores <- suffixes, answer <- found, now <- moment

\* "All entries for a function share one suffix" (files.py, FileStore).
ASSUME SetupsAreSound ==
  \A s \in Setups : s.given = None => \A j, k \in Item : s.kindOf[j] = s.kindOf[k]

\* Only buckets are deduplicated: "dedupes on index_column [...] which handles
\* re-fetched open buckets" (live.py, WindowedQuery) keeps one row of each time.
\* And a backend that mixes the rows up keeps no last ones.
ASSUME WindowsAreSound ==
  \A s \in Windows :
    /\ s.deduplicate <=> s.buckets
    /\ s.deduplicate => s.keepsOrder \/ s.maxRows = None

ASSUME Assumptions ==
  /\ Files!FileStoreAssumption /\ Reads!ReadQueryAssumption
  /\ Stream!StreamingQueryAssumption /\ Window!WindowedQueryAssumption
  /\ Swept!CacheFolderAssumption

\* Processes, and the keys of the pickle file and of the folder, are interchangeable.
Interchangeable == Permutations(Process) \cup Permutations(Key)

\* The variables of the components that do not run have one value.
PartsInit ==
  /\ part \in Parts
  /\ Init
  /\ IF part = "files" THEN Files!Init
     ELSE /\ setup = None /\ folder = None /\ suffix = None /\ resolved = None /\ at = None /\ key = None
          /\ doomed = None /\ since = None /\ served = None /\ time = 0 /\ calls = 0 /\ restarts = 0
  /\ IF part = "reads" THEN Reads!Init
     ELSE /\ shared = None /\ files = None /\ request = None /\ result = None
          /\ cleared = 0 /\ reads = 0 /\ clock = 0
  /\ Stream!Init
  /\ part # "stream" => ordered /\ rows = {}
  /\ IF part = "window" THEN Window!Init
     ELSE /\ window = None /\ source = None /\ frame = <<>> /\ start = 0 /\ end = 0 /\ from = 0
          /\ updated = 0 /\ met = {} /\ escaped = FALSE /\ outcome = "built" /\ day = 0
  /\ IF part = "folder" THEN Swept!FolderInit
     ELSE /\ disk = None /\ suffixes = None /\ memory = None /\ latest = None /\ mixed = FALSE
          /\ found = None /\ sweep = None /\ report = None /\ moment = 0 /\ puts = 0 /\ sweeps = 0

PartsNext ==
  \/ part = "pickle" /\ Next /\ UNCHANGED <<part, filesVars, readsVars, streamVars, windowVars, sweptVars>>
  \/ part = "files" /\ Files!Next /\ UNCHANGED <<part, vars, readsVars, streamVars, windowVars, sweptVars>>
  \/ part = "reads" /\ Reads!Next /\ UNCHANGED <<part, vars, filesVars, streamVars, windowVars, sweptVars>>
  \/ part = "stream" /\ Stream!Next /\ UNCHANGED <<part, vars, filesVars, readsVars, windowVars, sweptVars>>
  \/ part = "window" /\ Window!Next /\ UNCHANGED <<part, vars, filesVars, readsVars, streamVars, sweptVars>>
  \/ part = "folder" /\ Swept!FolderNext /\ UNCHANGED <<part, vars, filesVars, readsVars, streamVars, windowVars>>

partsVars == <<part, vars, filesVars, readsVars, streamVars, windowVars, sweptVars>>

PartsSpec == PartsInit /\ [][PartsNext]_partsVars

-----------------------------------------------------------------------------
(* "absent or stale" (files.py, FileStore.get): a lookup in a folder        *)
(* returns nothing that was older than the lifetime when it began, whatever *)
(* is written and deleted meanwhile (FileStore).                            *)
ServedFresh == part = "files" => Files!TypeOK /\ Files!ServedFresh

(* "This recovers the suffix from any existing file [...] so those reads    *)
(* hit" (files.py, FileStore._resolve_from_disk): no lookup, in whatever    *)
(* process, takes a key for missing that has a whole and fresh file, but    *)
(* for those of an instance that has not yet put, and whose suffix is given *)
(* and is one of data frames, without a backend (FileStore).                *)
StoredIsFound == [][part = "files" => Files!MissesAreAbsent]_partsVars

(* The result of read_query answers the query of the call and is no older   *)
(* than its lifetime allows; it is read now without a cache, and from       *)
(* memory was read since clear_shared_stores; and it is of the backend that *)
(* the call asks for unless it is from memory, where the backend is not     *)
(* told apart (ReadQuery).                                                  *)
ResultIsRight ==
  part = "reads" => Reads!TypeOK /\ Reads!RightResult /\ Reads!TtlRespected /\ Reads!FileBackend

(* "Fetch new rows since the last cursor and append them" (live.py,         *)
(* StreamingQuery.update): no row is in the frame twice, it lacks only rows *)
(* that its limits had it drop, and the next fetch begins where it ends     *)
(* (StreamingQuery).                                                        *)
StreamHoldsEachOnce ==
  part = "stream" =>
    Stream!TypeOK /\ Stream!SeenOnce /\ Stream!MissingOnlyByRetention /\ Stream!CursorIsNewest

(* "only the delta since the previous window end is fetched" (live.py,      *)
(* WindowedQuery): the frame is what the source has for the whole window,   *)
(* but for what the limits dropped, and has no row or bucket twice, also    *)
(* after an update that raised; with a BETWEEN over raw rows, those of the  *)
(* times at which two windows met, and only those (WindowedQuery).          *)
WindowIsHeldOnce == part = "window" => Window!TypeOK /\ Window!HoldsWindow /\ Window!SeenOnce

(* "On failure the previous data and interval are preserved" (live.py,      *)
(* WindowedQuery.update): an update that raises leaves the frame and the    *)
(* window as they were.                                                     *)
FailurePreserves == Window!FailurePreserves

(* Lookups in a cache folder give the values that were put last, and        *)
(* clear_cache leaves none of what it is to clear (CacheFolder).            *)
FolderKeepsItsWord == part = "folder" => Swept!FolderKeepsItsWord
=============================================================================
