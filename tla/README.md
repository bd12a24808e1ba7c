# mayutils in TLA+

`mayutils` (Python 3.13) is a library of utilities for data work: caching
decorators, cached and parallel SQL reads, queries that refresh themselves,
wrappers of Google Sheets, Slides and Drive, of Snowflake and Streamlit, of data
files and PowerPoint decks, dates, logging, OAuth, exports.  Much of it formats
data or hands over to another library.  What goes wrong in ways a unit
test hardly reaches is what keeps state across calls, threads, processes and
failures, and what converts values back and forth over long sequences of legal
calls.  The specifications here are about those two.

Paths are relative to `src/src/mayutils` of the repository; a number after a
path or in brackets is a line.

## 1. Inventory

### 1.1 Caches, reads, live data

| component | state | operations | interacts with |
|---|---|---|---|
| in-memory store, `environment/memoisation/memory.py`, `MemoryStore` | an `OrderedDict` of `(expires_at, value)`, `hits`, `misses`, `ttl`, `maxsize`; a pickle file when it is saved | `get`, `put`, `delete`, `clear`, `cache_info`, `save`, `load` | the clock; the file system |
| shared-store registry, `memory.py` | `SHARED_STORES`, one store for each namespace of the process | `get_shared_store`, `clear_shared_stores` | every decorator built with `shared=True`, from every thread |
| cache decorator, `decorators.py`, `cache` | the back end (private store, shared store, pickle file, folder) | call, `refresh`, `bypass_cache`, `cache_clear`, `delete_cache`, `save`, `load_store` | a store; the wrapped function, which may raise |
| file store, `files.py`, `FileStore` and the serialisers | a folder of files `key + suffix`; `suffix` and `_resolved` of the instance | `get`, `put`, `delete`, `clear`, the resolution of the suffix | the file system, shared with other processes |
| clearing, `clearing.py`, `scripts/clear_cache.py` | none | `clear_cache`: list by prefix and age, then unlink, at once or by prompts | the folder, the stores given |
| cached reads, `data/read.py` | none of its own: a shared store or the folder `execute` | `read_query`, `stream_query` | `cache`, the reader |
| parallel reads, `data/read.py` | a pool of threads, a future for each query | `read_queries` | `read_query` in several threads |
| query files, `data/queries/` | the folders found at import | search for a file, guess whether a string is SQL, rendering of two kinds of placeholder | `read_query` |
| live queries, `data/live.py` | `StreamingQuery`: frame, cursor, `last_updated`; `WindowedQuery`: frame, interval, `start_timestamp`, `last_updated` | construction, `update(force)`, `reset` | `read_query`, the clock, the source, `objects/dataframes/backends.py` |

Hard: no lock is taken anywhere, though `read_queries` runs in threads that share
one store of the process, and there is no test of it with threads.  Expiry is
lazy: an expired entry takes room and must never be seen.  A pickle file
is cut and then written; a folder has no index, and a new process learns its
format from a file it finds.  A live query changes three things one after
the other, with calls in between that raise.

Correct: the in-memory store answers as the `CacheStore` protocol says and only a
load takes it over its bound or lifetime.  Races may lose an entry and cost a
computation, but serve nothing stale or foreign and leave no store over its
bound.  What a computed call returned survives a restart, and a file is
unreadable only after an interrupted save.  No fresh file is missed and no stale one
served.  Each call gets the answer to its own query, no older than it asked, and
from files of its own backend; batches are answered in order, raise the first failure and
end.  Live queries hold each row once.

### 1.2 Sessions and remote documents

| component | state | hard | correct |
|---|---|---|---|
| Google Drive, `interfaces/cloud/google.py` | files by id, names not unique | find, then update or create: two uploaders, retries after a lost answer | one file of a name |
| Google Slides, `interfaces/filetypes/slides/` | a cached payload of the presentation | a move is a copy and a deletion; the payload is never refreshed | no slide is lost by a move; an image shows its file |
| Google Sheets, `interfaces/filetypes/sheets/` | the payload read last; a `Sheet` caches its tab's title, index and id | one or several requests a call, checked against the payload, with others' in between; any may fail | a call reaches its tab; what passes the checks is accepted; a frame reads back |
| Snowflake, `interfaces/data/snowflake/` | a session's role, warehouse, database, schema | `using` nests, is shared by threads and may fail half way | the session after a block is that of before |
| engines and streams, `environment/databases.py`, Snowflake | a generator over a cursor | the query runs at the first pull; batches are the driver's | a stream gives all rows and closes its cursor |
| logging, `environment/logging.py` | level and handlers of one global logger | recursion, threads, exceptions | a handler is there for its calls and hears them |
| OAuth, `environment/oauth.py` | a token, perhaps encrypted, in the keyring | other keys, other processes, crashes | a good token is neither deleted nor asked for again |
| Streamlit, `interfaces/websites/streamlit/` | session state over reruns, a cookie | a rerun after every click, restarts, several tabs | one identity; no page for who is not on the whitelist |

### 1.3 Values, files and settings

| component | hard | correct |
|---|---|---|
| dates and intervals, `objects/datetime/` | two class families, a repeated hour, ends of months, inverted intervals | conversions keep the instant; copies are whole; months tile |
| data files, `interfaces/filetypes/` | two engines, four formats, workbooks of several sheets, a registry filled by imports; files that vanish during a preview | what was written is read; nothing raises in a `repr` |
| PowerPoint, `interfaces/filetypes/pptx/` | blocks that raise, numbered slides, LibreOffice's leftovers | the order of the slides; pages of one deck |
| columns of dates, `objects/dataframes/` | types are guessed from a sample | no cell is lost |
| colours, `objects/colours.py` | changed in place, several texts, another library's parser | a text reads back |
| functions, `objects/functions.py`, `classes.py`, `hashing.py` | threads in `Lazy.get`, methods added twice, addresses used again | a factory runs once, chains run in order, digests tell apart |
| versions and experiments, `objects/versions.py`, `mathematics/experiments.py` | versions discovered in folders that change; revisions | the version in force; assignments stand |
| names, `objects/strings.py` | chains of conversions | the same words |
| settings, `visualisation/console.py`, `objects/datetime/timezone.py`, `core/extras.py` | nested blocks over hooks of the process; a table cached once | all returns; hints name the extras |
| exports, `export/` | external programs that leave files or none, in a folder that people edit | the folder is as it was; the document is there |
| attribution, `mathematics/analytics/attribution.py` | segments that come and go | contributions add up |

Kept apart, with the reason in section 7: plots and tables, notebooks and
terminal front ends, environment helpers, stub generators.

## 2. Modules

```
OrderedDict            Python's OrderedDict, as sequences of items
  |- MemoryStore       one store, one thread           --implements-->  CacheStore
  |- SharedStore       threads, stores and registry, one access a step
  |    `- ReadQueries  the pool of read_queries over it
  `- PickleCache       cache(path=...): processes and a pickle file
FileStore, CacheFolder           the folder of a file store: its steps; its formats and its sweeps
ReadQuery                        which cache a call of read_query goes to
StreamingQuery, WindowedQuery    the two live queries
GoogleDrive
  `- GoogleSlides                insert_image goes through Drive
GoogleSheets, SheetCells         the tabs of a spreadsheet; the cells of a tab
Snowflake, DataStreams, Logging, OAuth, StreamlitGate
Values                           one of QueryFiles, Frames, Deck, DataHandles, Callables, ProcessSettings, Exports
Dates, DataFiles, Colours, Versions, Names, Attribution
Python                           None

OrderedDictLemmas                lemmas on OrderedDict, used by the proofs of the stores
MemoryStoreProofs                MemoryStore and its refinement of CacheStore
SharedStoreProofs                SharedStore and ReadQueries
PersistenceProofs                PickleCache, FileStore, CacheFolder, ReadQuery, StreamingQuery, WindowedQuery
EnvironmentProofs                Snowflake, Logging, OAuth, StreamlitGate, DataStreams
GoogleProofs                     GoogleDrive, GoogleSlides, GoogleSheets
ValuesProofs                     DataHandles, Callables, Frames, Deck, ProcessSettings, Exports, QueryFiles
```

`MC*.tla` give the constants of a run values that a configuration cannot
express, and the symmetry sets: `MCPersistence`, `MCGoogle`, `MCEnvironment` (which extends `MCGoogle`) and
`MCValues`.  Components that share no state are checked in one run: `part`
says which one a behaviour is of, and the others keep their initial values.

**OrderedDict** is the data type.  A dictionary is a sequence of items with a
field `key`, the oldest first: `Assign` keeps the place of a key that is there,
`MoveToEnd`, `DelItem`, `KeepNewest` (the loop of `popitem(last=False)`) and
`Update` are the operations the code calls.

**CacheStore** is the abstract specification, the protocol of
`memoisation/types.py`.  Its state is what a lookup of each key returns now.  A
bounded store may forget other keys in a put; time may take any key away;
nothing else does.

**MemoryStore** is the class.  `GetAbsent`, `GetExpired` and `GetHit` are the
three ways through `get`; `Put` assigns and trims; `Load` builds a new store with
options of its own over the pickled entries, which it does not trim and whose
deadlines it keeps.  `Contract` maps it to `CacheStore`: `held` is what the
live entries say.

**SharedStore** splits the same operations at each access to shared data, as a
thread of a pool runs them.  `pc` is the place in the call:

| `pc` | code | action |
|---|---|---|
| `resolve`, `create` | `get_shared_store` (memory.py:389-444) | `Resolve`, `Create` |
| `lookup`, `check`, `drop`, `touch` | `MemoryStore.get` (199-245) | `LookUp`, `Check`, `Drop`, `Touch`, `GetRaises` |
| `compute` | `cache.__call__` (decorators.py:943-991) | `Compute`, `ComputeFails` |
| `store`, `trim`, `pop` | `MemoryStore.put` (247-285) | `Store`, `Trim`, `Pop`, `PopRaises` |

A single dictionary operation is atomic under the interpreter's global lock; two
are not.  A call resolves its store every time, because `read_query` builds the
decorator in each call.

**ReadQueries** EXTENDS SharedStore with the caller and the pool: `ReadBatch`,
`Submit`, `Take` (a thread takes a query), `RenderFails`, `ReadUncached`,
`ReadCached` (a step of SharedStore), `Finish` (the future is set), `Collect`,
`CollectRaises`, `LeavePool` (the `with` block joins the threads).

**PickleCache** has processes that run `cache(path=...)`: `Start` loads the
file, `CallHit` and `CallMiss` look up, a computed call puts and then saves in
two steps (the file is cut, then written), between which anything may happen: a
crash, a value that does not pickle, the save of another process.

**FileStore** has instances in processes that share a folder.  `find` is the resolution of the suffix from the folder (a given suffix of data frames
without a backend is not resolved before the first put), `check`, `stat` and `read` are the
accesses of a lookup, `infer`, `open` and `write` those of a put, `unlink` one
file of a delete or a clear.  Files are absent, torn, mixed or whole.
**CacheFolder** takes lookups and writes as single steps and has what FileStore leaves
out: the serialisers by kind of value, folders with two formats,
`clear_cache` as a sweep in steps, with the stores it is given; `ListingRaises` is a
file that goes between the listing and the look at its age.

**ReadQuery** takes the calls one at a time and asks which cache they reach:
`persist` is `None` (the reader), `FALSE` (the shared store of the namespace with
the written lifetime) or `TRUE` (files of that name).  `Label` is `format_ttl`.

**StreamingQuery** and **WindowedQuery** have the object, the rows at the source
and the clock.  Rows arrive at any time (`Insert`); time formats cut values to a
`grain`.  A windowed query has one of three templates: raw rows of a half-open interval, raw
rows `BETWEEN` its ends (`closed`), or buckets that it counts and deduplicates.  `update` is `Skip`, `Update`, `UpdateFails` (the reader raises, and it
is logged) or `UpdateRaises` (`concat` raises, outside of the `try`).

**GoogleDrive**, **GoogleSlides**, **GoogleSheets** have programs with one object
each; a program's `pc` or `at` is the request that comes next, so that the
requests of others fall between those of a call.  Any request may fail, and a change
may be made and its answer lost.  The services are external: a batch is applied
as a whole or refused, titles of tabs are unique, names of files are not.
`upload` is find, then update or create; `move_slide` is a copy and then a deletion
by the number that the slide had; `insert_image` is an upload and then a request.
A tab or an image remembers what it was meant for, which properties compare with
what it has become.  **SheetCells** is one tab: what the service makes of values
that are sent raw or as a user types them, and what reads leave out.

**Snowflake** has the context of a session and each thread's open blocks of
`using`: `Enter` records and sets one dimension (or is refused), a database also sets
the schema `Public`, `Yield` ends the entry, `Leave` and `Restore` undo, `EndTask` and `Gather` are the pool of
`read_concurrent_queries`.  **DataStreams** has a generator: `Execute`,
`Pull`, `Exhaust`, `Abandon`.  **Logging** has the decorated calls of threads:
`Attach`, `LogEntry`, `LogOutcome`, `Detach`.  **OAuth** has processes at
`idle`, `delete`, `authorise`, `login` and `save`; `Gone` is a crash or a failing login.  **StreamlitGate** has a run of the
script as an action, with a `rerun` flag for `st.rerun`.

**The value modules** take a component's conversions as operators named as
in the code and its state-changing calls as actions.  A text is told apart by
what the code looks at: a wall clock is a day and an hour, a cell of a column is the
kind of text it is, a channel of a colour a number of parts, a name a sequence of
capitals, small letters, digits and separators, a frame its rows and what the
engines do to them.  **DataHandles** and **Exports** also have the steps
of a preview, a screenshot and an export, between which others touch the files;
**Callables** has the threads of `Lazy.get` and the addresses that CPython gives
again; **ProcessSettings** has nested blocks over the hooks and the zone.

## 3. Runs

| run | asks | instance | why it is enough |
|---|---|---|---|
| MemoryStore | contract, bound, lifetime | 2 keys, 2 values, one file, lifetimes None and 1, bounds None, 0 and 1, clock to 2 | an entry can expire in the store and in the file; a second put evicts; a load can be over the new bound and outlive the new lifetime |
| SharedStore | what no race breaks | 3 threads, 2 keys, 3 calls, lifetime 1, bound 1, 1 clear | three threads can be in one trim loop, on two stores of one namespace |
| SharedStoreKeyError (violation) | does a lookup raise? | 2 threads, 1 key | both find one expired entry |
| ReadQueries | order, failures, join, ends | 2 threads, a batch of three with a repetition, and an empty one, cached and not | fewer threads than queries; two threads on one key; a query still queued when an earlier one fails |
| Persistence | restarts and shared files; staleness and misses; routing; rows of live queries; sweeps | 2 processes and 2 keys; pickle file: 2 computations, 2 crashes; folder: 3 calls, 1 restart, lifetime 1, clock to 2, three setups (inferred; a suffix of data frames with and without a backend); reads: lifetimes 2, 3 (written alike) and None, 2 calls; stream: `max_rows` 2, `max_age` 3, throttled, clock to 6; window: five setups (two half-open, two of buckets, one `BETWEEN`), at most 1 row at a time (`Arriving`), built at 2 (`Opened`), clock to 4 (`WindowEnd`); sweeps: 2 puts of frames and of objects, 1 sweep | saves overlap and are interrupted; a writer, a reader and a deleter meet on a file, and a fresh process on old files; each pair of calls that may share a cache; both limits drop rows; windows leave their start, buckets close and open; a file is rewritten between listing and unlinking |
| PickleCacheForgotten (violation) | is what was deleted gone? | 1 process, 1 crash | delete, restart, call |
| WindowedQueryFailure (violation) | is a failed update undone? | one plain window | one delta that does not fit |
| Environment | contexts, streams, handlers, tokens, identities; slides and images, files of a name, tabs | session: 2 tasks and the program, 2 blocks of three kinds, 1 refusal; streams: 5 rows, chunks of 1 and 2; logging: 2 threads, 2 handlers, 3 calls, 2 levels; tokens: 2 processes, 2 keys, 3 tokens; app: 2 sessions, a guest on the whitelist and one not, 1 restart; Google: 2 programs, 3 calls, up to 3 slides and 2 tabs, positions 1 and 3, 2 paths of one file name, 1 edit of a local file, 1 failed request; no spreadsheet yet, or one that both have read | blocks nest and overlap; the last chunk is whole, short or empty; recursion in one thread while another logs; a process with each key or none; two tabs with one cookie; a call of one program falls between the requests of another's, and a third meets what both left; a failed creation is tried again |
| Values | do values come back | one small instance for each component, in `MCValues` | named there; each allows two or three conversions or writes of the values that the code tells apart |
| CapturesHaveIdentity (violation) | do two functions have two digests? | 2 objects, 3 addresses | the temporary tuple of one is freed and its address given to the other's |
| BlocksRollBack (violation) | does a block that raises take its slide with it? | one deck of up to 3 slides | one block |
| HintsAreActionable (violation) | is the extra there that a hint names? | an extra with "and" in its name | one missing module |

Bounds are constants named in each module (`Horizon`, `MaxCalls`, ...); they
appear in guards only.  Clocks are small because every deadline is compared with
the clock only, so a lifetime of one tick and two or three ticks give every
order of deadlines.  Symmetry is declared for sets that are never ordered or
chosen from, and for safety only: `ReadQueries`, with liveness, has none.  Where
one configuration needs values that cannot be written in it and no other module has
them (`MemoryStore`, `ReadQueries`), the small sets stand in the module itself.
`CHECK_DEADLOCK FALSE` stands in the runs whose workload is bounded: when all
calls are made and the clock has reached its end, nothing is left to do.  That
every call and batch ends is stated as liveness instead.

**What the runs of several components show.**  `Persistence`: `ResultsAreKept`
(what a computed call returned is in the file until another process saves, and
what is served was computed and is within its lifetime), `TornOnlyByInterruptedSave`,
`ServedFresh`, `StoredIsFound`, `ResultIsRight`, `StreamHoldsEachOnce`,
`WindowIsHeldOnce`, `FolderKeepsItsWord`.  `Environment`: `UsingRestores`, `StreamsComeToAnEnd`,
`HandlersServeTheirCalls`, `TokensLast`, `OneIdentity`, and of Google's documents `SlidesAreAsMeant` (no interleaving
of moves, stale payloads and failures loses a slide that nobody deleted; numbers that pass the checks are accepted), `FilesAreTheirs`,
`TabsAreAsMeant`.  `Values`: a property for each
component, stated over whole chains of calls.  The comment above each property says
what it is about and what it excepts.

**Fairness.**  `SharedStore` and `ReadQueries` assume weak fairness of the steps
of each thread and of the caller: the interpreter runs every thread that can
run, and the reader returns or raises.  Starting a call, the clock and the
clearing of the registry have none.  `AllEnd` needs a finite number of calls
(`MaxCalls`), since puts of others keep a trim loop going; a batch has finitely
many.  The other modules state safety only.

**Exceptions in properties** name what the code cannot promise, not what the
model leaves out; section 5 says what happens there.  A live query is only held
to its word until an update raises.  `ResultsAreKept` is about the process that saved last.
A payload may be wrong once somebody else has changed the document
or the last call failed; a kept `Sheet` may miss its tab once the tabs have
changed.  `UsingRestores` is for blocks that no other thread switches under and
that have no block of another database within; a block that takes a database leaves the schema
`PUBLIC`, a value that was None is not put back, and a refused setter ends the block half way.
`StoredIsFound` leaves out instances with the suffix of data frames and no backend,
until their first put.  `ResultIsRight` asks for the backend of the call except of a result from
memory, whose key does not hold it.  `WindowIsHeldOnce` allows a `BETWEEN` the rows of the times at
which two windows met twice, and no others.  `TokensLast` says nothing of tokens that cannot be
parsed.  Histories such as `disturbed`, `together`, `mixed` and `raced`
say that such a case has occurred; no guard of the code's part reads them.

## 4. Proofs

TLAPS checks, for every value of the constants, the theorems below.  The column
on the right names the invariant that is inductive, with what the property lacks.

**One process** (`MemoryStoreProofs`, `SharedStoreProofs`).

| theorem | says | argument |
|---|---|---|
| `MemoryStoreProofs!TypeCorrect`, `KeysStayUnique` | types; unique keys in store and files | uniqueness needs itself of the files, as `Load` brings them in |
| `BoundKept`, `LifetimeKept`, `BoundsKept` | the action property `StoreKeepsItsBounds` and its halves | one step for each operation; the deadlines of a trimmed dictionary are those of a suffix |
| `StoreKeepsContract` | `Spec => Contract!Spec`, the refinement of `CacheStore` | needs unique keys: without them the entry a lookup finds after a deletion would be another one of its key.  Evicted and expired keys witness `lost` |
| `SharedStoreProofs!TypeCorrect`, `StoresStayDictionaries` | types; one entry for a key in every store | inductive with each other: a call past `resolve` has a store; each operation of a dictionary by its lemma |
| `BoundSurvivesRaces` | `Len <= MaxSize +` puts in their loop | `Store` adds one item and one trimming thread; a thread leaves the loop only where it saw the length within the bound |
| `SoundInRaces` | `StoresStaySound`, the three above | their conjunction |
| `CallsAreServedFresh` | `ServedFresh`: a hit was alive when the call began, a miss is computed since then | `FreshInv`: every item of every store is genuine (its key's, stored with the lifetime of its value, not from the future), and at each place of the code the local entry is what the answer will be made of |
| `StoresHoldGenuineEntries` | `EntriesAreGenuine` | the first conjunct of `FreshInv` |
| `BatchesAreAnswered` | `BatchIsAnswered`: order, first failure, nobody still at work | `ReadInv`: the invariants of `SharedStore`; each thread's task is its own and is neither queued nor done; a finished query has the answer of a call with its own key; what the caller has collected is a prefix |

**Files and live queries** (`PersistenceProofs`).

| theorem | says | argument |
|---|---|---|
| `TornFilesAreInterruptedSaves` | an unreadable file is being written, or its last write was interrupted | `TornInv`: a step moves one process, so the others that have the file open still have it |
| `ResultsSurvive` | `ResultsAreKept` | `KeptInv`: stores and file are dictionaries of items that `put` made (what a merge, a restart and a hit take from them), and the store of the process that saved last is within the file whenever it is between two calls |
| `FilesAreServedFresh` | `ServedFresh` of the folder | `FilesFreshInv`: no file is from the future, and a file that passed the check of its age is, when it is read, that file or a newer one |
| `StoredFilesAreFound` | the action property `StoredIsFound` | `HomeInv`: every suffix, of a file or an instance, is the one of the folder |
| `ResultsAreRight` | `ResultIsRight` | `ReadsInv`, that all entries in memory and in files are of their query and no older than the store's lifetime says, and `AnswerInv`, that the result is what its cache had at that time; what goes through a file becomes a frame of the call's backend |
| `FoldersKeepTheirWord` | `FolderKeepsItsWord` | `SweptInv`: one suffix without `mixed`; what was put last has a file; and, in a sweep, every file that is old enough and matches is still on its list |
| `StreamsHoldEachOnce` | `StreamHoldsEachOnce` | `StreamInv`: all rows are up to the cursor, in order if the query orders them, and a missing row was displaced by one that came later or is too old by the cursor |
| `WindowsHoldEachOnce` | `WindowIsHeldOnce`, unless the template is a `BETWEEN` of raw rows | `WindowInv`: the frame has no row twice and, of buckets, none of one time twice; its rows lie within the window; and as long as no update raised it is complete (`Complete`): what is settled in it is what the source has, and each settled row that is missing has as many newer ones as `max_rows`, or one newer by `max_age`.  The lemmas say what concatenation, deduplication and the two limits keep of it (`Retained`, `LastOfEach` as selections of places of a sequence), and that rows that arrive fall after what is settled |

**Sessions** (`EnvironmentProofs`).

| theorem | says | argument |
|---|---|---|
| `UsingIsUndone` | `UsingRestores` | `SnowInv`, a statement about the whole stack of each thread: each block noted the context that the one around it made, and the innermost that is alone accounts for what the session has: each dimension is what was requested, noted or made `Public`; of a block that is still being entered nothing is said |
| `HandlersAreTemporary` | `HandlersServeTheirCalls` | `LogInv`: each handler on the logger belongs to a call that has not ended, and calls that are alone share none |
| `TokensAreKept` | `TokensLast` | `TokensInv`: what a process goes on to do follows from what it read (`HeldOK` at each step), whatever the others store meanwhile |
| `IdentitiesAreSingle` | `OneIdentity` | `IdentityInv`: how the page came about tells which identity the session has |
| `StreamsAreWhole` | `StreamsComeToAnEnd` | `StreamsInv`: what was yielded is `1 .. n` of the result, and all of it at the end |

**Google** (`GoogleProofs`), of `PartsSpec` in `MCGoogle`.

| theorem | says | argument |
|---|---|---|
| `SlidesKeepTheirWord` | `SlidesAreAsMeant` | `SlidesInv`.  That no slide is lost is not inductive: between the copy and the deletion of a move its origin has two slides, and another program may be about to delete the other one.  `KeptBut(d, Doomed(k))` says that each origin has a slide besides all those that moves are going to delete.  It needs that ids are not given out twice, so that a stale payload never names a slide that came later, and that slides with one id have one origin.  `refused = FALSE` is the other half: a payload that is not stale is the presentation's |
| `FilesStayTheirs` | `FilesAreTheirs` | `DriveInv`: versions grow; a fresh result is of a file with what was sent or something newer; without `creators`, whoever creates the file found none and is alone in it.  `ImageInv`: `insert_image` is called for a file that is there |
| `TabsAreReached` | `TabsAreAsMeant` | `SheetsInv`.  The property speaks of tabs and answers; its proof needs what each program knows, in the middle of a call too (`ProgramOK`): the payload is the spreadsheet as it is while nobody else has changed it (`Shows`), a new tab is where it was asked for until its frame is written (`Placed`), a copy can still have its place and title (`Arrangeable`), a `Sheet` that was refreshed is of the tab at its index (`SheetOK`).  That others do not disturb this rests on ids and titles that are given once (`TabsOK`).  `OneSheetInv` is as that of Drive: without a race, who creates has found nothing and is alone in it |

**Values** (`ValuesProofs`), of `ValuesSpec` in `Values`.

| theorem | says | argument |
|---|---|---|
| `PreviewsAreShown` | `PreviewsNeverRaise` | `PreviewInv`: a read raises what `PREVIEW_ERRORS` lists or polars' error (`ReadErrors`), whatever happened to the file since the last step |
| `DigestsAreTheirs` | `DigestsTellApart` | `DigestInv`: live functions have addresses of their own, and each digest says the code and the captured object as its kind of payload has them (`SaysOf`), a partial's only as it is shown, also of functions that are gone |
| `CellsSurvive` | `ConversionsKeepCells` | `FramesInv`: what each cell tells (a date, a time) is what it told when it was loaded, but for what the casts asked for dropped, and a column has its old cells or no text among them.  That both engines agree and that a parse changes nothing twice are lemmas on `ParseColumn` for any column |
| `DecksHold` | `DecksHoldTogether` | `DeckInv`: the slides in order; the boxes of a slide fit the size of the document they were placed on; pages that were taken are the rendered deck's (`RenderingOK`), though the deck and the PDF change while the generator is read |
| `SettingsComeBack` | `SettingsReturn` | `ConsoleInv`, about the whole stack: each open block puts back a hook and a `_state` that fit each other (`Told`).  `SettledInv`: what the open blocks, left in their order, would make of the hooks is at each depth what the calls outside of blocks settled (`LeavesAt` follows the stack from the innermost), whatever was switched within.  `ZoneInv`: the zone is the system's, the chosen one, one that a block took, or one that an exception left; without these the system's |
| `ExportsAreMeant` | `ExportsAreTheirs` | `ImagesInv`: a call that was alone from its start finds the image of its own HTML.  `DocumentsInv`: quarto writes through the links of its folder, and the links of an export under way are of other stems, or of the file itself, which it does not write (`ExportOK`) |
| `QueriesAreAsMeant` | `QueriesAreMeant` | `QueryInv`: the types of files and folders.  The work is in the lemmas on the operators: the search finds a file that is there, a statement with spaces is no path, and of each piece of a text what `Rendered` makes of it |

**Assumptions** are those named in the modules, and the runs evaluate them: None,
Missing and a torn file are no other value, lifetimes and bounds are numbers or None,
sets of threads are finite where something is counted.    Two are about the code's
use.  `SetupsAreSound` says that the values of one folder have one suffix, as the docstring of
`FileStore` has it; without it a stored key may be missed, and section 5 says how.
`WindowsAreSound` says that a windowed query deduplicates buckets and no raw rows, of which it would keep
one of each time, and that a backend that loses the order of rows has no `max_rows`.  The others of the value modules say what is
told apart: an address is none of the words that ids are written with (`CallablesAssumption`),
a console's hook none of Python's or of a caller's (`SettingsAssumption`), no text and no HTML is None
(`QueryAssumption`, `ExportsAssumption`), sizes are numbers or None (`DeckAssumption`).  One conjunct of
`ExportsAssumption` is about a program that is called: quarto does not write over
the file it reads.  The suffix that nbconvert writes is any that the format's kernels give (`Actual`),
as nbconvert.py:62-63 says of `script`.

**What the proofs changed.**  `TypeOK` of `FileStore` and of `GoogleDrive` were true and not
inductive: a thread at `find` has to have a key, and a call at `delete` or
`update` an id of a file that there is.  Both say so now.  The assumptions that None is no
Boolean, no key, no record of a call and no `Sheet` were used silently before.  One conjunct of the property of
query files counted the semicolons that rendering leaves; it says now which one may go.  The constants of these value modules
had been fixed in `MCValues`; they are parameters of `Values` now.

**Induction.**  No theorem does induction over data by the library's theorems, which
take an operator.  `OrderedDictLemmas` has the least-number principle instead
(`LeastNumber`, from the well-foundedness of the numbers) and from it `Reached`, induction over
an interval, and `Iterated`, by which a recursive function is what its equation
says; `Update` and `FlattenSeq` are reasoned about with them.

**Only model-checked:**

* Liveness and whatever needs `ENABLED`: `AllEnd`, that calls and batches end.
* `WindowIsHeldOnce` for a `BETWEEN` over raw rows, whose doubled rows the property counts.
* Ten properties of `Values` (dates, intervals, cells, files, colours, delegates, versions, names,
  hints, attribution), which say that compositions of conversions give back
  what went in.  Over dates, texts and sequences of any length these are
  inductions over data (the folds of a frame's blocks, of a chain of methods, of
  a year's days); on the runs' instances TLC goes through all of them.

## 5. What the runs found

Six statements of the repository are not so, and a run shows each:

* `MemoryStore.get` "returning MISSING on a miss": it raises `KeyError` when
  another thread took the key out between the lookup and `del` or `move_to_end`
  (memory.py:239, 243).
* `delete_cache` and `cache_clear` remove entries from memory only; the next
  process loads them from the pickle file when it starts, and calls get them
  (decorators.py:658-722).
* `WindowedQuery.update` "on failure the previous data and interval are
  preserved": not when `concat` raises (live.py:780).
* The fallback of `hash_callable` is "collision-free": it hashes the address of a
  temporary tuple, which another function's may have next (hashing.py:266-269).
* The hint for a missing module names "the extras group": an extra with "and" in
  its name, like `pandas`, is cut at it (extras.py:258).
* `SlideContext`: "if the block raises, the slide is removed from the deck and the
  original exception is re-raised": deletion is not implemented, so the slide stays and
  `NotImplementedError` takes the place of the exception (pptx, 252).

Seen while modelling and kept in the models as the code has them, without a run
that states it:

*Caches and reads.*  The trim loop may pop from a store that fits again
(memory.py:284-285), and on an empty one raises.  Two threads that miss a
namespace get two stores (439).  A lookup of a `FileStore` raises when the
file vanishes or does not parse (files.py:1136); `clear` and `delete` of a
process that has not resolved its suffix do nothing (1265); processes may infer
different suffixes for one folder, of which the first by name is then served,
though stale (1187, 1064); a store keeps its suffix after its folder was cleared.  A store that is given a
suffix of data frames and no backend, as `@cache(suffix='parquet')` is documented (decorators.py:328),
looks for files only after its first put: a new process misses what is stored (1064).
Arrays of objects are written with `allow_pickle` and read without, so that the second call raises
`ValueError` (433, 469); an empty mapping is taken for one of arrays
(710); a new process reads a polars frame as a pandas one.  `clear_cache` clears the
stores it is given whatever prefix and age it was called with; a sweep raises when a file goes between the listing and the look at its age (clearing.py:95), and half way when another
process unlinks (113), and takes files written since the listing.
Lifetimes that `format_ttl` writes alike share a store with that of the first
caller (utilities.py:210).  The reader is part of no key: a call with another one,
of another database, gets the first one's frame (read.py:637); nor is the backend without files,
so that a call for polars gets the pandas frame that is in memory (644-674).  "report.v2" is taken
for a query file, whether or not a file of that name can be found.

*Live queries.*  With a grain above the spacing of the rows, `StreamingQuery`
reads rows again (live.py:319).  Retention is not applied to the first frame or
an empty delta (230); a delta that `concat` refuses is lost (231).
`WindowedQuery.reset` moves the window before the read that may raise (830);
polars' `unique` keeps no order, so that `max_rows` may drop any bucket
(backends.py:505, live.py:1029).  The documented template takes raw rows `BETWEEN` both ends (604), and
`deduplicate` is off by default: rows at a time where two windows meet are held twice, which
a test expects (test_live.py:458); with it on, raw rows of one time are taken for one.

*Google.*  A payload of Slides is never refreshed, though its docstring says so
(slides, 74).  A move to the right lands one place too far left, as the copy is inserted
before the original goes (1655-1659).  What another program inserts on the slide between
the copy and the deletion goes with the original, and a move whose deletion fails leaves the slide
twice: `NothingLost` speaks of slides, and of none being lost.  A default `element_id` is evaluated once
(1673, 1921): the second insertion without one is refused.  The second request of
`create_new` failing leaves the placeholders (1156); a `reset` whose creation fails
leaves the object bound to a deleted file (1398-1406; sheets, 2442-2450).  `Drive.get`
looks for the path and `upload` stores the last part (google.py:950-956), so that a path with folders is
uploaded at each call; a forced `get` without a local file deletes the remote one
first.  A kept `Sheet` drifts to another tab (sheets, 941, 1014), `copy_sheet` copies
the tab at the old index (2707), `add_sheet_from_dataframe` writes to
the tab at its position (3032).  Two `get`s at the same time create two
spreadsheets.  Cells that are None leave what was there; `insert_df` by default
has texts like "=1" evaluated; the two forms of a mimebundle are two reads.

*Sessions.*  The docstring of `using` promises that every recorded value is restored (snowflake,
2082-2085).  A block that takes a database leaves the schema `PUBLIC`, whether it asked for one or not, as it is restored before the database;
a value that was None stays switched; a setter that the service refuses leaves the earlier ones switched, and one that raises while restoring leaves
the rest (2130).
`private_key_raw` never passes its key (499-503); a second configuration
is ignored while there is a session.  A stream of an engine raises at the first pull,
a cursor's at the call.  Nested `with` blocks of a Logger restore a
wrong level (logging.py:272); a level set on the clone or its parents may not
take effect, since the cache of enabled levels is cleared for registered loggers
only (426); overlapping calls that share a handler lose messages when the first one ends
(1004-1006); static and class methods break under `log_class`.  A valid OAuth token
is saved again at every load (oauth.py:907); a process with another key may delete a
token that was just saved (391).  The docstring of `load_token` and its log speak of tokens that do not
parse (331-335, 388); it parses none: one that another key encrypted, read without a key, raises later, and
one without a refresh token makes `from_authorized_user_info` raise at every call (898), until it is reset.

*Values and files.*  Conversions of `DateTime` lose `fold` (datetime.py:1040);
`Time.as_base` loses the zone; `Time.today` takes the day in the time's own zone, or in the local one
where it has none (499): the parts of a UTC datetime, which a `Time` keeps without the zone, are put together as a
local one; copies of an inverted interval that is not absolute turn it;
`get_intervals` raises for the days 29 to 31 (interval.py:1373).  Times parsed by
pandas drop the date of a later cell; `map_dtypes` leaves a frame half converted when it raises,
and pandas' dates are a column of objects (dataframes.py:840), which the next parse makes into datetimes
(1067-1078).  Under polars, Parquet yields its batches twice
(parquet, 399-405) and Feather yields pandas frames (feather, 406-414), whatever the docstrings say; `from_path` knows only
formats that were imported; polars' errors are not in `PREVIEW_ERRORS`; `save` writes the
index into csv and xlsx and the row count of a csv counts physical lines.  A stale PDF is accepted (2350) and page 0 is the last one (709).
`Colour.parse` takes the alpha of "#rrggbbaa" on another scale than its own
(454), and shared colours change in place.  A blend with a float opacity has float channels
(1013-1017): whole ones are written "255.0" (708), which PIL does not read, and the hexadecimal forms raise.  `Lazy`, "invoked at most once" (functions.py:80), runs its
factory again after None and for threads that meet (163).  The digest of a partial is of its `repr` (hashing.py:277), which "avoids
collisions" (274-276) but not between live partials over objects that show alike.  Versions that count different units
are sorted by the counts (versions.py:272).  Before the first configuration of an experiment its first one is
in force (520), so that an earlier one that is added later moves who was assigned then.  `test_local` "restores the previous value" (timezone.py:333)
only if that is the system's: a chosen zone, or that of an enclosing block, is lost, and after an exception the block's zone stays;
`setup_printing` inside of a `replace_print` leaves `_state` wrong; `requires_extras` around `may_require_extras` adds its hint twice.
`html_to_image` waits for ever for a path in another folder
(html.py:215) and may return a stale image, or that of another thread.  An nbconvert export of a format that is not in its table, or of `script` under a kernel of another
language (nbconvert.py:62-63), returns a path that is not there, with the document beside it.
polars attributes rows by their places, pandas by their segments
(attribution.py:957).

## 6. Plan

What a continuation would do next.

1. Proofs: `WindowIsHeldOnce` for a `BETWEEN` of raw rows, by counting the rows of a time; the values
   whose conversions are functions of a bounded argument (`Versions`, `Colours`).
2. Abstract specifications: a document whose calls name slides and tabs by id,
   which `GoogleSlides` implements for one program; "after the block is as before", for `Snowflake`
   and `ProcessSettings`; the live queries as a view of their source.
3. `read_queries` over the folder of files (threads of one process in
   `FileStore`); the formats and the links of spreadsheets; tables on slides.

## 7. Not modelled

* Plots and tables (`visualisation/graphs/`, `notebook.py`, stylers):
  layout handed to plotly and pandas, by far the largest part of the code.
* Notebooks and terminal front ends (`interfaces/code/`): the event loops are the
  libraries'.
* Environment helpers (secrets, drivers, timers, encodings): pure I/O.  Stub
  generators: their output is text.
* Within modelled components: the contents of frames beyond what properties tell
  apart, formats of texts and messages, the building of keys beyond being a
  function of the call, hit and miss counters except in `MemoryStore`,
  `lru_cache` (it hands over to `functools`), the typesetting of Markdown on slides, style
  sheets, floating-point arithmetic, file systems whose single operations are not
  atomic, and what `PROJECT.json` names under each component.
