---------------------------- MODULE CacheFolder ----------------------------
(***************************************************************************)
(* The folder of a cached function: what the serialisers of                *)
(* memoisation/files make of the values of its calls, in whose format each *)
(* process has it, and clear_cache of memoisation/clearing, which sweeps   *)
(* the folder while others go on.  A lookup and a write are one step each  *)
(* here; FileStore has their steps.  What numpy, pickle and parquet make of*)
(* a value is external.                                                    *)
(***************************************************************************)
EXTENDS Integers, FiniteSets, Python

CONSTANTS
  Process,
  Key,      \* names of files start with their key
  Kind,     \* of the values
  Limit,    \* the ttl of calls of clear_cache, or None
  MaxPuts,  \* bound: the values that are computed
  MaxSweeps, \* bound: the calls of clear_cache
  Horizon   \* bound: the clock stops there

VARIABLES
  folder,  \* the file of each key and suffix: a value and its time, or None
  stores,  \* what each process's store has resolved: a suffix and a backend, or None
  memory,  \* what the shared stores of each process hold
  latest,  \* history: what was put last under each key, None when it was deleted since
  mixed,   \* history: the folder or the stores had two suffixes at once
  answer,  \* the lookup that this step was
  sweep,   \* the call of clear_cache under way: whose, and the paths that are left
  report,  \* the call of clear_cache that ended with this step
  now, puts, sweeps

Frames == {"pandas", "polars"}
Suffix == {".parquet", ".npy", ".npz", ".pkl"}
Place == Key \X Suffix
Kinds == Frames \cup {"array", "arrays", "empty", "objects", "other"}  \* "objects": an array of objects
Value == [kind : Kinds, number : Nat]
Read == [kind : Kinds \cup {"raises"}, number : Nat]
File == [value : Value, at : Nat]
Store == [suffix : Suffix, backend : Frames \cup {None}]

CacheFolderAssumption ==
  /\ Kind \subseteq Kinds
  /\ Limit \subseteq Nat \cup {None}
  /\ None \notin Read \cup File \cup Store \cup {"FileNotFoundError"}

There(place) == folder[place] # None

FolderInit ==
  /\ folder = [place \in Place |-> None]
  /\ stores = [p \in Process |-> None]
  /\ memory = [p \in Process |-> {}]
  /\ latest = [k \in Key |-> None]
  /\ mixed = FALSE
  /\ answer = None /\ sweep = None /\ report = None
  /\ now = 0 /\ puts = 0 /\ sweeps = 0

-----------------------------------------------------------------------------
\* infer_suffix: all() of no values holds, so that an empty mapping is one of arrays
InferSuffix(kind) ==
  CASE kind \in Frames -> ".parquet"
    [] kind \in {"array", "objects"} -> ".npy"
    [] kind \in {"arrays", "empty"} -> ".npz"
    [] kind = "other" -> ".pkl"

\* Backend.infer of a frame; a store that finds its suffix in the folder has pandas
BackendOf(suffix, kind) == IF suffix = ".parquet" THEN kind ELSE None
DefaultBackend(suffix) == IF suffix = ".parquet" THEN "pandas" ELSE None

\* What get_serialiser gives for the suffix takes the value.
Takes(store, kind) ==
  CASE store.suffix = ".pkl" -> TRUE
    [] store.suffix = ".npy" -> TRUE  \* whatever it is, as an array
    [] store.suffix = ".npz" -> kind \in {"arrays", "empty", "pandas"}  \* **obj
    [] store.suffix = ".parquet" -> kind = store.backend

\* Reads of objects raise: what is written with allow_pickle is read without.
ReadBack(store, value) ==
  CASE store.suffix = ".pkl" -> value
    [] store.suffix = ".npy" /\ value.kind \in Frames \cup {"array"} -> [value EXCEPT !.kind = "array"]
    [] store.suffix = ".npy" /\ value.kind \notin Frames \cup {"array"} -> [value EXCEPT !.kind = "raises"]
    [] store.suffix = ".npz" -> [value EXCEPT !.kind = IF @ = "pandas" THEN "arrays" ELSE @]
    [] store.suffix = ".parquet" -> [value EXCEPT !.kind = store.backend]

-----------------------------------------------------------------------------
Other(suffix) ==
  \/ \E place \in Place : There(place) /\ place[2] # suffix
  \/ \E p \in Process : stores[p] # None /\ stores[p].suffix # suffix

\* put: resolve, unless a lookup or a value did
Put(p, key, kind) ==
  LET suffix == InferSuffix(kind)
      store == IF stores[p] = None THEN [suffix |-> suffix, backend |-> BackendOf(suffix, kind)] ELSE stores[p]
      value == [kind |-> kind, number |-> puts + 1]
  IN
  /\ puts < MaxPuts /\ puts' = puts + 1
  /\ stores' = [stores EXCEPT ![p] = store]
  /\ IF Takes(store, kind)
     THEN /\ folder' = [folder EXCEPT ![<<key, store.suffix>>] = [value |-> value, at |-> now]]
          /\ latest' = [latest EXCEPT ![key] = value]
          /\ mixed' = (mixed \/ Other(store.suffix))
     ELSE UNCHANGED <<folder, latest, mixed>>
  /\ answer' = None /\ report' = None
  /\ UNCHANGED <<memory, sweep, now, sweeps>>

\* _resolve_from_disk: the first file of the folder, by name, so by its key and suffix
FromDisk(p) ==
  IF stores[p] # None THEN {stores[p]}
  ELSE LET order == [s \in Suffix |-> CASE s = ".npy" -> 1 [] s = ".npz" -> 2 [] s = ".parquet" -> 3 [] s = ".pkl" -> 4]
           firsts == {place \in Place : There(place) /\ \A s \in Suffix : There(<<place[1], s>>) => order[place[2]] <= order[s]}
       IN IF firsts = {} THEN {None}
          ELSE {[suffix |-> place[2], backend |-> DefaultBackend(place[2])] : place \in firsts}

Lookup(store, key) ==
  [key |-> key, store |-> store,
   got |-> IF store # None /\ There(<<key, store.suffix>>)
           THEN ReadBack(store, folder[<<key, store.suffix>>].value) ELSE None]

\* get, without a lifetime
Get(p, key) ==
  \E store \in FromDisk(p) :
    /\ stores' = [stores EXCEPT ![p] = store]
    /\ answer' = Lookup(store, key)
    /\ report' = None
    /\ UNCHANGED <<folder, memory, latest, mixed, sweep, now, puts, sweeps>>

Without(places) ==
  /\ folder' = [place \in Place |-> IF place \in places THEN None ELSE folder[place]]
  /\ latest' = [k \in Key |-> IF \A place \in Place : place[1] = k => folder'[place] = None THEN None ELSE latest[k]]

Delete(p, key) ==
  /\ stores[p] # None /\ There(<<key, stores[p].suffix>>)
  /\ Without({<<key, stores[p].suffix>>})
  /\ answer' = None /\ report' = None
  /\ UNCHANGED <<stores, memory, mixed, sweep, now, puts, sweeps>>

\* a call of a function with a shared store
Remember(p) ==
  /\ puts < MaxPuts /\ puts' = puts + 1
  /\ memory' = [memory EXCEPT ![p] = @ \cup {puts + 1}]
  /\ answer' = None /\ report' = None
  /\ UNCHANGED <<folder, stores, latest, mixed, sweep, now, sweeps>>

Restart(p) ==
  /\ stores' = [stores EXCEPT ![p] = None] /\ memory' = [memory EXCEPT ![p] = {}]
  /\ sweep' = IF sweep # None /\ sweep.by = p THEN None ELSE sweep
  /\ answer' = None /\ report' = None
  /\ UNCHANGED <<folder, latest, mixed, now, puts, sweeps>>

-----------------------------------------------------------------------------
Matches(place, filter) ==
  /\ filter.prefix = None \/ filter.prefix = place[1]
  /\ filter.suffix = None \/ filter.suffix = place[2]

\* Mutant of Candidates: the files that are not stale.
CandidatesFresh(filter) ==
  {place \in Place : There(place) /\ Matches(place, filter)
                       /\ (filter.ttl = None \/ ~(now - folder[place].at > filter.ttl))}
Candidates(filter) ==
  {place \in Place : There(place) /\ Matches(place, filter)
                       /\ (filter.ttl = None \/ now - folder[place].at > filter.ttl)}

Ended(call, error) ==
  sweep' = None /\ report' = [by |-> call.by, filter |-> call.filter, dry |-> call.dry,
                              began |-> call.began, at |-> call.at, error |-> error]

\* The files that go with the store that is given, and the call to sweep the others.
Given(p, given) ==
  IF given /\ stores[p] # None THEN {place \in Place : place[2] = stores[p].suffix} ELSE {}
NewSweep(p, filter, gone, dry, interactive) ==
  [by |-> p, filter |-> filter, dry |-> dry, interactive |-> interactive,
   left |-> Candidates(filter) \ gone, began |-> puts, at |-> now]

\* clear_cache: the shared stores and the store that is given, whatever the filter is;
\* then the folder is listed.  A dry run ends with the list, whatever else is asked.
ClearCache(p, filter, given, dry, interactive) ==
  /\ sweep = None /\ sweeps < MaxSweeps /\ sweeps' = sweeps + 1
  /\ \/ /\ dry /\ Without({}) /\ memory' = memory
        /\ Ended(NewSweep(p, filter, {}, dry, interactive), None)
     \/ /\ ~dry /\ Without(Given(p, given)) /\ memory' = [memory EXCEPT ![p] = {}]
        /\ sweep' = NewSweep(p, filter, Given(p, given), dry, interactive) /\ report' = None
  /\ answer' = None
  /\ UNCHANGED <<stores, mixed, now, puts>>

\* a file that another call deletes before the listing asks for its time (is_file_stale)
ListingRaises(p, filter, given, interactive) ==
  /\ sweep = None /\ sweeps < MaxSweeps /\ sweeps' = sweeps + 1
  /\ filter.ttl # None
  /\ \E place \in Place \ Given(p, given) :
       /\ There(place) /\ Matches(place, filter)
       /\ Without(Given(p, given) \cup {place})
       /\ Ended(NewSweep(p, filter, Given(p, given), FALSE, interactive), "FileNotFoundError")
  /\ memory' = [memory EXCEPT ![p] = {}]
  /\ answer' = None
  /\ UNCHANGED <<stores, mixed, now, puts>>

\* the script mayutils.scripts.clear_cache: by name only, interactively, of no store
Clean(p, filter, dry) == filter.ttl = None /\ ClearCache(p, filter, FALSE, dry, TRUE)

\* path.unlink() of the next one; interactively only when it is still there
Unlink(place) ==
  /\ There(place) \/ sweep.interactive
  /\ Without({place})
  /\ sweep' = [sweep EXCEPT !.left = @ \ {place}] /\ report' = None
UnlinkRaises(place) ==
  /\ ~There(place) /\ ~sweep.interactive
  /\ Ended(sweep, "FileNotFoundError") /\ UNCHANGED <<folder, latest>>
Sweep ==
  /\ sweep # None
  /\ \/ sweep.left = {} /\ Ended(sweep, None) /\ UNCHANGED <<folder, latest>>
     \/ \E place \in sweep.left : Unlink(place) \/ UnlinkRaises(place)
  /\ answer' = None
  /\ UNCHANGED <<stores, memory, mixed, now, puts, sweeps>>

Tick == now < Horizon /\ now' = now + 1 /\ answer' = None /\ report' = None
        /\ UNCHANGED <<folder, stores, memory, latest, mixed, sweep, puts, sweeps>>

\* one criterion at a time
Filters == {filter \in [prefix : Key \cup {None}, suffix : {".npy", None}, ttl : Limit] :
              Cardinality({criterion \in DOMAIN filter : filter[criterion] # None}) <= 1}
FolderNext ==
  \/ \E p \in Process :
       \/ \E key \in Key : Get(p, key) \/ Delete(p, key) \/ \E kind \in Kind : Put(p, key, kind)
       \/ Remember(p) \/ Restart(p)
       \/ \E filter \in Filters :
            \/ \E dry \in BOOLEAN : Clean(p, filter, dry)
            \/ \E given, interactive \in BOOLEAN :
                 ClearCache(p, filter, given, FALSE, interactive) \/ ListingRaises(p, filter, given, interactive)
  \/ Sweep
  \/ Tick

-----------------------------------------------------------------------------
(* "This recovers the suffix from any existing file [...] so those reads   *)
(* hit" (files, FileStore._resolve_from_disk): unless the folder, or the   *)
(* stores, had two suffixes at once, a lookup in whatever process gives the*)
(* value that was put last under its key, a frame as one of its store's    *)
(* backend.  It raises only for objects in a file of numpy's; and other    *)
(* values are made into arrays when the first one was one.                 *)
LastPutIsServed ==
  answer # None /\ ~mixed =>
    LET put == latest[answer.key]
        fits == answer.store.suffix \in {".pkl", InferSuffix(put.kind)}
        kinds == IF put.kind = "objects" THEN {"objects", "raises"} ELSE IF put.kind \in Frames THEN Frames ELSE {put.kind}
    IN
    IF put = None THEN answer.got = None
    ELSE /\ answer.got # None /\ answer.got.number = put.number
         /\ fits => answer.got.kind \in kinds
         /\ ~fits => answer.got.kind \in {"array", "arrays", "raises"}

(* "Clear in-memory stores and remove stale persistent cache files"        *)
(* (clearing, clear_cache): when it has returned, no file that its filter  *)
(* names is there as it was before the call, nor what the process's shared *)
(* stores held, whatever was written and deleted meanwhile.                *)
ClearedIsGone ==
  report # None /\ report.error = None /\ ~report.dry =>
    /\ \A place \in Place :
         There(place) /\ Matches(place, report.filter) /\ folder[place].value.number <= report.began =>
           report.filter.ttl # None /\ ~(report.at - folder[place].at > report.filter.ttl)
    /\ \A number \in memory[report.by] : number > report.began

(* The two, of one folder.                                                 *)
FolderKeepsItsWord == LastPutIsServed /\ ClearedIsGone
=============================================================================
