---------------------------- MODULE MemoryStore ----------------------------
(***************************************************************************)
(* The in-memory cache back end, mayutils.environment.memoisation.memory:  *)
(* an OrderedDict of entries with a lazy time to live and a bound enforced *)
(* by dropping the oldest entries, and its pickle save and load.  One      *)
(* thread uses the store; SharedStore.tla has several.                     *)
(***************************************************************************)
EXTENDS Integers, TLC, OrderedDict

CONSTANTS
  Key,
  Value,
  TTL,         \* the lifetimes a store may be built with: integers or None
  MaxSize,     \* the bounds a store may be built with: naturals or None
  Path,        \* the pickle files it may be saved to
  Horizon,     \* bound: the clock stops there
  MaxLookups,  \* bound: the lookups between two resets of the counters
  Missing,     \* the MISSING sentinel
  None         \* Python's None

ASSUME ConfigAssumption ==
  /\ None \notin Int
  /\ Missing \notin Value
  /\ TTL \subseteq Int \cup {None}
  /\ MaxSize \subseteq Nat \cup {None}
  /\ Horizon \in Nat
  /\ MaxLookups \in Nat

VARIABLES
  store,       \* the OrderedDict: entries, oldest first
  hits,
  misses,
  ttl,
  maxsize,
  disk,        \* disk[p]: the entries load finds at p, none when there is no file
  now,         \* DateTime.now()
  answer       \* what the last call returned: [op, result]

vars == <<store, hits, misses, ttl, maxsize, disk, now, answer>>

\* The keys and the values are interchangeable.
Interchangeable == Permutations(Key) \cup Permutations(Value)

\* DateTime | None, as expiry() returns it
Deadline == Int \cup {None}

Entry == [key : Key, expires : Deadline, value : Value]

Result == Value \cup BOOLEAN \cup {Missing, None}

TypeOK ==
  /\ store \in Seq(Entry)
  /\ hits \in Nat
  /\ misses \in Nat
  /\ ttl \in TTL
  /\ maxsize \in MaxSize
  /\ disk \in [Path -> Seq(Entry)]
  /\ now \in Nat
  /\ answer \in [op : {"none", "get", "put", "delete", "clear", "save", "load"},
                 result : Result]

-----------------------------------------------------------------------------
IsExpired(expires) == expires # None /\ expires <= now

Expiry(lifetime) == IF lifetime = None THEN None ELSE now + lifetime

Answer(op, result) == answer' = [op |-> op, result |-> result]

\* The lookup counters stay within their bound.
MayLookUp == hits + misses < MaxLookups

Init ==
  /\ store = <<>>
  /\ hits = 0
  /\ misses = 0
  /\ ttl \in TTL
  /\ maxsize \in MaxSize
  /\ disk = [p \in Path |-> <<>>]
  /\ now = 0
  /\ answer = [op |-> "none", result |-> None]

-----------------------------------------------------------------------------
\* get: the key is absent
GetAbsent(k) ==
  /\ MayLookUp
  /\ k \notin Keys(store)
  /\ misses' = misses + 1
  /\ Answer("get", Missing)
  /\ UNCHANGED <<store, hits, ttl, maxsize, disk, now>>

\* get: the entry has expired and is dropped
GetExpired(k) ==
  /\ MayLookUp
  /\ k \in Keys(store)
  /\ IsExpired(Lookup(store, k).expires)
  /\ store' = DelItem(store, k)
  /\ misses' = misses + 1
  /\ Answer("get", Missing)
  /\ UNCHANGED <<hits, ttl, maxsize, disk, now>>

\* get: a live entry is served and becomes the newest
GetHit(k) ==
  /\ MayLookUp
  /\ k \in Keys(store)
  /\ ~IsExpired(Lookup(store, k).expires)
  /\ store' = MoveToEnd(store, k)
  /\ hits' = hits + 1
  /\ Answer("get", Lookup(store, k).value)
  /\ UNCHANGED <<misses, ttl, maxsize, disk, now>>

\* Mutant of Trimmed: len(self.store) > self.maxsize + 1
TrimmedLoosely(d) == IF maxsize = None THEN d ELSE KeepNewest(d, maxsize + 1)

\* The while loop at the end of put.
Trimmed(d) == IF maxsize = None THEN d ELSE KeepNewest(d, maxsize)

Put(k, v) ==
  /\ store' = Trimmed(Assign(store, [key |-> k, expires |-> Expiry(ttl), value |-> v]))
  /\ Answer("put", None)
  /\ UNCHANGED <<hits, misses, ttl, maxsize, disk, now>>

Delete(k) ==
  /\ store' = IF k \in Keys(store) THEN DelItem(store, k) ELSE store
  /\ Answer("delete", k \in Keys(store))
  /\ UNCHANGED <<hits, misses, ttl, maxsize, disk, now>>

Clear ==
  /\ store' = <<>>
  /\ hits' = 0
  /\ misses' = 0
  /\ Answer("clear", None)
  /\ UNCHANGED <<ttl, maxsize, disk, now>>

Save(p) ==
  /\ disk' = [disk EXCEPT ![p] = store]
  /\ Answer("save", None)
  /\ UNCHANGED <<store, hits, misses, ttl, maxsize, now>>

\* Mutant of Load: the loaded entries get the new lifetime from now on.
LoadRenewed(p) ==
  /\ ttl' \in TTL
  /\ maxsize' \in MaxSize
  /\ store' = [i \in DOMAIN disk[p] |-> [disk[p][i] EXCEPT !.expires = Expiry(ttl')]]
  /\ hits' = 0
  /\ misses' = 0
  /\ Answer("load", None)
  /\ UNCHANGED <<disk, now>>

\* load builds a new store, with options of its own; the caller drops the old
\* one.  The entries are taken as they were saved, without a trim.
Load(p) ==
  /\ ttl' \in TTL
  /\ maxsize' \in MaxSize
  /\ store' = disk[p]
  /\ hits' = 0
  /\ misses' = 0
  /\ Answer("load", None)
  /\ UNCHANGED <<disk, now>>

Tick ==
  /\ now < Horizon
  /\ now' = now + 1
  /\ UNCHANGED <<store, hits, misses, ttl, maxsize, disk, answer>>

Next ==
  \/ \E k \in Key : GetAbsent(k) \/ GetExpired(k) \/ GetHit(k) \/ Delete(k)
  \/ \E k \in Key, v \in Value : Put(k, v)
  \/ \E p \in Path : Save(p) \/ Load(p)
  \/ Clear
  \/ Tick

Spec == Init /\ [][Next]_vars

-----------------------------------------------------------------------------
\* The value a lookup of each key in the entries d is answered with now.
LiveContents(d) ==
  [k \in Key |-> IF k \in Keys(d) /\ ~IsExpired(Lookup(d, k).expires)
                 THEN Lookup(d, k).value ELSE Missing]

Contract == INSTANCE CacheStore WITH
  held    <- LiveContents(store),
  saved   <- [p \in Path |-> LiveContents(disk[p])],
  bounded <- maxsize # None

(* The store keeps the promise of the CacheStore protocol: a lookup returns *)
(* the value of the last put of its key, unless that entry was deleted,     *)
(* cleared, expired or, in a bounded store, evicted by a later put; a saved *)
(* entry does not outlive its deadline by being loaded again.               *)
KeepsContract == Contract!Init /\ [][Contract!Next]_(Contract!vars)

WithinBound == maxsize # None => Len(store) <= maxsize

(* "maxsize: Upper bound on live entries" (memory.py): no call but load     *)
(* takes a store over its bound, and any put brings it within the bound,    *)
(* also the first one after a load of more entries.                         *)
OnlyLoadOverfills ==
  [][ /\ WithinBound => WithinBound' \/ answer'.op = "load"
      /\ (\E k \in Key, v \in Value : Put(k, v)) => WithinBound' ]_vars

LifetimeIsTTL ==
  ttl # None =>
    \A i \in DOMAIN store : store[i].expires # None /\ store[i].expires <= now + ttl

(* "ttl: Lifetime of each entry" (memory.py): no call but load gives a      *)
(* store entries that are kept for longer than its lifetime.                *)
OnlyLoadOutlives == [][ LifetimeIsTTL => LifetimeIsTTL' \/ answer'.op = "load" ]_vars

(* The two: what bounds a store are its own arguments, until it loads the  *)
(* file of another store.                                                  *)
StoreKeepsItsBounds == OnlyLoadOverfills /\ OnlyLoadOutlives

(* The entries form a dictionary, and every pickled file holds one: no      *)
(* sequence of calls leaves two entries for a key.                          *)
UniqueKeys ==
  /\ Unique(store)
  /\ \A p \in Path : Unique(disk[p])
=============================================================================
