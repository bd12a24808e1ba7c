----------------------------- MODULE ReadQuery -----------------------------
(***************************************************************************)
(* mayutils.data.read.read_query: how one call after the other, with its   *)
(* own backend, lifetime and persist, is routed to the reader, to a shared *)
(* store in memory or to the files of "execute".  Both caches are kept     *)
(* under the lifetime as format_ttl writes it, here in units of time of    *)
(* which Minute make a minute, and under the rendered query: not under the *)
(* reader, so all calls have the same one, nor under the backend.          *)
(***************************************************************************)
EXTENDS Integers

CONSTANTS
  Query,       \* the rendered queries
  Backend,
  Lifetime,    \* the values of ttl in use, None among them or not
  Minute,      \* lifetimes from here on are written in minutes
  MaxReads,    \* bound: the calls
  Horizon,     \* bound: the clock stops there
  None         \* Python's None

ReadQueryAssumption ==
  /\ None \notin Int \cup BOOLEAN
  /\ Lifetime \subseteq Nat \cup {None}
  /\ Minute \in Nat \ {0}
  /\ MaxReads \in Nat
  /\ Horizon \in Nat

\* format_ttl: whole minutes from a minute on; no text without a lifetime
Label(ttl) == IF ttl = None \/ ttl < Minute THEN ttl ELSE ttl - (ttl % Minute)

Labels == {Label(ttl) : ttl \in Lifetime}

Frame == [query : Query, backend : Backend, at : 0..Horizon]

Request == [query : Query, backend : Backend, ttl : Lifetime,
            persist : {TRUE, FALSE, None}]

VARIABLES
  shared,   \* SHARED_STORES: for each label the lifetime and the entries of its store
  files,    \* the files of the folder "execute"
  request,  \* history: the arguments of the last call, or None
  result,   \* history: the frame it returned, or None when it raised
  cleared,  \* history: when clear_shared_stores was last called
  reads,
  now

vars == <<shared, files, request, result, cleared, reads, now>>

Entry == [frame : Frame, expires : Nat \cup {None}]

TypeOK ==
  /\ shared \in [Labels -> [ttl : Lifetime, entries : [Query -> Entry \cup {None}]] \cup {None}]
  /\ files \in [Labels \X Query -> Frame \cup {None}]
  /\ request \in Request \cup {None}
  /\ result \in Frame \cup {None}
  /\ cleared \in 0..now
  /\ reads \in 0..MaxReads
  /\ now \in 0..Horizon
  /\ \A l \in Labels : shared[l] # None => Label(shared[l].ttl) = l

-----------------------------------------------------------------------------
Init ==
  /\ shared = [l \in Labels |-> None]
  /\ files = [p \in Labels \X Query |-> None]
  /\ request = None
  /\ result = None
  /\ cleared = 0
  /\ reads = 0
  /\ now = 0

Fetched(c) == [query |-> c.query, backend |-> c.backend, at |-> now]

\* get_shared_store: the first caller of a label gives the store its lifetime.
StoreOf(c) ==
  IF shared[Label(c.ttl)] = None
  THEN [ttl |-> c.ttl, entries |-> [q \in Query |-> None]]
  ELSE shared[Label(c.ttl)]

\* MemoryStore.get
Live(e) == e # None /\ (e.expires # None => now < e.expires)

\* FileStore.get: the file is compared with the lifetime of this call
Fresh(f, ttl) == f # None /\ (ttl # None => now - f.at <= ttl)

Arrives(c) == reads < MaxReads /\ reads' = reads + 1 /\ request' = c

\* persist=None
Bypass(c) ==
  /\ c.persist = None
  /\ Arrives(c)
  /\ result' = Fetched(c)
  /\ UNCHANGED <<shared, files, cleared, now>>

\* persist=False: cache(ttl=ttl, shared=True), a hit.  Neither the namespace nor
\* the key has the backend: the frame may be one of another backend, which is
\* returned as it is, or which parse_temporal_columns fails on (AttributeError).
FromMemory(c) ==
  /\ c.persist = FALSE
  /\ Live(StoreOf(c).entries[c.query])
  /\ Arrives(c)
  /\ LET frame == StoreOf(c).entries[c.query].frame IN
       \/ result' = frame
       \/ frame.backend # c.backend /\ result' = None
  /\ UNCHANGED <<shared, files, cleared, now>>

\* persist=False: a miss
IntoMemory(c) ==
  LET entry == [frame |-> Fetched(c),
                expires |-> IF StoreOf(c).ttl = None THEN None ELSE now + StoreOf(c).ttl]
  IN
  /\ c.persist = FALSE
  /\ ~Live(StoreOf(c).entries[c.query])
  /\ Arrives(c)
  /\ result' = Fetched(c)
  /\ shared' = [shared EXCEPT ![Label(c.ttl)] =
       [StoreOf(c) EXCEPT !.entries[c.query] = entry]]
  /\ UNCHANGED <<files, cleared, now>>

\* persist=True: a file with the label in its name, read for this backend
FromFile(c) ==
  LET file == files[<<Label(c.ttl), c.query>>] IN
  /\ c.persist = TRUE
  /\ Fresh(file, c.ttl)
  /\ Arrives(c)
  /\ result' = [file EXCEPT !.backend = c.backend]
  /\ UNCHANGED <<shared, files, cleared, now>>

IntoFile(c) ==
  /\ c.persist = TRUE
  /\ ~Fresh(files[<<Label(c.ttl), c.query>>], c.ttl)
  /\ Arrives(c)
  /\ result' = Fetched(c)
  /\ files' = [files EXCEPT ![<<Label(c.ttl), c.query>>] = Fetched(c)]
  /\ UNCHANGED <<shared, cleared, now>>

\* The reader raises: a miss has removed an expired entry, and created the store.
Raises(c) ==
  /\ Arrives(c)
  /\ result' = None
  /\ \/ c.persist = None /\ UNCHANGED shared
     \/ /\ c.persist = TRUE
        /\ ~Fresh(files[<<Label(c.ttl), c.query>>], c.ttl)
        /\ UNCHANGED shared
     \/ /\ c.persist = FALSE
        /\ ~Live(StoreOf(c).entries[c.query])
        /\ shared' = [shared EXCEPT ![Label(c.ttl)] =
             [StoreOf(c) EXCEPT !.entries[c.query] = None]]
  /\ UNCHANGED <<files, cleared, now>>

\* Mutant of ClearSharedStores: only the stores without a lifetime go.
ClearLasting ==
  /\ shared' = [l \in Labels |-> IF l = None THEN None ELSE shared[l]]
  /\ cleared' = now
  /\ request' = None
  /\ result' = None
  /\ UNCHANGED <<files, reads, now>>

ClearSharedStores ==
  /\ shared' = [l \in Labels |-> None]
  /\ cleared' = now
  /\ request' = None
  /\ result' = None
  /\ UNCHANGED <<files, reads, now>>

Tick ==
  /\ now < Horizon
  /\ now' = now + 1
  /\ request' = None
  /\ result' = None
  /\ UNCHANGED <<shared, files, cleared, reads>>

Next ==
  \/ \E c \in Request :
       \/ Bypass(c) \/ FromMemory(c) \/ IntoMemory(c)
       \/ FromFile(c) \/ IntoFile(c) \/ Raises(c)
  \/ ClearSharedStores \/ Tick

Spec == Init /\ [][Next]_vars

-----------------------------------------------------------------------------
(* "Time-to-live for cached results" (read.py, read_query) and "Different   *)
(* ttl values route to separate shared stores (per-call ttl)"               *)
(* (test_read_query_regressions.py): no result from a file is older than    *)
(* the lifetime of the call it is returned to, and none from memory older   *)
(* than a lifetime that is written like it; lifetimes that are not written  *)
(* alike, and calls without one, never get in each other's way.             *)
TtlRespected ==
  request # None /\ result # None /\ request.ttl # None =>
    \E ttl \in Lifetime \ {None} :
      /\ Label(ttl) = Label(request.ttl)
      /\ request.persist = TRUE => ttl = request.ttl
      /\ now - result.at <= ttl

(* "None bypasses caching entirely" (read.py, read_query), "additional      *)
(* values included in the cache key": the result is the answer to the query *)
(* of the call, and without caching it is read now; one from memory was     *)
(* read since clear_shared_stores was called.                               *)
RightResult ==
  request # None /\ result # None =>
    /\ result.query = request.query
    /\ request.persist = None => result = Fetched(request)
    /\ request.persist = FALSE => result.at >= cleared

(* "DataFrame backend token for DataFile-backed formats" (files.py): a      *)
(* result that is read now, or comes from or through a file, is a frame of  *)
(* the backend the call asked for.  One from memory need not be: it has the *)
(* backend of the call that read it.                                        *)
FileBackend ==
  request # None /\ result # None /\ request.persist # FALSE =>
    result.backend = request.backend
=============================================================================
