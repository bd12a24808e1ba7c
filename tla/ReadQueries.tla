---------------------------- MODULE ReadQueries ----------------------------
(***************************************************************************)
(* mayutils.data.read.read_queries: the caller submits one read_query for  *)
(* each query to a pool of threads, takes the results in the order of the  *)
(* queries, and leaves the pool only when its threads have nothing left to *)
(* do.  The threads run the cached call of SharedStore, whose store        *)
(* outlives the batch; with persist=None they call the reader directly.    *)
(***************************************************************************)
EXTENDS SharedStore

CONSTANTS
  Batches,     \* the batches of queries a caller may read
  Persists,    \* what persist may be: FALSE, the shared in-memory cache; None, no cache
  MaxBatches   \* bound: the batches read one after the other

ASSUME ReadAssumption ==
  /\ Batches \subseteq Seq(Key)
  /\ Persists \subseteq {FALSE, None}
  /\ MaxBatches \in Nat

(* A small instance: no batch, and one that asks for one query twice (which *)
(* one does not matter); with the shared cache and without one.            *)
SmallBatches ==
  LET k == CHOOSE k \in Key : TRUE
  IN {<<>>} \cup {<<k, k, other>> : other \in Key \ {k}}

BothPersists == {FALSE, None}

VARIABLES
  caller,    \* where the caller is in read_queries
  batch,     \* queries
  persist,
  submitted, \* how many of them are submitted
  taken,     \* how many of them the threads have taken from the queue
  task,      \* the query each thread works on, an index of batch, or 0
  outcome,   \* the futures: what each query ended with
  awaited,   \* the future the caller waits for
  started,   \* history: when the caller called read_queries
  batches

pool == <<caller, batch, persist, submitted, taken, task, outcome, awaited, started, batches>>
readVars == <<vars, pool>>

Pending == [done |-> FALSE, failed |-> FALSE, value |-> Unset]

Succeeded(i) == outcome[i].done /\ ~outcome[i].failed

Failed(i) == outcome[i].done /\ outcome[i].failed

PoolTypeOK ==
  /\ caller \in {"idle", "submitting", "waiting", "leaving", "raising"}
  /\ batch \in Seq(Key)
  /\ submitted \in 0 .. Len(batch)
  /\ taken \in 0 .. submitted
  /\ task \in [Thread -> 0 .. taken]
  /\ outcome \in [DOMAIN batch -> [done : BOOLEAN, failed : BOOLEAN, value : Value \cup {Unset}]]
  /\ awaited \in 1 .. Len(batch) + 1
  /\ started \in Nat
  /\ batches \in Nat
  /\ \A t \in Thread : pc[t] # "idle" <=> task[t] # 0

-----------------------------------------------------------------------------
ReadInit ==
  /\ Init
  /\ caller = "idle"
  /\ batch = <<>>
  /\ persist = None
  /\ submitted = 0
  /\ taken = 0
  /\ task = [t \in Thread |-> 0]
  /\ outcome = <<>>
  /\ awaited = 1
  /\ started = 0
  /\ batches = 0

\* The caller reads a batch, after the last one came back to it.
ReadBatch ==
  /\ caller = "idle"
  /\ batches < MaxBatches
  /\ batch' \in Batches
  /\ persist' \in Persists
  /\ caller' = "submitting"
  /\ submitted' = 0
  /\ taken' = 0
  /\ outcome' = [i \in DOMAIN batch' |-> Pending]
  /\ awaited' = 1
  /\ started' = now
  /\ batches' = batches + 1
  /\ UNCHANGED <<vars, task>>

\* executor.submit(read_query, query, ...)
Submit ==
  /\ caller = "submitting"
  /\ submitted < Len(batch)
  /\ submitted' = submitted + 1
  /\ UNCHANGED <<vars, caller, batch, persist, taken, task, outcome, awaited, started, batches>>

\* The tuple of futures is complete.
AwaitAll ==
  /\ caller = "submitting"
  /\ submitted = Len(batch)
  /\ caller' = "waiting"
  /\ UNCHANGED <<vars, batch, persist, submitted, taken, task, outcome, awaited, started, batches>>

\* A thread takes the oldest query of the queue.
Take(t) ==
  /\ taken < submitted
  /\ Call(t, batch[taken + 1])
  /\ taken' = taken + 1
  /\ task' = [task EXCEPT ![t] = taken + 1]
  /\ UNCHANGED <<caller, batch, persist, submitted, outcome, awaited, started, batches>>

\* read_query: render_query raises before the cache is looked at
RenderFails(t) ==
  /\ Goto(t, "resolve", "failed")
  /\ UNCHANGED <<registry, dicts, now, clears, calls, frame, pool>>

\* read_query, persist=None: result = reader(rendered_query, ...)
ReadUncached(t) ==
  /\ persist = None
  /\ Goto(t, "resolve", "returned")
  /\ frame' = [frame EXCEPT ![t].value = [key |-> frame[t].key, at |-> now]]
  /\ UNCHANGED <<registry, dicts, now, clears, calls, pool>>

\* read_query, persist=False: the steps of the cached call
ReadCached(t) ==
  /\ persist # None
  /\ Step(t)
  /\ UNCHANGED pool

\* The future of the thread's query is set.
Finish(t) ==
  /\ Leave(t)
  /\ outcome' = [outcome EXCEPT ![task[t]] =
       [done |-> TRUE, failed |-> pc[t] # "returned",
        value |-> IF pc[t] = "returned" THEN frame[t].value ELSE Unset]]
  /\ task' = [task EXCEPT ![t] = 0]
  /\ UNCHANGED <<caller, batch, persist, submitted, taken, awaited, started, batches>>

\* future.result() returns
Collect ==
  /\ caller = "waiting"
  /\ awaited <= Len(batch)
  /\ Succeeded(awaited)
  /\ awaited' = awaited + 1
  /\ UNCHANGED <<vars, caller, batch, persist, submitted, taken, task, outcome, started, batches>>

CollectedAll ==
  /\ caller = "waiting"
  /\ awaited > Len(batch)
  /\ caller' = "leaving"
  /\ UNCHANGED <<vars, batch, persist, submitted, taken, task, outcome, awaited, started, batches>>

\* Mutant of CollectRaises: the failure that is there first is raised.
CollectAnyRaises ==
  /\ caller = "waiting"
  /\ \E i \in awaited .. Len(batch) : Failed(i) /\ awaited' = i
  /\ caller' = "raising"
  /\ UNCHANGED <<vars, batch, persist, submitted, taken, task, outcome, started, batches>>

\* future.result() raises what its query raised
CollectRaises ==
  /\ caller = "waiting"
  /\ awaited <= Len(batch)
  /\ Failed(awaited)
  /\ caller' = "raising"
  /\ UNCHANGED <<vars, batch, persist, submitted, taken, task, outcome, awaited, started, batches>>

\* The executor's __exit__: shutdown(wait=True) joins the threads, which empty
\* the queue first; the results, or the exception, go to the caller.
LeavePool ==
  /\ caller \in {"leaving", "raising"}
  /\ taken = submitted
  /\ \A t \in Thread : task[t] = 0
  /\ caller' = "idle"
  /\ UNCHANGED <<vars, batch, persist, submitted, taken, task, outcome, awaited, started, batches>>

Around == (ClearRegistry \/ Tick) /\ UNCHANGED pool

CallerStep ==
  Submit \/ AwaitAll \/ Collect \/ CollectedAll \/ CollectRaises \/ LeavePool

ThreadStep(t) == Take(t) \/ ReadUncached(t) \/ ReadCached(t) \/ Finish(t)

ReadNext ==
  \/ ReadBatch
  \/ CallerStep
  \/ \E t \in Thread : ThreadStep(t) \/ RenderFails(t)
  \/ Around

\* The interpreter runs the caller and every thread of the pool that can run.
ReadFairness ==
  /\ WF_readVars(CallerStep)
  /\ \A t \in Thread : WF_readVars(ThreadStep(t))

ReadSpec == ReadInit /\ [][ReadNext]_readVars /\ ReadFairness

-----------------------------------------------------------------------------
Returned == caller = "leaving" \/ (caller = "idle" /\ awaited > Len(batch))

(* "Results are returned in the same order as the input queries regardless *)
(* of completion order" (read.py, read_queries): the i-th result is the    *)
(* i-th query's, read during the call when there is no cache.              *)
ResultsInOrder ==
  Returned => \A i \in DOMAIN batch :
    /\ Succeeded(i)
    /\ outcome[i].value.key = batch[i]
    /\ persist = None => outcome[i].value.at >= started

(* The exception the caller gets is that of the first failing query in the *)
(* order of the queries, whichever failed first.                           *)
FirstFailureRaised ==
  caller = "raising" =>
    /\ Failed(awaited)
    /\ \A i \in 1 .. awaited - 1 : Succeeded(i)

(* No thread works for a batch the caller has left: every query it         *)
(* submitted has run to its end, also when an earlier one failed.          *)
NothingRunsAfterReturn ==
  caller = "idle" =>
    /\ \A t \in Thread : pc[t] = "idle"
    /\ \A i \in DOMAIN batch : outcome[i].done

(* The three: a caller gets the answers of its whole batch, or its first   *)
(* failure, and nothing of it is left.                                     *)
BatchIsAnswered == PoolTypeOK /\ ResultsInOrder /\ FirstFailureRaised /\ NothingRunsAfterReturn

(* Every batch comes back to its caller with results or an exception,      *)
(* whatever the queries, the store and the other threads do.               *)
BatchEnds == caller = "submitting" ~> caller = "idle"

(* Every batch and every call of its threads comes to its end.             *)
AllEnd == BatchEnds /\ CallsEnd
=============================================================================
