---------------------------- MODULE SharedStore ----------------------------
(***************************************************************************)
(* Threads calling a function decorated with cache(shared=True), as the    *)
(* workers of read_queries do: each call resolves the process-global store *)
(* of the namespace (get_shared_store), looks its key up, and on a miss    *)
(* computes the value and puts it.  MemoryStore takes no lock, so a thread *)
(* may be preempted between any two of its accesses to the registry and to *)
(* the OrderedDict; each access is one step, as the interpreter lock makes *)
(* it.  The hit and miss counters are left out: nothing reads them here.   *)
(***************************************************************************)
EXTENDS Integers, FiniteSets, TLC, OrderedDict

CONSTANTS
  Thread,
  Key,
  TTL,        \* the lifetime of the namespace's stores, or None
  MaxSize,    \* the bound of the namespace's stores, or None
  MaxCalls,   \* bound: the calls the threads make in all
  MaxClears,  \* bound: how often the registry is cleared
  Horizon,    \* bound: the clock stops there
  None        \* Python's None

ASSUME SharedAssumption ==
  /\ IsFiniteSet(Thread)
  /\ None \notin Int
  /\ TTL \in Nat \cup {None}
  /\ MaxSize \in Nat \cup {None}
  /\ MaxCalls \in Nat
  /\ MaxClears \in Nat
  /\ Horizon \in Nat

VARIABLES
  registry,   \* SHARED_STORES: the namespace's store, an index of dicts, or 0
  dicts,      \* the OrderedDicts of the stores built so far
  now,        \* DateTime.now()
  clears,
  calls,
  pc,         \* where each thread is in its call
  frame       \* the local variables of each thread's call

vars == <<registry, dicts, now, clears, calls, pc, frame>>

\* Threads and keys are interchangeable; for the safety runs only.
Interchangeable == Permutations(Thread) \cup Permutations(Key)

\* What the function returned for a key, and when it computed it.
Value == [key : Key, at : Nat]

Entry == [key : Key, expires : Nat \cup {None}, value : Value]

\* Nothing is bound yet.
Unset == [key |-> None, at |-> 0]

NoEntry == [key |-> None, expires |-> None, value |-> Unset]

\* key: the call's key; since: when the call started; store: the store it
\* resolved; entry: the entry get read; value: what the call returns; hit:
\* whether it comes from the store.
Frame == [key : Key \cup {None}, since : Nat, store : Nat,
          entry : Entry \cup {NoEntry}, value : Value \cup {Unset}, hit : BOOLEAN]

IdleFrame == [key |-> None, since |-> 0, store |-> 0,
              entry |-> NoEntry, value |-> Unset, hit |-> FALSE]

\* returned, failed (the function raised) and raised (the store raised
\* KeyError) are the ways a call ends.
Ended == {"returned", "failed", "raised"}

Location == {"idle", "resolve", "create", "lookup", "check", "drop", "touch",
             "compute", "store", "trim", "pop"} \cup Ended

TypeOK ==
  /\ dicts \in Seq(Seq(Entry))
  /\ registry \in 0 .. Len(dicts)
  /\ now \in Nat
  /\ clears \in Nat
  /\ calls \in Nat
  /\ pc \in [Thread -> Location]
  /\ frame \in [Thread -> Frame]
  /\ \A t \in Thread :
       /\ frame[t].store \in 0 .. Len(dicts)
       /\ pc[t] \notin {"idle", "resolve", "create"} \cup Ended => frame[t].store # 0
       /\ pc[t] # "idle" => frame[t].key \in Key
       /\ pc[t] \in {"check", "drop", "touch"} => frame[t].entry \in Entry
       /\ pc[t] \in {"store", "trim", "pop", "returned"} => frame[t].value \in Value

-----------------------------------------------------------------------------
IsExpired(expires) == expires # None /\ expires <= now

Expiry == IF TTL = None THEN None ELSE now + TTL

\* The store of t's call.
Dict(t) == dicts[frame[t].store]

SetDict(t, d) == dicts' = [dicts EXCEPT ![frame[t].store] = d]

Goto(t, from, to) == pc[t] = from /\ pc' = [pc EXCEPT ![t] = to]

Init ==
  /\ registry = 0
  /\ dicts = <<>>
  /\ now = 0
  /\ clears = 0
  /\ calls = 0
  /\ pc = [t \in Thread |-> "idle"]
  /\ frame = [t \in Thread |-> IdleFrame]

\* A thread calls the function; the decorator is built or already there.
Call(t, k) ==
  /\ calls < MaxCalls
  /\ Goto(t, "idle", "resolve")
  /\ frame' = [frame EXCEPT ![t] = [IdleFrame EXCEPT !.key = k, !.since = now]]
  /\ calls' = calls + 1
  /\ UNCHANGED <<registry, dicts, now, clears>>

\* get_shared_store: SHARED_STORES.get(namespace)
Resolve(t) ==
  /\ Goto(t, "resolve", IF registry = 0 THEN "create" ELSE "lookup")
  /\ frame' = [frame EXCEPT ![t].store = registry]
  /\ UNCHANGED <<registry, dicts, now, clears, calls>>

\* get_shared_store: a new store, registered over whatever is there by now
Create(t) ==
  /\ Goto(t, "create", "lookup")
  /\ dicts' = Append(dicts, <<>>)
  /\ registry' = Len(dicts) + 1
  /\ frame' = [frame EXCEPT ![t].store = Len(dicts) + 1]
  /\ UNCHANGED <<now, clears, calls>>

\* MemoryStore.get: entry = self.store.get(key)
LookUp(t) ==
  LET k == frame[t].key IN
  /\ Goto(t, "lookup", IF k \in Keys(Dict(t)) THEN "check" ELSE "compute")
  /\ frame' = [frame EXCEPT ![t].entry = IF k \in Keys(Dict(t)) THEN Lookup(Dict(t), k) ELSE NoEntry]
  /\ UNCHANGED <<registry, dicts, now, clears, calls>>

\* Mutant of Check: an expired entry is served.
CheckNothing(t) ==
  /\ Goto(t, "check", "touch")
  /\ UNCHANGED <<registry, dicts, now, clears, calls, frame>>

\* MemoryStore.get: is_expired(expires_at)
Check(t) ==
  /\ Goto(t, "check", IF IsExpired(frame[t].entry.expires) THEN "drop" ELSE "touch")
  /\ UNCHANGED <<registry, dicts, now, clears, calls, frame>>

\* MemoryStore.get: del self.store[key], whatever the key holds by now
Drop(t) ==
  /\ Goto(t, "drop", "compute")
  /\ frame[t].key \in Keys(Dict(t))
  /\ SetDict(t, DelItem(Dict(t), frame[t].key))
  /\ UNCHANGED <<registry, now, clears, calls, frame>>

\* MemoryStore.get: self.store.move_to_end(key), and the value read before
Touch(t) ==
  /\ Goto(t, "touch", "returned")
  /\ frame[t].key \in Keys(Dict(t))
  /\ SetDict(t, MoveToEnd(Dict(t), frame[t].key))
  /\ frame' = [frame EXCEPT ![t].value = frame[t].entry.value, ![t].hit = TRUE]
  /\ UNCHANGED <<registry, now, clears, calls>>

\* del and move_to_end raise KeyError when another thread took the key out.
GetRaises(t) ==
  /\ \/ Goto(t, "drop", "raised")
     \/ Goto(t, "touch", "raised")
  /\ frame[t].key \notin Keys(Dict(t))
  /\ UNCHANGED <<registry, dicts, now, clears, calls, frame>>

\* cache.__call__: result = self.func(...)
Compute(t) ==
  /\ Goto(t, "compute", "store")
  /\ frame' = [frame EXCEPT ![t].value = [key |-> frame[t].key, at |-> now]]
  /\ UNCHANGED <<registry, dicts, now, clears, calls>>

\* Mutant of ComputeFails: the call begins again.
ComputeFailsAgain(t) ==
  /\ Goto(t, "compute", "resolve")
  /\ UNCHANGED <<registry, dicts, now, clears, calls, frame>>

ComputeFails(t) ==
  /\ Goto(t, "compute", "failed")
  /\ UNCHANGED <<registry, dicts, now, clears, calls, frame>>

\* Mutant of Store: an entry that is overwritten keeps its deadline.
StoreKeepingDeadline(t) ==
  LET k == frame[t].key
      deadline == IF k \in Keys(Dict(t)) THEN Lookup(Dict(t), k).expires ELSE Expiry
  IN
  /\ Goto(t, "store", "trim")
  /\ SetDict(t, Assign(Dict(t), [key |-> k, expires |-> deadline, value |-> frame[t].value]))
  /\ UNCHANGED <<registry, now, clears, calls, frame>>

\* MemoryStore.put: self.store[key] = (expiry(self.ttl), value)
Store(t) ==
  /\ Goto(t, "store", "trim")
  /\ SetDict(t, Assign(Dict(t), [key |-> frame[t].key, expires |-> Expiry, value |-> frame[t].value]))
  /\ UNCHANGED <<registry, now, clears, calls, frame>>

\* Mutant of Trim: len(self.store) > self.maxsize + 1
TrimLoosely(t) ==
  /\ Goto(t, "trim", IF MaxSize # None /\ Len(Dict(t)) > MaxSize + 1 THEN "pop" ELSE "returned")
  /\ UNCHANGED <<registry, dicts, now, clears, calls, frame>>

\* MemoryStore.put: while len(self.store) > self.maxsize
Trim(t) ==
  /\ Goto(t, "trim", IF MaxSize # None /\ Len(Dict(t)) > MaxSize THEN "pop" ELSE "returned")
  /\ UNCHANGED <<registry, dicts, now, clears, calls, frame>>

\* MemoryStore.put: self.store.popitem(last=False)
Pop(t) ==
  /\ Goto(t, "pop", "trim")
  /\ Dict(t) # <<>>
  /\ SetDict(t, Tail(Dict(t)))
  /\ UNCHANGED <<registry, now, clears, calls, frame>>

\* popitem raises KeyError when other threads emptied the store.
PopRaises(t) ==
  /\ Goto(t, "pop", "raised")
  /\ Dict(t) = <<>>
  /\ UNCHANGED <<registry, dicts, now, clears, calls, frame>>

\* The caller has the result or the exception.
Leave(t) ==
  /\ pc[t] \in Ended
  /\ pc' = [pc EXCEPT ![t] = "idle"]
  /\ frame' = [frame EXCEPT ![t] = IdleFrame]
  /\ UNCHANGED <<registry, dicts, now, clears, calls>>

\* clear_shared_stores: running calls keep the store they resolved.
ClearRegistry ==
  /\ clears < MaxClears
  /\ clears' = clears + 1
  /\ registry' = 0
  /\ UNCHANGED <<dicts, now, calls, pc, frame>>

Tick ==
  /\ now < Horizon
  /\ now' = now + 1
  /\ UNCHANGED <<registry, dicts, clears, calls, pc, frame>>

\* The steps of a call between its start and its end.
Step(t) ==
  \/ Resolve(t) \/ Create(t)
  \/ LookUp(t) \/ Check(t) \/ Drop(t) \/ Touch(t) \/ GetRaises(t)
  \/ Compute(t) \/ ComputeFails(t)
  \/ Store(t) \/ Trim(t) \/ Pop(t) \/ PopRaises(t)

Next ==
  \/ \E t \in Thread : Step(t) \/ Leave(t) \/ \E k \in Key : Call(t, k)
  \/ ClearRegistry
  \/ Tick

\* The interpreter runs every thread that can run, and the decorated function
\* returns or raises.
Fairness == \A t \in Thread : WF_vars(Step(t))

Spec == Init /\ [][Next]_vars /\ Fairness

-----------------------------------------------------------------------------
Trimming(s) == {t \in Thread : pc[t] \in {"trim", "pop"} /\ frame[t].store = s}

(* The bound of a shared store survives any interleaving of puts: a store  *)
(* is over its bound by no more than the puts still in their trim loop, so *)
(* it is within it whenever no put is under way.                           *)
OverfullOnlyByPendingPuts ==
  MaxSize # None =>
    \A s \in DOMAIN dicts : Len(dicts[s]) <= MaxSize + Cardinality(Trimming(s))

(* Interleaved assignments, removals and moves keep one entry for a key.   *)
StoresAreDictionaries == \A s \in DOMAIN dicts : Unique(dicts[s])

(* The three: no interleaving of the steps of calls breaks the structure   *)
(* of a shared store.                                                      *)
StoresStaySound == TypeOK /\ StoresAreDictionaries /\ OverfullOnlyByPendingPuts

(* "the cached value, or MISSING if the key is absent or expired"          *)
(* (memory.py, MemoryStore.get): whatever other threads do meanwhile, a    *)
(* call returns a value computed for its own key, either during the call   *)
(* or kept by an entry that was live when the call started.                *)
ServedFresh ==
  \A t \in Thread : pc[t] = "returned" =>
    /\ frame[t].value.key = frame[t].key
    /\ IF frame[t].hit
       THEN frame[t].entry.expires = None \/ frame[t].entry.expires > frame[t].since
       ELSE frame[t].value.at >= frame[t].since

(* The only entries a call can find are those put by calls that resolved    *)
(* the same store, under the key they computed: an entry's value is its     *)
(* key's, and was computed no later than its lifetime began.                *)
EntriesAreGenuine ==
  \A s \in DOMAIN dicts : \A i \in DOMAIN dicts[s] :
    /\ dicts[s][i].value.key = dicts[s][i].key
    /\ dicts[s][i].value.at <= now
    /\ TTL # None => dicts[s][i].value.at + TTL <= dicts[s][i].expires

(* Every call ends, whatever the other threads do: as long as the calls are *)
(* finitely many, as those of a batch are, the trim loop of a put is not    *)
(* kept going by the puts of others.                                        *)
CallsEnd == \A t \in Thread : pc[t] = "resolve" ~> pc[t] \in Ended

(* "Look up key, returning MISSING on a miss" (memory.py, MemoryStore.get): *)
(* a lookup or a put does not raise.                                        *)
StoreNeverRaises == \A t \in Thread : pc[t] # "raised"
=============================================================================
