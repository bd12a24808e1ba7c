---------------------------- MODULE PickleCache ----------------------------
(***************************************************************************)
(* A function decorated with cache(path="store.pkl"): the entries are kept *)
(* in memory, loaded from the pickle file when a process builds the        *)
(* decorator and saved to it after every computed call.  Processes may     *)
(* share the file, and a process may stop at any point: MemoryStore.save   *)
(* truncates the file and then writes it, in steps a crash, a failing dump *)
(* or another process comes between.                                       *)
(***************************************************************************)
EXTENDS Integers, OrderedDict

CONSTANTS
  Process,
  Key,
  TTL,          \* the lifetime of the entries, or None
  MaxSize,      \* the bound of the store, or None
  MaxComputes,  \* bound: how often the function is called in all
  MaxCrashes,   \* bound: how often a process stops
  Horizon,      \* bound: the clock stops there
  None,         \* Python's None
  Torn          \* a file that does not unpickle

ASSUME PickleAssumption ==
  /\ None \notin Int
  /\ Torn # <<>>
  /\ TTL \in Nat \cup {None}
  /\ MaxSize \in Nat \cup {None}
  /\ MaxComputes \in Nat
  /\ MaxCrashes \in Nat
  /\ Horizon \in Nat

VARIABLES
  stores,       \* the OrderedDict of each process
  file,         \* what unpickling the file gives; <<>> also when there is none
  pc,           \* where each process is
  job,          \* the local variables of each process's call
  answer,       \* the entry each process's last call was served from, or None
  now,
  computes,
  crashes,
  interrupted,  \* history: the last save of the file did not come through
  saver,        \* history: the process whose save that was, or None
  forgotten     \* history: the values deleted or cleared by a caller, who has
                \* not asked for the file again

vars == <<stores, file, pc, job, answer, now, computes, crashes, interrupted, saver, forgotten>>

\* What the function returned for a key: when, and in which of its calls.
Value == [key : Key, at : Nat, id : Nat]

Entry == [key : Key, expires : Nat \cup {None}, value : Value]

\* overlapped: another process had the file open during this save.
NoJob == [key |-> None, overlapped |-> FALSE]

TypeOK ==
  /\ stores \in [Process -> Seq(Entry)]
  /\ file = Torn \/ file \in Seq(Entry)
  /\ pc \in [Process -> {"down", "idle", "compute", "open", "dump"}]
  /\ job \in [Process -> [key : Key \cup {None}, overlapped : BOOLEAN]]
  /\ answer \in [Process -> Entry \cup {None}]
  /\ now \in 0 .. Horizon
  /\ computes \in 0 .. MaxComputes
  /\ crashes \in 0 .. MaxCrashes
  /\ interrupted \in BOOLEAN
  /\ saver \in Process \cup {None}
  /\ forgotten \subseteq Value
  /\ \A p \in Process : pc[p] \in {"compute", "open", "dump"} => job[p].key \in Key

-----------------------------------------------------------------------------
IsExpired(expires) == expires # None /\ expires <= now

Expiry == IF TTL = None THEN None ELSE now + TTL

Trimmed(d) == IF MaxSize = None THEN d ELSE KeepNewest(d, MaxSize)

Goto(p, from, to) == pc[p] = from /\ pc' = [pc EXCEPT ![p] = to]

SetStore(p, d) == stores' = [stores EXCEPT ![p] = d]

Answer(p, a) == answer' = [answer EXCEPT ![p] = a]

Values(d) == {d[i].value : i \in DOMAIN d}

Init ==
  /\ stores = [p \in Process |-> <<>>]
  /\ file = <<>>
  /\ pc = [p \in Process |-> "down"]
  /\ job = [p \in Process |-> NoJob]
  /\ answer = [p \in Process |-> None]
  /\ now = 0
  /\ computes = 0
  /\ crashes = 0
  /\ interrupted = FALSE
  /\ saver = None
  /\ forgotten = {}

\* cache.__init__: MemoryStore.load; a file that does not unpickle raises, and
\* the process has no cache.
Start(p) ==
  /\ Goto(p, "down", "idle")
  /\ file # Torn
  /\ SetStore(p, file)
  /\ UNCHANGED <<file, job, answer, now, computes, crashes, interrupted, saver, forgotten>>

\* cache.__call__: a live entry is returned
CallHit(p, k) ==
  /\ pc[p] = "idle"
  /\ k \in Keys(stores[p])
  /\ ~IsExpired(Lookup(stores[p], k).expires)
  /\ SetStore(p, MoveToEnd(stores[p], k))
  /\ Answer(p, Lookup(stores[p], k))
  /\ UNCHANGED <<file, pc, job, now, computes, crashes, interrupted, saver, forgotten>>

\* cache.__call__: no entry, or an expired one that get drops
CallMiss(p, k) ==
  /\ Goto(p, "idle", "compute")
  /\ k \in Keys(stores[p]) => IsExpired(Lookup(stores[p], k).expires)
  /\ SetStore(p, IF k \in Keys(stores[p]) THEN DelItem(stores[p], k) ELSE stores[p])
  /\ job' = [job EXCEPT ![p] = [NoJob EXCEPT !.key = k]]
  /\ Answer(p, None)
  /\ UNCHANGED <<file, now, computes, crashes, interrupted, saver, forgotten>>

\* refresh: the entry is computed again, whatever is there
Refresh(p, k) ==
  /\ Goto(p, "idle", "compute")
  /\ job' = [job EXCEPT ![p] = [NoJob EXCEPT !.key = k]]
  /\ Answer(p, None)
  /\ UNCHANGED <<stores, file, now, computes, crashes, interrupted, saver, forgotten>>

\* Mutant of Compute: an entry that is computed again is not saved.
ComputeSavingNew(p) ==
  /\ computes < MaxComputes
  /\ Goto(p, "compute", IF job[p].key \in Keys(stores[p]) THEN "idle" ELSE "open")
  /\ computes' = computes + 1
  /\ LET value == [key |-> job[p].key, at |-> now, id |-> computes + 1] IN
     SetStore(p, Trimmed(Assign(stores[p],
       [key |-> job[p].key, expires |-> Expiry, value |-> value])))
  /\ UNCHANGED <<file, job, answer, now, crashes, interrupted, saver, forgotten>>

\* The function returns and put stores the result; then save begins.
Compute(p) ==
  /\ computes < MaxComputes
  /\ Goto(p, "compute", "open")
  /\ computes' = computes + 1
  /\ LET value == [key |-> job[p].key, at |-> now, id |-> computes + 1] IN
     SetStore(p, Trimmed(Assign(stores[p],
       [key |-> job[p].key, expires |-> Expiry, value |-> value])))
  /\ UNCHANGED <<file, job, answer, now, crashes, interrupted, saver, forgotten>>

ComputeFails(p) ==
  /\ Goto(p, "compute", "idle")
  /\ job' = [job EXCEPT ![p] = NoJob]
  /\ UNCHANGED <<stores, file, answer, now, computes, crashes, interrupted, saver, forgotten>>

\* MemoryStore.save: resolved.open(mode="wb") truncates the file
Open(p) ==
  /\ Goto(p, "open", "dump")
  /\ file' = Torn
  /\ saver' = p
  /\ LET others == {q \in Process \ {p} : pc[q] = "dump"} IN
     job' = [q \in Process |->
               IF others # {} /\ q \in others \cup {p}
               THEN [job[q] EXCEPT !.overlapped = TRUE] ELSE job[q]]
  /\ UNCHANGED <<stores, answer, now, computes, crashes, interrupted, forgotten>>

\* Mutant of Dump: the file is not closed, and nothing is flushed.
DumpUnclosed(p) ==
  /\ Goto(p, "dump", "idle")
  /\ job' = [job EXCEPT ![p] = NoJob]
  /\ UNCHANGED <<stores, file, answer, now, computes, crashes, interrupted, saver, forgotten>>

\* MemoryStore.save: pickle.dump and close.  The writes of processes that have
\* the file open together may mix.
Dump(p) ==
  /\ Goto(p, "dump", "idle")
  /\ file' \in {stores[p]} \cup IF job[p].overlapped THEN {Torn} ELSE {}
  /\ interrupted' = (file' = Torn)
  /\ saver' = p
  /\ job' = [job EXCEPT ![p] = NoJob]
  /\ UNCHANGED <<stores, answer, now, computes, crashes, forgotten>>

\* MemoryStore.save: pickle.dump raises at a value it cannot pickle
DumpFails(p) ==
  /\ Goto(p, "dump", "idle")
  /\ file' = Torn
  /\ interrupted' = TRUE
  /\ saver' = p
  /\ job' = [job EXCEPT ![p] = NoJob]
  /\ UNCHANGED <<stores, answer, now, computes, crashes, forgotten>>

\* delete_cache: the entry goes from memory, the file is left
Delete(p, k) ==
  /\ pc[p] = "idle"
  /\ k \in Keys(stores[p])
  /\ SetStore(p, DelItem(stores[p], k))
  /\ forgotten' = forgotten \cup {Lookup(stores[p], k).value}
  /\ UNCHANGED <<file, pc, job, answer, now, computes, crashes, interrupted, saver>>

\* cache_clear: memory is emptied, the file is left
Clear(p) ==
  /\ pc[p] = "idle"
  /\ SetStore(p, <<>>)
  /\ forgotten' = forgotten \cup Values(stores[p])
  /\ UNCHANGED <<file, pc, job, answer, now, computes, crashes, interrupted, saver>>

\* load_store: the file's entries are merged in, without a trim
LoadStore(p) ==
  /\ pc[p] = "idle"
  /\ file # Torn
  /\ SetStore(p, Update(stores[p], file))
  /\ forgotten' = forgotten \ Values(file)
  /\ UNCHANGED <<file, pc, job, answer, now, computes, crashes, interrupted, saver>>

\* The process ends or is killed; what it has in memory is gone.
Crash(p) ==
  /\ crashes < MaxCrashes
  /\ pc[p] # "down"
  /\ pc' = [pc EXCEPT ![p] = "down"]
  /\ SetStore(p, <<>>)
  /\ job' = [job EXCEPT ![p] = NoJob]
  /\ Answer(p, None)
  /\ crashes' = crashes + 1
  /\ interrupted' = (interrupted \/ pc[p] = "dump")
  /\ UNCHANGED <<file, now, computes, saver, forgotten>>

Tick ==
  /\ now < Horizon
  /\ now' = now + 1
  /\ answer' = [p \in Process |-> None]
  /\ UNCHANGED <<stores, file, pc, job, computes, crashes, interrupted, saver, forgotten>>

Next ==
  \/ \E p \in Process :
       \/ Start(p) \/ Compute(p) \/ ComputeFails(p)
       \/ Open(p) \/ Dump(p) \/ DumpFails(p)
       \/ Clear(p) \/ LoadStore(p) \/ Crash(p)
       \/ \E k \in Key : CallHit(p, k) \/ CallMiss(p, k) \/ Refresh(p, k) \/ Delete(p, k)
  \/ Tick

Spec == Init /\ [][Next]_vars

-----------------------------------------------------------------------------
(* What a computed call returned survives the process: between two calls,  *)
(* every entry of the process that saved the file last is in the file, so  *)
(* that a restart finds it, unless that save was interrupted.              *)
MemoryIsSaved ==
  \A p \in Process : pc[p] = "idle" /\ saver = p /\ ~interrupted =>
    /\ file # Torn
    /\ \A k \in Keys(stores[p]) : k \in Keys(file) /\ Lookup(file, k) = Lookup(stores[p], k)

(* A process finds no file it cannot load unless a save is under way, or   *)
(* was interrupted by a crash, by a value that does not pickle or by the   *)
(* save of another process.                                                *)
TornOnlyByInterruptedSave ==
  file = Torn => interrupted \/ \E p \in Process : pc[p] = "dump"

(* Restarts, merges and the saves of other processes never make a call     *)
(* return what was computed for another key, or longer ago than the        *)
(* lifetime of the entries.                                                *)
ServedGenuine ==
  \A p \in Process : answer[p] # None =>
    /\ answer[p].value.key = answer[p].key
    /\ TTL # None => answer[p].value.at + TTL > now

(* The two: what is computed is kept, and what is kept is given.           *)
ResultsAreKept == TypeOK /\ MemoryIsSaved /\ ServedGenuine

(* "Remove the cache entry for a specific call signature" (decorators.py,  *)
(* delete_cache), "Remove all cached entries" (cache_clear): what a caller *)
(* removed is not served again, in the next process neither, unless the    *)
(* caller loads the file.                                                  *)
ForgottenStaysForgotten ==
  [][\A p \in Process :
       answer'[p] \notin {None, answer[p]} => answer'[p].value \notin forgotten]_vars
=============================================================================
