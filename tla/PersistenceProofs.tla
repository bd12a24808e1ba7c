------------------------- MODULE PersistenceProofs -------------------------
(***************************************************************************)
(* Proofs about what outlives a call or a process, for any number of       *)
(* processes, keys, calls, crashes and restarts: the pickle file of a      *)
(* decorated function (PickleCache), the folder of a file store            *)
(* (FileStore), the caches of read_query (ReadQuery), the folder of a      *)
(* cached function with its sweeps (CacheFolder), a live query that        *)
(* appends what it has not read (StreamingQuery), and one over a window of *)
(* time (WindowedQuery).                                                   *)
(***************************************************************************)
EXTENDS MCPersistence, OrderedDictLemmas, FiniteSetTheorems

-----------------------------------------------------------------------------
(* The pickle file of a decorated function.                                *)

Locations == {"down", "idle", "compute", "open", "dump"}

\* Inductive: a step moves one process only, so the others that have the file
\* open still have it.
TornInv ==
  /\ pc \in [Process -> Locations]
  /\ TornOnlyByInterruptedSave

LEMMA TornInit == Init => TornInv
BY PickleAssumption DEF Init, TornInv, TornOnlyByInterruptedSave, Locations

(* A process that moves, and was not writing the file, does not matter to  *)
(* who else is writing it.                                                 *)
LEMMA StepOfAnother ==
  ASSUME TornInv, NEW p \in Process, NEW left, NEW to \in Locations,
         left # "dump", Goto(p, left, to),
         UNCHANGED <<file, interrupted>>
  PROVE  TornInv'
<1>1. /\ pc[p] = left
      /\ pc' = [pc EXCEPT ![p] = to]
      /\ pc' \in [Process -> Locations]
  BY DEF Goto, TornInv
<1>2. \A q \in Process : pc[q] = "dump" => pc'[q] = "dump"
  BY <1>1 DEF TornInv
<1> QED
  BY <1>1, <1>2 DEF TornInv, TornOnlyByInterruptedSave

(* A step in which no process moves and the file stays. *)
LEMMA StepInPlace ==
  ASSUME TornInv, UNCHANGED <<pc, file, interrupted>>
  PROVE  TornInv'
BY DEF TornInv, TornOnlyByInterruptedSave

LEMMA TornNext == TornInv /\ [Next]_vars => TornInv'
<1> SUFFICES ASSUME TornInv, [Next]_vars PROVE TornInv'
  OBVIOUS
<1>1. ASSUME NEW p \in Process, Start(p) PROVE TornInv'
  BY <1>1, StepOfAnother DEF Start, Locations
<1>2. ASSUME NEW p \in Process, Compute(p) PROVE TornInv'
  BY <1>2, StepOfAnother DEF Compute, Locations
<1>3. ASSUME NEW p \in Process, ComputeFails(p) PROVE TornInv'
  BY <1>3, StepOfAnother DEF ComputeFails, Locations
<1>4. ASSUME NEW p \in Process, Open(p) PROVE TornInv'
  <2>1. /\ pc' \in [Process -> Locations]
        /\ pc'[p] = "dump"
    BY <1>4 DEF Open, Goto, TornInv, Locations
  <2> QED
    BY <2>1 DEF TornInv, TornOnlyByInterruptedSave
<1>5. ASSUME NEW p \in Process, Dump(p) PROVE TornInv'
  <2>1. pc' \in [Process -> Locations]
    BY <1>5 DEF Dump, Goto, TornInv, Locations
  <2>2. interrupted' = (file' = Torn)
    BY <1>5 DEF Dump
  <2>3. file' = Torn => interrupted'
    BY <2>2, Zenon
  <2> QED
    BY <2>1, <2>3 DEF TornInv, TornOnlyByInterruptedSave
<1>6. ASSUME NEW p \in Process, DumpFails(p) PROVE TornInv'
  <2>1. pc' \in [Process -> Locations]
    BY <1>6 DEF DumpFails, Goto, TornInv, Locations
  <2> QED
    BY <1>6, <2>1 DEF DumpFails, TornInv, TornOnlyByInterruptedSave
<1>7. ASSUME NEW p \in Process, Clear(p) \/ LoadStore(p) PROVE TornInv'
  BY <1>7, StepInPlace DEF Clear, LoadStore
<1>8. ASSUME NEW p \in Process, Crash(p) PROVE TornInv'
  <2>1. /\ pc' = [pc EXCEPT ![p] = "down"]
        /\ pc' \in [Process -> Locations]
        /\ file' = file
        /\ pc[p] = "dump" => interrupted'
        /\ interrupted => interrupted'
    BY <1>8 DEF Crash, TornInv, Locations
  <2>2. \A q \in Process : pc[q] = "dump" => q = p \/ pc'[q] = "dump"
    BY <2>1 DEF TornInv
  <2> QED
    BY <2>1, <2>2 DEF TornInv, TornOnlyByInterruptedSave
<1>9. ASSUME NEW p \in Process, NEW k \in Key, CallHit(p, k) \/ Delete(p, k) PROVE TornInv'
  BY <1>9, StepInPlace DEF CallHit, Delete
<1>10. ASSUME NEW p \in Process, NEW k \in Key, CallMiss(p, k) \/ Refresh(p, k) PROVE TornInv'
  BY <1>10, StepOfAnother DEF CallMiss, Refresh, Locations
<1>11. ASSUME Tick \/ UNCHANGED vars PROVE TornInv'
  BY <1>11, StepInPlace DEF Tick, vars
<1> QED
  BY <1>1, <1>2, <1>3, <1>4, <1>5, <1>6, <1>7, <1>8, <1>9, <1>10, <1>11 DEF Next

(* MemoryStore.save truncates the file and then writes it: for any number  *)
(* of processes, crashes and failing saves, a file that cannot be loaded   *)
(* is one that is being written, or the last write of which was            *)
(* interrupted by a crash, a failing dump or another writer.               *)
THEOREM TornFilesAreInterruptedSaves == Spec => []TornOnlyByInterruptedSave
<1>1. Init => TornInv
  BY TornInit
<1>2. TornInv /\ [Next]_vars => TornInv'
  BY TornNext
<1>3. TornInv => TornOnlyByInterruptedSave
  BY DEF TornInv
<1> QED
  BY <1>1, <1>2, <1>3, PTL DEF Spec

-----------------------------------------------------------------------------
\* An entry that put made: of the key that was asked for, and with the
\* lifetime of the store from when the function returned.
Made ==
  {e \in Entry :
     /\ e.value.key = e.key
     /\ TTL # None => e.expires # None /\ e.expires <= e.value.at + TTL}

Dictionary == {d \in Seq(Made) : Unique(d)}

\* f has every item of d.
Within(d, f) == \A k \in Keys(d) : k \in Keys(f) /\ Lookup(f, k) = Lookup(d, k)

\* MemoryIsSaved, also while a call computes: it may fail, and leave the store
\* as it is.
SavedInv ==
  \A p \in Process : pc[p] \in {"idle", "compute"} /\ saver = p /\ ~interrupted =>
    file # Torn /\ Within(stores[p], file)

\* Inductive: stores and file hold nothing but what put made, which is what a
\* merge, a restart and a hit take from them.
KeptInv ==
  /\ TypeOK
  /\ stores \in [Process -> Dictionary]
  /\ file = Torn \/ file \in Dictionary
  /\ SavedInv
  /\ ServedGenuine

-----------------------------------------------------------------------------
(* The items of a dictionary that put made are made so. *)
LEMMA ItemsAreMade ==
  ASSUME NEW d \in Dictionary
  PROVE  /\ d \in Seq(Entry)
         /\ \A k \in Keys(d) : Lookup(d, k) \in Made /\ Lookup(d, k).key = k
<1>1. d \in Seq(Made) /\ Made \subseteq Entry
  BY DEF Dictionary, Made
<1>2. \A i \in DOMAIN d : d[i] \in Made
  BY <1>1, ElementOfSeq, LenProperties
<1>3. d \in Seq(Entry)
  BY <1>1
<1> QED
  BY <1>2, <1>3, PositionOfKey

LEMMA EmptyDictionary ==
  /\ <<>> \in Dictionary
  /\ \A f : Within(<<>>, f)
BY DEF Dictionary, Unique, Within, Keys

(* What a lookup does to a store leaves it within what it was within. *)
LEMMA LookupsDictionary ==
  ASSUME NEW d \in Dictionary, NEW k \in Keys(d), NEW f
  PROVE  /\ DelItem(d, k) \in Dictionary
         /\ MoveToEnd(d, k) \in Dictionary
         /\ Within(d, f) => Within(DelItem(d, k), f) /\ Within(MoveToEnd(d, k), f)
<1>1. d \in Seq(Made) /\ Unique(d)
  BY DEF Dictionary
<1>2. /\ DelItem(d, k) \in Seq(Made)
      /\ Unique(DelItem(d, k))
      /\ Keys(DelItem(d, k)) = Keys(d) \ {k}
      /\ \A j \in Keys(d) \ {k} : Lookup(DelItem(d, k), j) = Lookup(d, j)
  BY <1>1, DelItemProperties
<1>3. /\ MoveToEnd(d, k) \in Seq(Made)
      /\ Unique(MoveToEnd(d, k))
      /\ Keys(MoveToEnd(d, k)) = Keys(d)
      /\ \A j \in Keys(d) : Lookup(MoveToEnd(d, k), j) = Lookup(d, j)
  BY <1>1, MoveToEndProperties
<1>4. ASSUME Within(d, f)
      PROVE  Within(DelItem(d, k), f) /\ Within(MoveToEnd(d, k), f)
  BY <1>2, <1>3, <1>4 DEF Within
<1> QED
  BY <1>2, <1>3, <1>4 DEF Dictionary

(* What put makes of a store. *)
LEMMA PutDictionary ==
  ASSUME NEW d \in Dictionary, NEW x \in Made
  PROVE  Trimmed(Assign(d, x)) \in Dictionary
<1>1. d \in Seq(Made) /\ Unique(d)
  BY DEF Dictionary
<1>2. Assign(d, x) \in Seq(Made) /\ Unique(Assign(d, x))
  BY <1>1, AssignProperties
<1>3. CASE MaxSize = None
  BY <1>2, <1>3 DEF Trimmed, Dictionary
<1>4. CASE MaxSize # None
  <2>1. MaxSize \in Nat
    BY <1>4, PickleAssumption
  <2>2. /\ KeepNewest(Assign(d, x), MaxSize) \in Seq(Made)
        /\ Unique(KeepNewest(Assign(d, x), MaxSize))
    BY <1>2, <2>1, KeepNewestProperties
  <2> QED
    BY <1>4, <2>2 DEF Trimmed, Dictionary
<1> QED
  BY <1>3, <1>4

(* What load_store makes of one. *)
LEMMA UpdateDictionary ==
  ASSUME NEW d \in Dictionary, NEW f \in Dictionary
  PROVE  /\ Update(d, f) \in Dictionary
         /\ Within(d, f) => Within(Update(d, f), f)
<1>1. d \in Seq(Made) /\ Unique(d) /\ f \in Seq(Made) /\ Unique(f)
  BY DEF Dictionary
<1>2. /\ Update(d, f) \in Seq(Made)
      /\ Unique(Update(d, f))
      /\ Keys(Update(d, f)) = Keys(d) \cup Keys(f)
      /\ \A k \in Keys(f) : Lookup(Update(d, f), k) = Lookup(f, k)
      /\ \A k \in Keys(d) \ Keys(f) : Lookup(Update(d, f), k) = Lookup(d, k)
  BY <1>1, UpdateProperties
<1>3. Within(d, f) => Within(Update(d, f), f)
  BY <1>2 DEF Within
<1> QED
  BY <1>2, <1>3 DEF Dictionary

LEMMA WithinItself == \A d : Within(d, d)
BY DEF Within

-----------------------------------------------------------------------------
LEMMA KeptInit == Init => KeptInv
<1> SUFFICES ASSUME Init PROVE KeptInv
  OBVIOUS
<1>1. TypeOK
  <2>1. <<>> \in Seq(Entry)
    OBVIOUS
  <2>2. NoJob \in [key : Key \cup {None}, overlapped : BOOLEAN]
    BY DEF NoJob
  <2>3. 0 \in 0 .. Horizon /\ 0 \in 0 .. MaxComputes /\ 0 \in 0 .. MaxCrashes
    BY PickleAssumption
  <2> HIDE DEF NoJob
  <2> QED
    BY <2>1, <2>2, <2>3 DEF Init, TypeOK
<1>2. stores \in [Process -> Dictionary] /\ (file = Torn \/ file \in Dictionary)
  BY EmptyDictionary DEF Init
<1>3. SavedInv
  BY DEF Init, SavedInv
<1>4. ServedGenuine
  BY DEF Init, ServedGenuine
<1> QED
  BY <1>1, <1>2, <1>3, <1>4 DEF KeptInv

(* A step of one process that leaves the file, and what is known of it, as *)
(* they are.                                                               *)
LEMMA OwnStep ==
  ASSUME KeptInv, TypeOK', NEW p \in Process, NEW d \in Dictionary, NEW l, NEW a,
         SetStore(p, d), pc' = [pc EXCEPT ![p] = l], answer' = [answer EXCEPT ![p] = a],
         UNCHANGED <<file, now, saver>>, interrupted => interrupted',
         l \in {"idle", "compute"} /\ saver = p /\ ~interrupted =>
           file # Torn /\ Within(d, file),
         a # None => \/ a = answer[p]
                     \/ a \in Made /\ ~IsExpired(a.expires)
  PROVE  KeptInv'
<1>1. /\ stores' = [stores EXCEPT ![p] = d]
      /\ stores \in [Process -> Dictionary]
      /\ pc \in [Process -> {"down", "idle", "compute", "open", "dump"}]
      /\ answer \in [Process -> Entry \cup {None}]
      /\ now \in Nat
  BY DEF SetStore, KeptInv, TypeOK
<1>2. stores' \in [Process -> Dictionary] /\ (file' = Torn \/ file' \in Dictionary)
  BY <1>1 DEF KeptInv
<1>3. SavedInv'
  <2> SUFFICES ASSUME NEW q \in Process, pc'[q] \in {"idle", "compute"}, saver' = q, ~interrupted'
               PROVE  file' # Torn /\ Within(stores'[q], file')
    BY DEF SavedInv
  <2>1. CASE q = p
    BY <1>1, <2>1
  <2>2. CASE q # p
    <3>1. pc[q] \in {"idle", "compute"} /\ stores'[q] = stores[q]
      BY <1>1, <2>2
    <3> QED
      BY <3>1 DEF KeptInv, SavedInv
  <2> QED
    BY <2>1, <2>2
<1>4. ServedGenuine'
  <2> SUFFICES ASSUME NEW q \in Process, answer'[q] # None
               PROVE  /\ answer'[q].value.key = answer'[q].key
                      /\ TTL # None => answer'[q].value.at + TTL > now
    BY DEF ServedGenuine
  <2>1. ASSUME NEW b, b \in Made, ~IsExpired(b.expires)
        PROVE  b.value.key = b.key /\ (TTL # None => b.value.at + TTL > now)
    <3>1. b.value.key = b.key /\ b \in Entry
      BY <2>1 DEF Made
    <3>2. ASSUME TTL # None PROVE b.value.at + TTL > now
      <4>1. /\ b.expires # None
            /\ b.expires <= b.value.at + TTL
            /\ ~(b.expires <= now)
        BY <2>1, <3>2 DEF Made, IsExpired
      <4>2. b.expires \in Nat /\ b.value.at \in Nat /\ TTL \in Nat
        BY <3>1, <3>2, <4>1, PickleAssumption DEF Entry, Value
      <4> QED
        BY <1>1, <4>1, <4>2
    <3> QED
      BY <3>1, <3>2
  <2>2. CASE answer'[q] = answer[q]
    BY <2>2 DEF KeptInv, ServedGenuine
  <2>3. CASE answer'[q] # answer[q]
    <3>1. q = p /\ answer'[q] = a
      BY <1>1, <2>3
    <3> QED
      BY <2>1, <2>3, <3>1
  <2> QED
    BY <2>2, <2>3
<1> QED
  BY <1>2, <1>3, <1>4 DEF KeptInv
(* The types, when one process moves with its store. *)
LEMMA OwnTypes ==
  ASSUME TypeOK, NEW p \in Process, NEW d \in Dictionary, SetStore(p, d), 
         NEW l \in {"down", "idle", "compute", "open", "dump"}, pc' = [pc EXCEPT ![p] = l],
         NEW j \in [key : Key \cup {None}, overlapped : BOOLEAN], job' = [job EXCEPT ![p] = j],
         l \in {"compute", "open", "dump"} => j.key \in Key,
         NEW a \in Entry \cup {None}, answer' = [answer EXCEPT ![p] = a],
         UNCHANGED <<file, now, saver>>,
         computes' \in 0 .. MaxComputes, crashes' \in 0 .. MaxCrashes,
         interrupted' \in BOOLEAN, forgotten' \subseteq Value
  PROVE  TypeOK'
<1>1. d \in Seq(Entry)
  BY ItemsAreMade
<1>2. /\ stores' \in [Process -> Seq(Entry)]
      /\ file' = Torn \/ file' \in Seq(Entry)
  BY <1>1 DEF SetStore, TypeOK
<1>3. /\ pc' \in [Process -> {"down", "idle", "compute", "open", "dump"}]
      /\ job' \in [Process -> [key : Key \cup {None}, overlapped : BOOLEAN]]
      /\ answer' \in [Process -> Entry \cup {None}]
  BY DEF TypeOK
<1>4. /\ now' \in 0 .. Horizon
      /\ saver' \in Process \cup {None}
  BY DEF TypeOK
<1>5. \A q \in Process : pc'[q] \in {"compute", "open", "dump"} => job'[q].key \in Key
  BY DEF TypeOK
<1> QED
  BY <1>2, <1>3, <1>4, <1>5 DEF TypeOK

(* What put stores when a call computed its value. *)
LEMMA ComputedIsMade ==
  ASSUME TypeOK, NEW k \in Key, computes < MaxComputes
  PROVE  /\ [key |-> k, expires |-> Expiry,
             value |-> [key |-> k, at |-> now, id |-> computes + 1]] \in Made
         /\ computes + 1 \in 0 .. MaxComputes
<1>1. /\ now \in Nat /\ computes \in Nat /\ MaxComputes \in Nat
      /\ TTL # None => TTL \in Nat
  BY PickleAssumption DEF TypeOK
<1> DEFINE v == [key |-> k, at |-> now, id |-> computes + 1]
           x == [key |-> k, expires |-> Expiry, value |-> v]
<1>2. v \in Value /\ v.key = k /\ v.at = now
  BY <1>1 DEF Value
<1> HIDE DEF v
<1>3. Expiry \in Nat \cup {None} /\ (TTL # None => Expiry # None /\ Expiry = now + TTL)
  BY <1>1, PickleAssumption DEF Expiry
<1>4. x \in Entry /\ x.key = k /\ x.expires = Expiry /\ x.value = v
  BY <1>2, <1>3 DEF Entry
<1> HIDE DEF x
<1>5. x \in Made
  BY <1>1, <1>2, <1>3, <1>4 DEF Made
<1> QED
  BY <1>1, <1>5 DEF x, v

LEMMA KeptNext == KeptInv /\ [Next]_vars => KeptInv'
<1> SUFFICES ASSUME KeptInv, [Next]_vars PROVE KeptInv'
  OBVIOUS
<1> USE DEF NoJob
<1>1. /\ TypeOK /\ SavedInv /\ ServedGenuine
      /\ stores \in [Process -> Dictionary]
      /\ file = Torn \/ file \in Dictionary
      /\ \A p \in Process : stores[p] \in Dictionary
  BY DEF KeptInv
<1>2. /\ pc \in [Process -> {"down", "idle", "compute", "open", "dump"}]
      /\ job \in [Process -> [key : Key \cup {None}, overlapped : BOOLEAN]]
      /\ answer \in [Process -> Entry \cup {None}]
      /\ computes \in 0 .. MaxComputes
      /\ crashes \in 0 .. MaxCrashes
      /\ interrupted \in BOOLEAN
      /\ saver \in Process \cup {None}
      /\ forgotten \subseteq Value
      /\ \A p \in Process : pc[p] \in {"compute", "open", "dump"} => job[p].key \in Key
      /\ \A p \in Process : job[p] \in [key : Key \cup {None}, overlapped : BOOLEAN]
      /\ \A p \in Process : answer[p] \in Entry \cup {None}
  BY <1>1 DEF TypeOK
<1>3. \A p \in Process : /\ stores = [stores EXCEPT ![p] = stores[p]]
                         /\ pc = [pc EXCEPT ![p] = pc[p]]
                         /\ job = [job EXCEPT ![p] = job[p]]
                         /\ answer = [answer EXCEPT ![p] = answer[p]]
  BY <1>1, <1>2
<1>4. \A p \in Process : pc[p] \in {"idle", "compute"} /\ saver = p /\ ~interrupted =>
        file # Torn /\ Within(stores[p], file)
  BY <1>1 DEF SavedInv
<1>5. ASSUME NEW p \in Process, Start(p) PROVE KeptInv'
  <2>1. /\ file \in Dictionary /\ file # Torn
        /\ SetStore(p, file) /\ pc' = [pc EXCEPT ![p] = "idle"]
        /\ UNCHANGED <<file, job, answer, now, computes, crashes, interrupted, saver, forgotten>>
    BY <1>1, <1>5 DEF Start, Goto
  <2>2. TypeOK'
    <3>1. job' = [job EXCEPT ![p] = job[p]] /\ answer' = [answer EXCEPT ![p] = answer[p]]
      BY <1>3, <2>1
    <3> QED
      BY <1>1, <1>2, <2>1, <3>1, OwnTypes
  <2> QED
    BY <1>3, <2>1, <2>2, OwnStep, WithinItself
<1>6. ASSUME NEW p \in Process, NEW k \in Key, CallHit(p, k) PROVE KeptInv'
  <2> DEFINE d == MoveToEnd(stores[p], k)
             a == Lookup(stores[p], k)
  <2>1. /\ k \in Keys(stores[p]) /\ pc[p] = "idle"
        /\ ~IsExpired(a.expires)
        /\ SetStore(p, d) /\ answer' = [answer EXCEPT ![p] = a]
        /\ UNCHANGED <<file, pc, job, now, computes, crashes, interrupted, saver, forgotten>>
    BY <1>6 DEF CallHit, Answer
  <2>2. d \in Dictionary /\ (Within(stores[p], file) => Within(d, file))
    BY <1>1, <2>1, LookupsDictionary
  <2>3. a \in Made
    BY <1>1, <2>1, ItemsAreMade
  <2>4. a \in Entry
    BY <2>3 DEF Made
  <2> HIDE DEF a, d
  <2>5. TypeOK'
    BY <1>1, <1>2, <1>3, <2>1, <2>2, <2>4, OwnTypes
  <2> QED
    BY <1>3, <1>4, <2>1, <2>2, <2>3, <2>5, OwnStep
<1>7. ASSUME NEW p \in Process, NEW k \in Key, CallMiss(p, k) PROVE KeptInv'
  <2> DEFINE d == IF k \in Keys(stores[p]) THEN DelItem(stores[p], k) ELSE stores[p]
             j == [NoJob EXCEPT !.key = k]
  <2>1. /\ pc[p] = "idle" /\ pc' = [pc EXCEPT ![p] = "compute"]
        /\ SetStore(p, d) /\ answer' = [answer EXCEPT ![p] = None]
        /\ job' = [job EXCEPT ![p] = j]
        /\ UNCHANGED <<file, now, computes, crashes, interrupted, saver, forgotten>>
    BY <1>7 DEF CallMiss, Goto, Answer
  <2>2. d \in Dictionary /\ (Within(stores[p], file) => Within(d, file))
    BY <1>1, LookupsDictionary
  <2>3. j \in [key : Key \cup {None}, overlapped : BOOLEAN] /\ j.key \in Key
    OBVIOUS
  <2> HIDE DEF d, j
  <2>4. TypeOK'
    BY <1>1, <1>2, <1>3, <2>1, <2>2, <2>3, OwnTypes
  <2> QED
    BY <1>3, <1>4, <2>1, <2>2, <2>4, OwnStep
<1>8. ASSUME NEW p \in Process, NEW k \in Key, Refresh(p, k) PROVE KeptInv'
  <2> DEFINE d == stores[p]
             j == [NoJob EXCEPT !.key = k]
  <2>1. /\ pc[p] = "idle" /\ pc' = [pc EXCEPT ![p] = "compute"]
        /\ SetStore(p, d) /\ answer' = [answer EXCEPT ![p] = None]
        /\ job' = [job EXCEPT ![p] = j]
        /\ UNCHANGED <<file, now, computes, crashes, interrupted, saver, forgotten>>
    BY <1>3, <1>8 DEF Refresh, Goto, Answer, SetStore
  <2>2. d \in Dictionary
    BY <1>1
  <2>3. j \in [key : Key \cup {None}, overlapped : BOOLEAN] /\ j.key \in Key
    OBVIOUS
  <2>4. pc[p] \in {"idle", "compute"} /\ saver = p /\ ~interrupted =>
          file # Torn /\ Within(d, file)
    BY <1>4
  <2> HIDE DEF d, j
  <2>5. TypeOK'
    BY <1>1, <1>2, <1>3, <2>1, <2>2, <2>3, OwnTypes
  <2> QED
    BY <1>3, <2>1, <2>2, <2>4, <2>5, OwnStep
<1>9. ASSUME NEW p \in Process, Compute(p) PROVE KeptInv'
  <2> DEFINE x == [key |-> job[p].key, expires |-> Expiry,
                   value |-> [key |-> job[p].key, at |-> now, id |-> computes + 1]]
             d == Trimmed(Assign(stores[p], x))
  <2>1. /\ pc[p] = "compute" /\ pc' = [pc EXCEPT ![p] = "open"]
        /\ computes < MaxComputes /\ computes' = computes + 1
        /\ SetStore(p, d)
        /\ UNCHANGED <<file, job, answer, now, crashes, interrupted, saver, forgotten>>
    BY <1>9 DEF Compute, Goto
  <2>2. job[p].key \in Key
    BY <1>2, <2>1
  <2>3. x \in Made /\ computes + 1 \in 0 .. MaxComputes
    BY <1>1, <2>1, <2>2, ComputedIsMade
  <2> HIDE DEF x
  <2>4. d \in Dictionary
    BY <1>1, <2>3, PutDictionary
  <2> HIDE DEF d
  <2>5. TypeOK'
    <3>1. job' = [job EXCEPT ![p] = job[p]] /\ answer' = [answer EXCEPT ![p] = answer[p]]
      BY <1>3, <2>1
    <3> QED
      BY <1>1, <1>2, <2>1, <2>2, <2>3, <2>4, <3>1, OwnTypes
  <2> QED
    BY <1>3, <2>1, <2>4, <2>5, OwnStep
<1>10. ASSUME NEW p \in Process, ComputeFails(p) PROVE KeptInv'
  <2> DEFINE d == stores[p]
             j == NoJob
  <2>1. /\ pc[p] = "compute" /\ pc' = [pc EXCEPT ![p] = "idle"]
        /\ SetStore(p, d) /\ job' = [job EXCEPT ![p] = j]
        /\ UNCHANGED <<file, answer, now, computes, crashes, interrupted, saver, forgotten>>
    BY <1>3, <1>10 DEF ComputeFails, Goto, SetStore
  <2>2. d \in Dictionary
    BY <1>1
  <2>3. j \in [key : Key \cup {None}, overlapped : BOOLEAN]
    OBVIOUS
  <2>4. pc[p] \in {"idle", "compute"} /\ saver = p /\ ~interrupted =>
          file # Torn /\ Within(d, file)
    BY <1>4
  <2> HIDE DEF d, j
  <2>5. TypeOK'
    <3>1. answer' = [answer EXCEPT ![p] = answer[p]]
      BY <1>3, <2>1
    <3> QED
      BY <1>1, <1>2, <2>1, <2>2, <2>3, <3>1, OwnTypes
  <2> QED
    BY <1>3, <2>1, <2>2, <2>4, <2>5, OwnStep
<1>11. ASSUME NEW p \in Process, Open(p) PROVE KeptInv'
  <2>1. /\ pc[p] = "open" /\ pc' = [pc EXCEPT ![p] = "dump"]
        /\ file' = Torn /\ saver' = p
        /\ UNCHANGED <<stores, answer, now, computes, crashes, interrupted, forgotten>>
    BY <1>11 DEF Open, Goto
  <2>2. /\ job' \in [Process -> [key : Key \cup {None}, overlapped : BOOLEAN]]
        /\ \A q \in Process : job'[q].key = job[q].key
    BY <1>2, <1>11 DEF Open
  <2>3. pc' \in [Process -> {"down", "idle", "compute", "open", "dump"}]
    BY <1>2, <2>1
  <2>4. \A q \in Process : pc'[q] \in {"compute", "open", "dump"} => job'[q].key \in Key
    BY <1>2, <2>1, <2>2
  <2>5. TypeOK'
    BY <1>1, <2>1, <2>2, <2>3, <2>4 DEF TypeOK
  <2>6. SavedInv'
    BY <1>2, <2>1 DEF SavedInv
  <2>7. ServedGenuine'
    BY <1>1, <2>1 DEF ServedGenuine
  <2> QED
    BY <1>1, <2>1, <2>5, <2>6, <2>7 DEF KeptInv
<1>12. ASSUME NEW p \in Process, Dump(p) \/ DumpFails(p) PROVE KeptInv'
  <2>1. /\ pc[p] = "dump" /\ pc' = [pc EXCEPT ![p] = "idle"]
        /\ saver' = p /\ job' = [job EXCEPT ![p] = NoJob]
        /\ UNCHANGED <<stores, answer, now, computes, crashes, forgotten>>
        /\ file' = stores[p] \/ file' = Torn
    BY <1>12 DEF Dump, DumpFails, Goto
  <2>2. interrupted' = TRUE \/ interrupted' = (file' = Torn)
    BY <1>12 DEF Dump, DumpFails
  <2>3. interrupted' \in BOOLEAN /\ (interrupted' \/ file' # Torn)
    BY <1>12, <2>2, Zenon DEF DumpFails
  <2>4. file' = Torn \/ file' \in Dictionary
    BY <1>1, <2>1
  <2>5. TypeOK'
    <3>1. file' = Torn \/ file' \in Seq(Entry)
      BY <2>4, ItemsAreMade
    <3>2. pc' \in [Process -> {"down", "idle", "compute", "open", "dump"}]
      BY <1>2, <2>1
    <3>3. job' \in [Process -> [key : Key \cup {None}, overlapped : BOOLEAN]]
      BY <1>2, <2>1
    <3>4. \A q \in Process : pc'[q] \in {"compute", "open", "dump"} => job'[q].key \in Key
      BY <1>2, <2>1
    <3> QED
      BY <1>1, <2>1, <2>3, <3>1, <3>2, <3>3, <3>4 DEF TypeOK
  <2>6. SavedInv'
    <3>1. ~interrupted' => file' # Torn /\ Within(stores'[p], file')
      BY <2>1, <2>3, WithinItself
    <3> QED
      BY <2>1, <3>1 DEF SavedInv
  <2>7. ServedGenuine'
    BY <1>1, <2>1 DEF ServedGenuine
  <2> QED
    BY <1>1, <2>1, <2>4, <2>5, <2>6, <2>7 DEF KeptInv
<1>13. ASSUME NEW p \in Process, NEW k \in Key, Delete(p, k) PROVE KeptInv'
  <2> DEFINE d == DelItem(stores[p], k)
             v == Lookup(stores[p], k).value
  <2>1. /\ k \in Keys(stores[p]) /\ pc[p] = "idle"
        /\ SetStore(p, d)
        /\ forgotten' = forgotten \cup {v}
        /\ UNCHANGED <<file, pc, job, answer, now, computes, crashes, interrupted, saver>>
    BY <1>13 DEF Delete
  <2>2. d \in Dictionary /\ (Within(stores[p], file) => Within(d, file))
    BY <1>1, <2>1, LookupsDictionary
  <2>3. v \in Value
    BY <1>1, <2>1, ItemsAreMade DEF Made, Entry
  <2> HIDE DEF d, v
  <2>4. TypeOK'
    BY <1>1, <1>2, <1>3, <2>1, <2>2, <2>3, OwnTypes
  <2> QED
    BY <1>3, <1>4, <2>1, <2>2, <2>4, OwnStep
<1>14. ASSUME NEW p \in Process, Clear(p) PROVE KeptInv'
  <2>1. /\ pc[p] = "idle"
        /\ SetStore(p, <<>>)
        /\ forgotten' = forgotten \cup Values(stores[p])
        /\ UNCHANGED <<file, pc, job, answer, now, computes, crashes, interrupted, saver>>
    BY <1>14 DEF Clear
  <2>2. Values(stores[p]) \subseteq Value
    <3>1. stores[p] \in Seq(Entry)
      BY <1>1, ItemsAreMade
    <3>2. \A i \in DOMAIN stores[p] : stores[p][i] \in Entry
      BY <3>1, ElementOfSeq, LenProperties
    <3> QED
      BY <3>2 DEF Values, Entry
  <2>3. TypeOK'
    BY <1>1, <1>2, <1>3, <2>1, <2>2, OwnTypes, EmptyDictionary
  <2> QED
    BY <1>3, <1>4, <2>1, <2>3, OwnStep, EmptyDictionary
<1>15. ASSUME NEW p \in Process, LoadStore(p) PROVE KeptInv'
  <2> DEFINE d == Update(stores[p], file)
  <2>1. /\ pc[p] = "idle" /\ file # Torn
        /\ SetStore(p, d)
        /\ forgotten' = forgotten \ Values(file)
        /\ UNCHANGED <<file, pc, job, answer, now, computes, crashes, interrupted, saver>>
    BY <1>15 DEF LoadStore
  <2>2. d \in Dictionary /\ (Within(stores[p], file) => Within(d, file))
    BY <1>1, <2>1, UpdateDictionary
  <2> HIDE DEF d
  <2>3. TypeOK'
    BY <1>1, <1>2, <1>3, <2>1, <2>2, OwnTypes
  <2> QED
    BY <1>3, <1>4, <2>1, <2>2, <2>3, OwnStep
<1>16. ASSUME NEW p \in Process, Crash(p) PROVE KeptInv'
  <2> DEFINE j == NoJob
  <2>1. /\ pc' = [pc EXCEPT ![p] = "down"]
        /\ SetStore(p, <<>>) /\ job' = [job EXCEPT ![p] = j]
        /\ answer' = [answer EXCEPT ![p] = None]
        /\ crashes < MaxCrashes /\ crashes' = crashes + 1
        /\ UNCHANGED <<file, now, computes, saver, forgotten>>
    BY <1>16 DEF Crash, Answer
  <2>2. interrupted' = (interrupted \/ pc[p] = "dump")
    BY <1>16 DEF Crash
  <2>3. interrupted' \in BOOLEAN /\ (interrupted => interrupted')
    BY <2>2, Zenon
  <2>4. crashes' \in 0 .. MaxCrashes
    BY <1>2, <2>1, PickleAssumption
  <2>5. j \in [key : Key \cup {None}, overlapped : BOOLEAN]
    OBVIOUS
  <2> HIDE DEF j
  <2>6. TypeOK'
    BY <1>1, <1>2, <2>1, <2>3, <2>4, <2>5, OwnTypes, EmptyDictionary
  <2> QED
    BY <2>1, <2>3, <2>6, OwnStep, EmptyDictionary
<1>17. ASSUME Tick PROVE KeptInv'
  <2>1. now' \in 0 .. Horizon
    BY <1>1, <1>17, PickleAssumption DEF Tick, TypeOK
  <2>2. TypeOK'
    BY <1>1, <1>17, <2>1 DEF Tick, TypeOK
  <2>3. SavedInv'
    BY <1>1, <1>17 DEF Tick, SavedInv
  <2>4. ServedGenuine'
    BY <1>17 DEF Tick, ServedGenuine
  <2> QED
    BY <1>1, <1>17, <2>2, <2>3, <2>4 DEF Tick, KeptInv
<1>18. ASSUME UNCHANGED vars PROVE KeptInv'
  BY <1>1, <1>18 DEF vars, KeptInv, TypeOK, SavedInv, ServedGenuine
<1> QED
  BY <1>5, <1>6, <1>7, <1>8, <1>9, <1>10, <1>11, <1>12, <1>13, <1>14, <1>15, <1>16, <1>17, <1>18
  DEF Next

(* What a computed call returned is kept and given: for any number of      *)
(* processes that share the pickle file, any bound and lifetime, and any   *)
(* crashes, merges and failing saves, every entry of the process whose     *)
(* save came through last is in the file between its calls, and no call    *)
(* returns what was computed for another key or longer ago than the        *)
(* lifetime.                                                               *)
THEOREM ResultsSurvive == Spec => []ResultsAreKept
<1>1. KeptInv => ResultsAreKept
  <2> SUFFICES ASSUME KeptInv PROVE MemoryIsSaved
    BY DEF KeptInv, ResultsAreKept
  <2> QED
    BY DEF KeptInv, SavedInv, Within, MemoryIsSaved
<1>2. KeptInv /\ [Next]_vars => KeptInv'
  BY KeptNext
<1> QED
  BY <1>1, <1>2, KeptInit, PTL DEF Spec

-----------------------------------------------------------------------------
(* The folder of a file store.                                             *)

FilePlace == Item \X {Pickle, Tabular}

(* Every step keeps the types. *)
LEMMA FilesTypeNext ==
  ASSUME Files!TypeOK, Files!Next
  PROVE  Files!TypeOK'
<1> USE DEF Files!Goto
<1>1. ASSUME NEW i \in Process, Files!Check(i) \/ Files!Stat(i) \/ Files!GetRaises(i) \/ Files!Compute(i) \/ Files!ComputeFails(i) \/ Files!PutRaises(i) \/ Files!WriteFails(i) \/ Files!Unlinked(i) \/ Files!Leave(i)
      PROVE  Files!TypeOK'
  BY <1>1 DEF Files!Check, Files!Stat, Files!GetRaises, Files!Compute, Files!ComputeFails, Files!PutRaises,
     Files!WriteFails, Files!Unlinked, Files!Leave, Files!TypeOK, Files!Location
<1>2. ASSUME NEW i \in Process, Files!Find(i)
      PROVE  Files!TypeOK'
  <2> DEFINE may == ~resolved[i] /\ suffix[i] = None /\ {p \in FilePlace : Files!IsFile(p)} # {}
  <2>1. /\ at[i] = "find"
        /\ at' = [at EXCEPT ![i] = IF resolved[i] \/ may THEN "check" ELSE "compute"]
        /\ IF may THEN \E p \in FilePlace : suffix' = [suffix EXCEPT ![i] = p[2]] ELSE suffix' = suffix
        /\ resolved' = [resolved EXCEPT ![i] = @ \/ may]
        /\ UNCHANGED <<setup, folder, key, doomed, since, served, time, calls, restarts>>
    BY <1>2 DEF Files!Find, FilePlace, Files!Suffix
  <2>2. CASE may
    <3>1. PICK p \in FilePlace : suffix' = [suffix EXCEPT ![i] = p[2]]
      BY <2>1, <2>2
    <3>2. p[2] \in {Pickle, Tabular} /\ p[2] # None
      BY Assumptions DEF FilePlace, Files!FileStoreAssumption, Files!Suffix
    <3>3. resolved' = [resolved EXCEPT ![i] = TRUE] /\ at' = [at EXCEPT ![i] = "check"]
      BY <2>1, <2>2 DEF Files!TypeOK
    <3>4. key[i] # None
      BY <2>1 DEF Files!TypeOK
    <3> HIDE DEF may
    <3> QED
      BY <2>1, <3>1, <3>2, <3>3, <3>4 DEF Files!TypeOK, Files!Location, Files!Suffix
  <2>3. CASE ~may
    <3>1. resolved' = resolved
      BY <2>1, <2>3 DEF Files!TypeOK
    <3>2. at' = [at EXCEPT ![i] = IF resolved[i] THEN "check" ELSE "compute"] /\ suffix' = suffix
      BY <2>1, <2>3
    <3>3. /\ at' \in [Process -> Files!Location]
          /\ \A j \in Process : j # i => at'[j] = at[j]
          /\ at'[i] \in {"check", "compute"} /\ (at'[i] = "check" => resolved[i])
      BY <2>1, <3>2 DEF Files!TypeOK, Files!Location
    <3>4. key[i] # None
      BY <2>1 DEF Files!TypeOK
    <3> HIDE DEF may
    <3> QED
      BY <2>1, <3>1, <3>2, <3>3, <3>4 DEF Files!TypeOK
  <2> QED
    BY <2>2, <2>3
<1>3. ASSUME NEW i \in Process, Files!Read(i)
      PROVE  Files!TypeOK'
  BY <1>3 DEF Files!Read, Files!TypeOK, Files!Location, Files!Path
<1>4. ASSUME NEW i \in Process, Files!Resolve(i)
      PROVE  Files!TypeOK'
  BY <1>4, Assumptions DEF Files!Resolve, Files!TypeOK, Files!Location, Files!FileStoreAssumption, Files!Suffix
<1>5. ASSUME NEW i \in Process, Files!OpenFile(i)
      PROVE  Files!TypeOK'
  BY <1>5 DEF Files!OpenFile, Files!TypeOK, Files!Location, Files!File
<1>6. ASSUME NEW i \in Process, Files!Write(i)
      PROVE  Files!TypeOK'
  <2>1. folder' \in [FilePlace -> Files!File]
    <3>1. PICK f \in [is : {"whole", "mixed"}, at : {time}] :
            folder' = [folder EXCEPT ![Files!Path(i)] = IF Files!IsFile(Files!Path(i)) THEN f ELSE @]
      BY <1>6 DEF Files!Write
    <3>2. f \in Files!File /\ folder \in [FilePlace -> Files!File]
      BY DEF Files!TypeOK, Files!File, FilePlace, Files!Suffix
    <3> QED
      BY <3>1, <3>2
  <2> QED
    BY <1>6, <2>1 DEF Files!Write, Files!TypeOK, Files!Location, FilePlace, Files!Suffix
<1>7. ASSUME NEW i \in Process, Files!Clear(i)
      PROVE  Files!TypeOK'
  <2>1. doomed' \in [Process -> SUBSET FilePlace]
    BY <1>7 DEF Files!Clear, Files!TypeOK, FilePlace, Files!Suffix
  <2> QED
    BY <1>7, <2>1 DEF Files!Clear, Files!TypeOK, Files!Location, FilePlace, Files!Suffix
<1>11. ASSUME NEW i \in Process, Files!Unlink(i)
      PROVE  Files!TypeOK'
  BY <1>11 DEF Files!Unlink, Files!TypeOK, Files!NoFile, Files!File
<1>12. ASSUME NEW i \in Process, Files!UnlinkRaises(i) \/ Files!ResolveRaises(i)
      PROVE  Files!TypeOK'
  BY <1>12 DEF Files!UnlinkRaises, Files!ResolveRaises, Files!TypeOK, Files!Location
<1>8. ASSUME NEW i \in Process, Files!Restart(i)
      PROVE  Files!TypeOK'
  <2>1. /\ setup.given \in {None, Pickle, Tabular}
        /\ Files!ResolvedAtFirst \in BOOLEAN
        /\ Files!ResolvedAtFirst => setup.given # None
    BY Assumptions DEF Files!TypeOK, Files!FileStoreAssumption, Files!Suffix, Files!ResolvedAtFirst
  <2> QED
    BY <1>8, <2>1 DEF Files!Restart, Files!TypeOK, Files!Location, Files!Suffix
<1>9. ASSUME NEW i \in Process, NEW k \in Item, Files!Call(i, k) \/ Files!Refresh(i, k)
      PROVE  Files!TypeOK'
  <2>1. k # None /\ calls' \in Nat
    BY <1>9, Assumptions DEF Files!Call, Files!Refresh, Files!TypeOK, Files!FileStoreAssumption
  <2>2. /\ since' \in [Process -> Nat]
        /\ served' \in [Process -> Files!File \cup {None}]
    BY <1>9 DEF Files!Call, Files!Refresh, Files!TypeOK
  <2>3. \E l \in {"find", "compute"} : at' = [at EXCEPT ![i] = l]
    BY <1>9 DEF Files!Call, Files!Refresh
  <2>4. key' = [key EXCEPT ![i] = k] /\ UNCHANGED <<setup, folder, suffix, resolved, doomed, time, restarts>>
    BY <1>9 DEF Files!Call, Files!Refresh
  <2> QED
    BY <2>1, <2>2, <2>3, <2>4 DEF Files!TypeOK, Files!Location
<1>13. ASSUME NEW i \in Process, NEW k \in Item, Files!Delete(i, k)
      PROVE  Files!TypeOK'
  BY <1>13, Assumptions DEF Files!Delete, Files!TypeOK, Files!Location, Files!FileStoreAssumption
<1>10. CASE Files!Tick
  BY <1>10 DEF Files!Tick, Files!TypeOK
<1> QED
  BY <1>1, <1>2, <1>3, <1>4, <1>5, <1>6, <1>7, <1>8, <1>9, <1>10, <1>11, <1>12, <1>13 DEF Files!Next

FilesFreshInv ==
  /\ \A p \in FilePlace : folder[p].at <= time
  /\ \A i \in Process :
       /\ since[i] <= time
       /\ at[i] = "read" /\ TTL # None /\ Files!IsFile(Files!Path(i)) =>
            folder[Files!Path(i)].at + TTL >= since[i]
       /\ served[i] # None /\ TTL # None => served[i].at + TTL >= since[i]

LEMMA FilesLocals ==
  ASSUME Files!TypeOK, NEW i \in Process
  PROVE  /\ at[i] \in {"check", "stat", "read", "open", "write"} => Files!Path(i) \in FilePlace
         /\ since[i] \in Nat /\ time \in Nat /\ (TTL # None => TTL \in Nat)
         /\ served[i] # None => served[i].at \in Nat
         /\ \A p \in FilePlace : folder[p].at \in Nat
<1> USE DEF Files!TypeOK, FilePlace, Files!Suffix, Files!File
<1>1. at[i] \in {"check", "stat", "read", "open", "write"} => Files!Path(i) \in FilePlace
  BY DEF Files!Path
<1>2. since[i] \in Nat /\ time \in Nat /\ (TTL # None => TTL \in Nat)
  BY Assumptions DEF Files!FileStoreAssumption
<1>3. served[i] # None => served[i].at \in Nat
  OBVIOUS
<1>4. \A p \in FilePlace : folder[p].at \in Nat
  OBVIOUS
<1> QED
  BY <1>1, <1>2, <1>3, <1>4

(* The steps that touch the folder. *)
LEMMA FolderMoves ==
  ASSUME Files!Next
  PROVE  \/ folder' = folder
         \/ \E i \in Process : Files!OpenFile(i) \/ Files!Write(i) \/ Files!Unlink(i)
BY DEF Files!Next, Files!Find, Files!Check, Files!Stat, Files!Read, Files!GetRaises, Files!Compute,
     Files!ComputeFails, Files!Resolve, Files!ResolveRaises, Files!PutRaises, Files!WriteFails, Files!Clear,
     Files!UnlinkRaises, Files!Unlinked, Files!Leave, Files!Restart, Files!Call,
     Files!Refresh, Files!Delete, Files!Tick

(* A file is not touched, or unlinked, or touched now. *)
LEMMA FolderStep ==
  ASSUME Files!TypeOK, Files!Next
  PROVE  /\ \A p \in FilePlace :
              folder'[p] = folder[p] \/ folder'[p] = Files!NoFile \/ folder'[p].at = time
         /\ time' = time \/ time' = time + 1
<1>1. ASSUME NEW i \in Process, Files!OpenFile(i)
      PROVE  \A p \in FilePlace : folder'[p] = folder[p] \/ folder'[p].at = time
  BY <1>1 DEF Files!OpenFile, Files!TypeOK, FilePlace, Files!Suffix
<1>2. ASSUME NEW i \in Process, Files!Write(i)
      PROVE  \A p \in FilePlace : folder'[p] = folder[p] \/ folder'[p].at = time
  BY <1>2 DEF Files!Write, Files!TypeOK, FilePlace, Files!Suffix
<1>3. ASSUME NEW i \in Process, Files!Unlink(i)
      PROVE  \A p \in FilePlace : folder'[p] = folder[p] \/ folder'[p] = Files!NoFile
  BY <1>3 DEF Files!Unlink, Files!TypeOK, FilePlace, Files!Suffix
<1>5. time' = time \/ time' = time + 1
  BY DEF Files!Next, Files!Find, Files!Check, Files!Stat, Files!Read, Files!GetRaises, Files!Compute, Files!ComputeFails,
     Files!Resolve, Files!ResolveRaises, Files!PutRaises, Files!WriteFails, Files!Clear, Files!UnlinkRaises, Files!Unlinked, Files!Leave,
     Files!Restart, Files!Call, Files!Refresh, Files!Delete, Files!Tick, Files!OpenFile, Files!Write, Files!Unlink
<1> QED
  BY <1>1, <1>2, <1>3, <1>5, FolderMoves

\* What one instance does.
InstanceNext(i) ==
  \/ Files!Find(i) \/ Files!Check(i) \/ Files!Stat(i) \/ Files!Read(i) \/ Files!GetRaises(i)
  \/ Files!Compute(i) \/ Files!ComputeFails(i) \/ Files!Resolve(i) \/ Files!ResolveRaises(i)
  \/ Files!OpenFile(i) \/ Files!PutRaises(i) \/ Files!Write(i) \/ Files!WriteFails(i)
  \/ Files!Clear(i) \/ Files!Unlink(i) \/ Files!UnlinkRaises(i) \/ Files!Unlinked(i)
  \/ Files!Leave(i) \/ Files!Restart(i)
  \/ \E k \in Item : Files!Call(i, k) \/ Files!Refresh(i, k) \/ Files!Delete(i, k)

LEMMA FilesActors == Files!Next <=> (\E i \in Process : InstanceNext(i)) \/ Files!Tick
BY DEF Files!Next, InstanceNext

(* The locals of an instance are its own. *)
LEMMA OthersKeep ==
  ASSUME Files!TypeOK, NEW i \in Process, NEW j \in Process \ {i}, InstanceNext(j)
  PROVE  /\ at'[i] = at[i] /\ key'[i] = key[i] /\ suffix'[i] = suffix[i]
         /\ since'[i] = since[i] /\ served'[i] = served[i]
<1> USE DEF Files!Goto, Files!TypeOK
<1>1. at'[i] = at[i]
  BY DEF InstanceNext, Files!Find, Files!Check, Files!Stat, Files!Read, Files!GetRaises, Files!Compute,
     Files!ComputeFails, Files!Resolve, Files!ResolveRaises, Files!OpenFile, Files!PutRaises, Files!Write,
     Files!WriteFails, Files!Clear, Files!Unlink, Files!UnlinkRaises, Files!Unlinked,
     Files!Leave, Files!Restart, Files!Call, Files!Refresh, Files!Delete
<1>2. key'[i] = key[i]
  BY DEF InstanceNext, Files!Find, Files!Check, Files!Stat, Files!Read, Files!GetRaises, Files!Compute,
     Files!ComputeFails, Files!Resolve, Files!ResolveRaises, Files!OpenFile, Files!PutRaises, Files!Write,
     Files!WriteFails, Files!Clear, Files!Unlink, Files!UnlinkRaises, Files!Unlinked,
     Files!Leave, Files!Restart, Files!Call, Files!Refresh, Files!Delete
<1>3. suffix'[i] = suffix[i]
  BY DEF InstanceNext, Files!Find, Files!Check, Files!Stat, Files!Read, Files!GetRaises, Files!Compute,
     Files!ComputeFails, Files!Resolve, Files!ResolveRaises, Files!OpenFile, Files!PutRaises, Files!Write,
     Files!WriteFails, Files!Clear, Files!Unlink, Files!UnlinkRaises, Files!Unlinked,
     Files!Leave, Files!Restart, Files!Call, Files!Refresh, Files!Delete
<1>4. since'[i] = since[i]
  BY DEF InstanceNext, Files!Find, Files!Check, Files!Stat, Files!Read, Files!GetRaises, Files!Compute,
     Files!ComputeFails, Files!Resolve, Files!ResolveRaises, Files!OpenFile, Files!PutRaises, Files!Write,
     Files!WriteFails, Files!Clear, Files!Unlink, Files!UnlinkRaises, Files!Unlinked,
     Files!Leave, Files!Restart, Files!Call, Files!Refresh, Files!Delete
<1>5. served'[i] = served[i]
  BY DEF InstanceNext, Files!Find, Files!Check, Files!Stat, Files!Read, Files!GetRaises, Files!Compute,
     Files!ComputeFails, Files!Resolve, Files!ResolveRaises, Files!OpenFile, Files!PutRaises, Files!Write,
     Files!WriteFails, Files!Clear, Files!Unlink, Files!UnlinkRaises, Files!Unlinked,
     Files!Leave, Files!Restart, Files!Call, Files!Refresh, Files!Delete
<1> QED
  BY <1>1, <1>2, <1>3, <1>4, <1>5

(* Where a lookup reads is settled before it does, and what it reads then  *)
(* was fresh when it asked.                                                *)
LEMMA ReaderStep ==
  ASSUME Files!TypeOK, NEW i \in Process, InstanceNext(i)
  PROVE  /\ at'[i] = "read" => 
              /\ Files!Path(i)' = Files!Path(i) /\ since' = since /\ folder' = folder
              /\ TTL # None => time - folder[Files!Path(i)].at <= TTL
         /\ since'[i] = since[i] \/ since'[i] = time
         /\ \/ served'[i] = None
            \/ served'[i] = served[i] /\ since'[i] = since[i]
            \/ /\ at[i] = "read" /\ Files!IsFile(Files!Path(i))
               /\ served'[i] = folder[Files!Path(i)] /\ since'[i] = since[i]
<1> USE DEF Files!Goto
<1>1. at'[i] = "read" => Files!Stat(i)
  BY DEF Files!TypeOK, InstanceNext, Files!Find, Files!Check, Files!Stat, Files!Read, Files!GetRaises, Files!Compute,
     Files!ComputeFails, Files!Resolve, Files!ResolveRaises, Files!OpenFile, Files!PutRaises, Files!Write,
     Files!WriteFails, Files!Clear, Files!Unlink, Files!UnlinkRaises, Files!Unlinked,
     Files!Leave, Files!Restart, Files!Call, Files!Refresh, Files!Delete
<1>2. ASSUME Files!Stat(i), at'[i] = "read"
      PROVE  /\ Files!Path(i)' = Files!Path(i) /\ since' = since /\ folder' = folder
             /\ TTL # None => time - folder[Files!Path(i)].at <= TTL
  <2>1. TTL # None => time - folder[Files!Path(i)].at <= TTL
    <3>1. at[i] = "stat" /\ ~Files!IsStale(folder[Files!Path(i)])
      BY <1>2 DEF Files!Stat, Files!TypeOK
    <3>2. time \in Nat /\ folder[Files!Path(i)].at \in Nat /\ (TTL # None => TTL \in Nat)
      BY <3>1, FilesLocals
    <3> QED
      BY <3>1, <3>2 DEF Files!IsStale
  <2> QED
    BY <1>2, <2>1 DEF Files!Stat, Files!Path
<1>3. since'[i] = since[i] \/ since'[i] = time
  BY DEF Files!TypeOK, InstanceNext, Files!Find, Files!Check, Files!Stat, Files!Read, Files!GetRaises, Files!Compute,
     Files!ComputeFails, Files!Resolve, Files!ResolveRaises, Files!OpenFile, Files!PutRaises, Files!Write,
     Files!WriteFails, Files!Clear, Files!Unlink, Files!UnlinkRaises, Files!Unlinked,
     Files!Leave, Files!Restart, Files!Call, Files!Refresh, Files!Delete
<1>4. \/ served'[i] = None
      \/ served'[i] = served[i] /\ since'[i] = since[i]
      \/ Files!Read(i)
  BY DEF Files!TypeOK, InstanceNext, Files!Find, Files!Check, Files!Stat, Files!Read, Files!GetRaises, Files!Compute,
     Files!ComputeFails, Files!Resolve, Files!ResolveRaises, Files!OpenFile, Files!PutRaises, Files!Write,
     Files!WriteFails, Files!Clear, Files!Unlink, Files!UnlinkRaises, Files!Unlinked,
     Files!Leave, Files!Restart, Files!Call, Files!Refresh, Files!Delete
<1>5. Files!Read(i) => /\ at[i] = "read" /\ Files!IsFile(Files!Path(i))
                       /\ served'[i] = folder[Files!Path(i)] /\ since'[i] = since[i]
  BY DEF Files!Read, Files!TypeOK, Files!IsFile
<1> QED
  BY <1>1, <1>2, <1>3, <1>4, <1>5

LEMMA FilesFreshNext ==
  ASSUME Files!TypeOK, FilesFreshInv, Files!Next
  PROVE  FilesFreshInv'
<1>0. Files!TypeOK' /\ time \in Nat
  BY FilesTypeNext DEF Files!TypeOK
<1>1. \A p \in FilePlace : folder'[p].at <= time'
  <2> TAKE p \in FilePlace
  <2>1. folder'[p] = folder[p] \/ folder'[p] = Files!NoFile \/ folder'[p].at = time
    BY FolderStep
  <2>2. time' \in Nat /\ time <= time' /\ folder[p].at <= time /\ folder[p].at \in Nat
    BY <1>0, FolderStep DEF FilesFreshInv, Files!TypeOK, FilePlace, Files!File, Files!Suffix
  <2> QED
    BY <1>0, <2>1, <2>2 DEF Files!NoFile
<1>2. ASSUME NEW i \in Process
      PROVE  /\ since'[i] <= time'
             /\ at'[i] = "read" /\ TTL # None /\ Files!IsFile(Files!Path(i))' =>
                  folder'[Files!Path(i)'].at + TTL >= since'[i]
             /\ served'[i] # None /\ TTL # None => served'[i].at + TTL >= since'[i]
  <2>1. /\ since[i] \in Nat /\ since'[i] \in Nat /\ time' \in Nat /\ since[i] <= time /\ time <= time'
        /\ TTL # None => TTL \in Nat
    BY <1>0, FilesLocals, FolderStep DEF FilesFreshInv, Files!TypeOK
  <2>2. CASE InstanceNext(i)
    <3>1. since'[i] <= time'
      BY <1>0, <2>1, <2>2, ReaderStep
    <3>2. ASSUME at'[i] = "read", TTL # None
          PROVE  folder'[Files!Path(i)'].at + TTL >= since'[i]
      <4>1. /\ Files!Path(i)' = Files!Path(i) /\ since' = since /\ folder' = folder
            /\ time - folder[Files!Path(i)].at <= TTL
        BY <2>2, <3>2, ReaderStep
      <4>2. folder'[Files!Path(i)'].at \in Nat
        BY <1>0, <3>2 DEF Files!TypeOK, Files!Path, Files!File
      <4> QED
        BY <1>0, <2>1, <3>2, <4>1, <4>2
    <3>3. served'[i] # None /\ TTL # None => served'[i].at + TTL >= since'[i]
      BY <2>2, ReaderStep DEF FilesFreshInv
    <3> QED
      BY <3>1, <3>2, <3>3
  <2>3. CASE at'[i] = at[i] /\ key'[i] = key[i] /\ suffix'[i] = suffix[i] /\ since'[i] = since[i] /\ served'[i] = served[i]
    <3>1. ASSUME at[i] = "read", TTL # None, Files!IsFile(Files!Path(i))'
          PROVE  folder'[Files!Path(i)].at + TTL >= since[i]
      <4> DEFINE p == Files!Path(i)
      <4>0. p \in FilePlace /\ folder[p].at \in Nat
        BY <3>1, FilesLocals
      <4>1. Files!Path(i)' = p
        BY <2>3 DEF Files!Path
      <4>2. folder'[p].is # "absent"
        BY <3>1, <4>1 DEF Files!IsFile
      <4>3. folder'[p] = folder[p] \/ folder'[p].at = time
        BY <4>0, <4>2, FolderStep DEF Files!NoFile
      <4>4. CASE folder'[p] = folder[p]
        BY <3>1, <4>2, <4>4 DEF FilesFreshInv, Files!IsFile
      <4>5. CASE folder'[p].at = time
        BY <1>0, <2>1, <3>1, <4>5
      <4> QED
        BY <4>3, <4>4, <4>5
    <3>2. Files!Path(i)' = Files!Path(i)
      BY <2>3 DEF Files!Path
    <3> QED
      BY <1>0, <2>1, <2>3, <3>1, <3>2 DEF FilesFreshInv
  <2>4. InstanceNext(i) \/ (\E j \in Process \ {i} : InstanceNext(j)) \/ Files!Tick
    BY FilesActors
  <2>5. CASE \E j \in Process \ {i} : InstanceNext(j)
    BY <2>3, <2>5, OthersKeep
  <2>6. CASE Files!Tick
    BY <2>3, <2>6 DEF Files!Tick
  <2> QED
    BY <2>2, <2>4, <2>5, <2>6
<1> QED
  BY <1>1, <1>2 DEF FilesFreshInv

-----------------------------------------------------------------------------
(* The suffixes of the files of a sound setup: there is one.               *)
Home == IF setup.given = None THEN {setup.kindOf[k] : k \in Item} ELSE {setup.given}

HomeInv ==
  /\ setup.given # None => \A i \in Process : suffix[i] = setup.given
  /\ \A i \in Process : suffix[i] # None => suffix[i] \in Home
  /\ \A p \in FilePlace : Files!IsFile(p) => p[2] \in Home

LEMMA HomeIsOne ==
  ASSUME Files!TypeOK
  PROVE  /\ \A s, t \in Home : s = t
         /\ setup.given \in Home \cup {None}
BY SetupsAreSound, Assumptions DEF Home, Files!TypeOK, Files!FileStoreAssumption

(* An instance goes without a suffix, or has the one of the files. *)
LEMMA HomeNext ==
  ASSUME Files!TypeOK, HomeInv, Files!Next
  PROVE  HomeInv'
<1> USE DEF Files!Goto
<1>0. Home' = Home /\ setup' = setup
  BY DEF Home, Files!Next, Files!Find, Files!Check, Files!Stat, Files!Read, Files!GetRaises, Files!Compute,
     Files!ComputeFails, Files!Resolve, Files!ResolveRaises, Files!OpenFile, Files!PutRaises, Files!Write,
     Files!WriteFails, Files!Clear, Files!Unlink, Files!UnlinkRaises, Files!Unlinked,
     Files!Leave, Files!Restart, Files!Call, Files!Refresh, Files!Delete, Files!Tick
<1>1. ASSUME NEW i \in Process
      PROVE  /\ suffix'[i] = suffix[i] \/ suffix[i] = None \/ suffix'[i] = setup.given
             /\ suffix'[i] \in Home \cup {None}
  <2>1. CASE InstanceNext(i)
    <3>1. CASE Files!Find(i)
      <4>1. CASE suffix' = suffix
        BY <4>1 DEF HomeInv
      <4>2. CASE ~(suffix' = suffix)
        <5>1. PICK p \in FilePlace : Files!IsFile(p) /\ suffix[i] = None /\ suffix'[i] = p[2]
          BY <3>1, <4>2 DEF Files!Find, Files!TypeOK, FilePlace, Files!Suffix
        <5> QED
          BY <5>1 DEF HomeInv
      <4> QED
        BY <4>1, <4>2
    <3>2. CASE Files!Resolve(i)
      <4>1. suffix'[i] = IF suffix[i] = None THEN setup.kindOf[key[i]] ELSE suffix[i]
        BY <3>2 DEF Files!Resolve, Files!TypeOK
      <4>2. key[i] \in Item
        BY <3>2 DEF Files!Resolve, Files!TypeOK
      <4>3. suffix[i] = None => setup.given = None
        BY DEF HomeInv
      <4> QED
        BY <4>1, <4>2, <4>3 DEF HomeInv, Home
    <3>3. CASE Files!Restart(i)
      BY <3>3, HomeIsOne DEF Files!Restart, Files!TypeOK
    <3>4. CASE suffix' = suffix
      BY <3>4 DEF HomeInv
    <3> QED
      BY <2>1, <3>1, <3>2, <3>3, <3>4 DEF InstanceNext, Files!Check, Files!Stat, Files!Read, Files!GetRaises, Files!Compute,
         Files!ComputeFails, Files!ResolveRaises, Files!OpenFile, Files!PutRaises, Files!Write, Files!WriteFails,
         Files!Clear, Files!Unlink, Files!UnlinkRaises, Files!Unlinked, Files!Leave,
         Files!Call, Files!Refresh, Files!Delete
  <2>2. CASE suffix'[i] = suffix[i]
    BY <2>2 DEF HomeInv
  <2>3. CASE Files!Tick
    BY <2>2, <2>3 DEF Files!Tick
  <2>4. CASE \E j \in Process \ {i} : InstanceNext(j)
    BY <2>2, <2>4, OthersKeep
  <2> QED
    BY <2>1, <2>3, <2>4, FilesActors
<1>2. ASSUME NEW p \in FilePlace, Files!IsFile(p)'
      PROVE  p[2] \in Home
  <2>1. CASE Files!IsFile(p)
    BY <2>1 DEF HomeInv
  <2>2. CASE ~Files!IsFile(p)
    <3>1. PICK i \in Process : at[i] \in {"open", "write"} /\ p = Files!Path(i)
      <4>1. folder'[p] # folder[p] /\ folder'[p] # Files!NoFile
        BY <1>2, <2>2 DEF Files!IsFile, Files!NoFile
      <4>2. ASSUME NEW i \in Process, Files!OpenFile(i) PROVE p = Files!Path(i)
        BY <4>1, <4>2 DEF Files!OpenFile, Files!TypeOK, FilePlace, Files!Suffix
      <4>3. ASSUME NEW i \in Process, Files!Write(i) PROVE p = Files!Path(i)
        BY <4>1, <4>3 DEF Files!Write, Files!TypeOK, FilePlace, Files!Suffix
      <4>4. ASSUME NEW i \in Process, Files!Unlink(i) PROVE FALSE
        BY <4>1, <4>4 DEF Files!Unlink, Files!TypeOK, FilePlace, Files!Suffix
      <4>5. \E i \in Process : Files!OpenFile(i) \/ Files!Write(i)
        BY <4>1, <4>4, FolderMoves
      <4> QED
        BY <4>2, <4>3, <4>5 DEF Files!OpenFile, Files!Write
    <3>2. suffix[i] # None /\ p[2] = suffix[i]
      BY <3>1 DEF Files!TypeOK, Files!Path
    <3> QED
      BY <3>2 DEF HomeInv
  <2> QED
    BY <2>1, <2>2
<1>3. setup.given # None => \A i \in Process : suffix'[i] = setup.given
  BY <1>1 DEF HomeInv
<1> QED
  BY <1>0, <1>1, <1>2, <1>3 DEF HomeInv

LEMMA FilesInit ==
  ASSUME Files!Init
  PROVE  Files!TypeOK /\ FilesFreshInv /\ HomeInv
<1>1. Files!TypeOK
  BY SetupsAreSound, Assumptions
  DEF Files!Init, Files!TypeOK, Files!FileStoreAssumption, Files!NoFile, Files!File,
      Files!ResolvedAtFirst, Files!Suffix, Files!Location
<1>2. FilesFreshInv
  BY DEF Files!Init, FilesFreshInv, Files!NoFile, FilePlace, Files!Suffix
<1>3. HomeInv
  BY <1>1, HomeIsOne DEF Files!Init, HomeInv, Files!NoFile, Files!IsFile, FilePlace, Files!Suffix
<1> QED
  BY <1>1, <1>2, <1>3

(* A lookup that misses a key finds the folder without a whole and fresh file of it. *)
LEMMA MissesFind ==
  ASSUME Files!TypeOK, HomeInv, Files!Next
  PROVE  Files!MissesAreAbsent
<1> USE DEF Files!Goto
<1> SUFFICES ASSUME NEW i \in Process, at[i] \in {"find", "check", "stat"}, at'[i] = "compute",
                    resolved[i] \/ suffix[i] = None, NEW s \in {Pickle, Tabular}, folder[<<key[i], s>>].is = "whole"
             PROVE  Files!IsStale(folder[<<key[i], s>>])
  BY DEF Files!MissesAreAbsent, Files!Stored, Files!Suffix
<1>1. key[i] \in Item /\ <<key[i], s>> \in FilePlace
  BY DEF Files!TypeOK, FilePlace
<1>2. s \in Home /\ Files!IsFile(<<key[i], s>>)
  BY <1>1 DEF HomeInv, Files!IsFile
<1>3. CASE Files!Find(i)
  BY <1>1, <1>2, <1>3 DEF Files!Find, HomeInv, FilePlace, Files!Suffix
<1>4. ASSUME suffix[i] # None
      PROVE  Files!Path(i) = <<key[i], s>>
  BY <1>2, <1>4, HomeIsOne DEF HomeInv, Files!Path
<1>5. CASE Files!Check(i)
  BY <1>2, <1>4, <1>5 DEF Files!Check, Files!TypeOK
<1>6. CASE Files!Stat(i)
  BY <1>4, <1>6 DEF Files!Stat, Files!TypeOK
<1>7. Files!Find(i) \/ Files!Check(i) \/ Files!Stat(i)
  <2>1. InstanceNext(i)
    BY FilesActors, OthersKeep DEF Files!Tick
  <2> QED
    BY <2>1 DEF Files!TypeOK, InstanceNext, Files!Read, Files!GetRaises, Files!Compute, Files!ComputeFails, Files!Resolve, Files!ResolveRaises,
       Files!OpenFile, Files!PutRaises, Files!Write, Files!WriteFails, Files!Clear,
       Files!Unlink, Files!UnlinkRaises, Files!Unlinked, Files!Leave, Files!Restart,
       Files!Call, Files!Refresh, Files!Delete
<1> QED
  BY <1>3, <1>5, <1>6, <1>7

FilesInv == part = "files" => Files!TypeOK /\ FilesFreshInv /\ HomeInv

LEMMA FilesInvariant == PartsSpec => []FilesInv
<1>1. PartsInit => FilesInv
  BY FilesInit DEF PartsInit, FilesInv
<1>2. FilesInv /\ [PartsNext]_partsVars => FilesInv'
  <2> SUFFICES ASSUME FilesInv, [PartsNext]_partsVars, part' = "files"
               PROVE  Files!TypeOK' /\ FilesFreshInv' /\ HomeInv'
    BY DEF FilesInv
  <2>1. part = "files" /\ Files!TypeOK /\ FilesFreshInv /\ HomeInv
    BY DEF FilesInv, PartsNext, partsVars
  <2>2. CASE Files!Next
    BY <2>1, <2>2, FilesTypeNext, FilesFreshNext, HomeNext
  <2>3. CASE UNCHANGED filesVars
    <3>1. /\ setup' = setup /\ folder' = folder /\ suffix' = suffix /\ resolved' = resolved
          /\ at' = at /\ key' = key /\ doomed' = doomed /\ since' = since /\ served' = served
          /\ time' = time /\ calls' = calls /\ restarts' = restarts
      BY <2>3 DEF filesVars
    <3>2. Files!TypeOK'
      BY <2>1, <3>1 DEF Files!TypeOK
    <3>3. FilesFreshInv'
      BY <2>1, <3>1 DEF FilesFreshInv, Files!IsFile, Files!Path
    <3>4. HomeInv'
      BY <2>1, <3>1 DEF HomeInv, Home, Files!IsFile
    <3> QED
      BY <3>2, <3>3, <3>4
  <2> QED
    BY <2>1, <2>2, <2>3 DEF PartsNext, partsVars
<1> QED
  BY <1>1, <1>2, PTL DEF PartsSpec

(* "Absent or stale" (files.py, FileStore.get): whatever instances of a    *)
(* file store in whatever processes write and delete meanwhile, no lookup  *)
(* returns what was older than the lifetime when it began.                 *)
THEOREM FilesAreServedFresh == PartsSpec => []ServedFresh
<1>1. FilesInv => ServedFresh
  BY DEF FilesInv, FilesFreshInv, ServedFresh, Files!ServedFresh
<1> QED
  BY <1>1, FilesInvariant, PTL

(* "So those reads hit" (files.py, FileStore._resolve_from_disk): no       *)
(* lookup, of a new process neither, takes a key for missing whose file is *)
(* whole and fresh; but for the lookups that come before the first put of  *)
(* an instance whose suffix is given, of data frames, without a backend.   *)
THEOREM StoredFilesAreFound == PartsSpec => StoredIsFound
<1>1. FilesInv /\ [PartsNext]_partsVars => [part = "files" => Files!MissesAreAbsent]_partsVars
  <2>1. FilesInv /\ PartsNext => (part = "files" => Files!MissesAreAbsent)
    BY MissesFind DEF FilesInv, PartsNext
  <2> QED
    BY <2>1
<1> QED
  BY <1>1, FilesInvariant, PTL DEF PartsSpec, StoredIsFound

-----------------------------------------------------------------------------
(* The caches of read_query.                                               *)

\* What a memory entry of query q in a store of lifetime ttl knows.
EntryFits(e, q, ttl) ==
  e # None =>
    /\ e.frame.query = q
    /\ e.frame.at \in cleared .. clock
    /\ e.expires = IF ttl = None THEN None ELSE e.frame.at + ttl

MemoryInv ==
  \A l \in Reads!Labels, q \in Query :
    shared[l] # None => EntryFits(shared[l].entries[q], q, shared[l].ttl)

ReadFilesInv ==
  \A l \in Reads!Labels, q \in Query :
    files[<<l, q>>] # None => files[<<l, q>>].query = q /\ files[<<l, q>>].at <= clock

ReadsInv == Reads!TypeOK /\ MemoryInv /\ ReadFilesInv

LEMMA ReadsConstants ==
  /\ None \notin Int
  /\ Lifetime \subseteq Nat \cup {None}
  /\ Minute \in Nat \ {0}
  /\ MaxReads \in Nat
  /\ ReadsEnd \in Nat
  /\ \A ttl \in Lifetime : Reads!Label(ttl) \in Reads!Labels
  /\ \A ttl \in Lifetime : Reads!Label(ttl) = None <=> ttl = None
<1>1. /\ None \notin Int /\ Lifetime \subseteq Nat \cup {None} /\ Minute \in Nat \ {0} /\ MaxReads \in Nat /\ ReadsEnd \in Nat
  BY Assumptions DEF Reads!ReadQueryAssumption
<1>3. \A ttl \in Lifetime : Reads!Label(ttl) \in Reads!Labels
  BY DEF Reads!Labels
<1>4. \A ttl \in Lifetime : Reads!Label(ttl) = None <=> ttl = None
  <2> TAKE ttl \in Lifetime
  <2>1. CASE ttl = None
    BY <2>1 DEF Reads!Label
  <2>2. CASE ttl # None
    <3>1. ttl \in Nat /\ ttl % Minute \in Nat
      BY <1>1, <2>2
    <3> QED
      BY <1>1, <2>2, <3>1 DEF Reads!Label
  <2> QED
    BY <2>1, <2>2
<1> QED
  BY <1>1, <1>3, <1>4

LEMMA PersistIsThreefold == TRUE # None /\ FALSE # None
<1>1. None \notin BOOLEAN
  BY Assumptions DEF Reads!ReadQueryAssumption
<1> QED
  BY <1>1, Zenon

\* What a call that comes to an answer knows of it.
Answered(c, f) ==
  /\ f \in Reads!Frame
  /\ f.query = c.query
  /\ c.persist = None => f = Reads!Fetched(c)
  /\ c.persist = FALSE => f.at >= cleared
  /\ c.persist # FALSE => f.backend = c.backend
  /\ c.ttl # None => \E ttl \in Lifetime \ {None} :
       /\ Reads!Label(ttl) = Reads!Label(c.ttl)
       /\ c.persist = TRUE => ttl = c.ttl
       /\ clock - f.at <= ttl

LEMMA FetchedAnswers ==
  ASSUME Reads!TypeOK, NEW c \in Reads!Request
  PROVE  Answered(c, Reads!Fetched(c))
<1> DEFINE f == Reads!Fetched(c)
<1>1. f \in Reads!Frame /\ f.query = c.query /\ f.backend = c.backend /\ f.at = clock
  BY DEF Reads!Request, Reads!Frame, Reads!Fetched, Reads!TypeOK
<1>2. clock \in Nat /\ cleared \in 0 .. clock /\ clock - clock = 0
  BY ReadsConstants DEF Reads!TypeOK
<1>3. c.ttl # None => c.ttl \in Lifetime \ {None} /\ 0 <= c.ttl
  <2>1. c.ttl \in Lifetime
    BY DEF Reads!Request
  <2>2. Lifetime \subseteq Nat \cup {None}
    BY ReadsConstants
  <2>3. c.ttl # None => c.ttl \in Lifetime /\ c.ttl \in Nat
    BY <2>1, <2>2
  <2> QED
    BY <2>3
<1>4. c.ttl # None => clock - f.at <= c.ttl
  BY <1>1, <1>2, <1>3
<1>5. f.at >= cleared
  BY <1>1, <1>2
<1> QED
  BY <1>1, <1>3, <1>4, <1>5, Zenon DEF Answered

LEMMA MemoryAnswers ==
  ASSUME ReadsInv, NEW c \in Reads!Request, c.persist = FALSE,
         Reads!Live(Reads!StoreOf(c).entries[c.query])
  PROVE  Answered(c, Reads!StoreOf(c).entries[c.query].frame)
<1> DEFINE l == Reads!Label(c.ttl)
           s == shared[l]
           e == s.entries[c.query]
<1>1. c.ttl \in Lifetime /\ c.query \in Query /\ l \in Reads!Labels
  BY ReadsConstants DEF Reads!Request
<1>2. s # None /\ Reads!StoreOf(c) = s
  BY <1>1 DEF Reads!StoreOf, Reads!Live
<1>3. e # None /\ (e.expires # None => clock < e.expires)
  BY <1>2 DEF Reads!Live
<1>4. EntryFits(e, c.query, s.ttl)
  BY <1>1, <1>2 DEF ReadsInv, MemoryInv
<1>5. s.ttl \in Lifetime /\ Reads!Label(s.ttl) = l
  BY <1>1, <1>2 DEF ReadsInv, Reads!TypeOK
<1>6. e.frame \in Reads!Frame
  BY <1>1, <1>2, <1>3 DEF ReadsInv, Reads!TypeOK, Reads!Entry
<1>7. e.frame.query = c.query /\ e.frame.at \in cleared .. clock
  BY <1>3, <1>4 DEF EntryFits
<1>8. cleared \in Nat /\ clock \in Nat
  BY ReadsConstants DEF ReadsInv, Reads!TypeOK
<1>9. ASSUME c.ttl # None
      PROVE  s.ttl \in Lifetime \ {None} /\ clock - e.frame.at <= s.ttl
  <2>1. s.ttl # None
    BY <1>1, <1>5, <1>9, ReadsConstants
  <2>2. s.ttl \in Nat
    BY <1>5, <2>1, ReadsConstants
  <2>3. e.expires = e.frame.at + s.ttl
    BY <1>3, <1>4, <2>1 DEF EntryFits
  <2>4. e.expires # None
    BY <1>7, <1>8, <2>2, <2>3, ReadsConstants
  <2> QED
    BY <1>3, <1>5, <1>7, <1>8, <2>1, <2>2, <2>3, <2>4
<1>10. e.frame.at >= cleared
  BY <1>7, <1>8
<1>11. c.persist # TRUE /\ c.persist # None
  BY PersistIsThreefold, Zenon
<1> HIDE DEF e, s, l
<1> QED
  BY <1>2, <1>5, <1>6, <1>7, <1>9, <1>10, <1>11, Zenon DEF Answered, e, l

LEMMA FileAnswers ==
  ASSUME ReadsInv, NEW c \in Reads!Request, c.persist = TRUE,
         Reads!Fresh(files[<<Reads!Label(c.ttl), c.query>>], c.ttl)
  PROVE  Answered(c, [files[<<Reads!Label(c.ttl), c.query>>] EXCEPT !.backend = c.backend])
<1> DEFINE f == files[<<Reads!Label(c.ttl), c.query>>]
           r == [f EXCEPT !.backend = c.backend]
<1>1. c.ttl \in Lifetime /\ c.query \in Query /\ c.backend \in Backend /\ Reads!Label(c.ttl) \in Reads!Labels
  BY ReadsConstants DEF Reads!Request
<1>2. f # None /\ (c.ttl # None => clock - f.at <= c.ttl)
  BY DEF Reads!Fresh
<1>3. f \in Reads!Frame /\ f.query = c.query
  BY <1>1, <1>2 DEF ReadsInv, Reads!TypeOK, ReadFilesInv
<1>4. r \in Reads!Frame /\ r.query = c.query /\ r.backend = c.backend /\ r.at = f.at
  BY <1>1, <1>3 DEF Reads!Frame
<1>5. c.persist # FALSE /\ c.persist # None
  BY PersistIsThreefold, Zenon
<1> HIDE DEF f, r
<1>6. Answered(c, r)
  BY <1>1, <1>2, <1>4, <1>5, Zenon DEF Answered
<1> QED
  BY <1>6 DEF f, r

\* What the entries are after a step that puts e, of query q, in the store of c.
LEMMA MemoryStep ==
  ASSUME ReadsInv, NEW c \in Reads!Request, NEW e \in Reads!Entry \cup {None},
         EntryFits(e, c.query, Reads!StoreOf(c).ttl),
         shared' = [shared EXCEPT ![Reads!Label(c.ttl)] =
                      [Reads!StoreOf(c) EXCEPT !.entries[c.query] = e]],
         cleared' = cleared, clock' = clock
  PROVE  /\ MemoryInv'
         /\ shared' \in [Reads!Labels -> [ttl : Lifetime, entries : [Query -> Reads!Entry \cup {None}]] \cup {None}]
         /\ \A l \in Reads!Labels : shared'[l] # None => Reads!Label(shared'[l].ttl) = l
<1> DEFINE m == Reads!Label(c.ttl)
           s == Reads!StoreOf(c)
           t == [ttl |-> s.ttl, entries |-> [s.entries EXCEPT ![c.query] = e]]
<1>1. c.ttl \in Lifetime /\ c.query \in Query /\ m \in Reads!Labels
  BY ReadsConstants DEF Reads!Request
<1>2. /\ s \in [ttl : Lifetime, entries : [Query -> Reads!Entry \cup {None}]]
      /\ Reads!Label(s.ttl) = m
      /\ \A q \in Query : EntryFits(s.entries[q], q, s.ttl)
  <2>1. CASE shared[m] = None
    BY <1>1, <2>1 DEF Reads!StoreOf, EntryFits
  <2>2. CASE shared[m] # None
    <3>1. s = shared[m]
      BY <2>2 DEF Reads!StoreOf
    <3>2. s \in [ttl : Lifetime, entries : [Query -> Reads!Entry \cup {None}]] /\ Reads!Label(s.ttl) = m
      BY <1>1, <2>2, <3>1 DEF ReadsInv, Reads!TypeOK
    <3>3. \A q \in Query : EntryFits(s.entries[q], q, s.ttl)
      BY <1>1, <2>2, <3>1 DEF ReadsInv, MemoryInv
    <3> QED
      BY <3>2, <3>3
  <2> QED
    BY <2>1, <2>2
<1> HIDE DEF s
<1>3. [s EXCEPT !.entries[c.query] = e] = t
  BY <1>2
<1>4. shared' = [shared EXCEPT ![m] = t]
  BY <1>3 DEF s
<1>5. t \in [ttl : Lifetime, entries : [Query -> Reads!Entry \cup {None}]] /\ t.ttl = s.ttl
  BY <1>1, <1>2
<1>6. \A q \in Query : EntryFits(t.entries[q], q, s.ttl)
  BY <1>1, <1>2 DEF s
<1>7. shared \in [Reads!Labels -> [ttl : Lifetime, entries : [Query -> Reads!Entry \cup {None}]] \cup {None}]
  BY DEF ReadsInv, Reads!TypeOK
<1> HIDE DEF t, m
<1>8. \A l \in Reads!Labels : shared'[l] = IF l = m THEN t ELSE shared[l]
  BY <1>4, <1>7
<1>9. \A l \in Reads!Labels, q \in Query : shared'[l] # None => EntryFits(shared'[l].entries[q], q, shared'[l].ttl)
  BY <1>5, <1>6, <1>8 DEF ReadsInv, MemoryInv
<1>10. MemoryInv'
  BY <1>9 DEF MemoryInv, EntryFits
<1>11. \A l \in Reads!Labels : shared'[l] # None => Reads!Label(shared'[l].ttl) = l
  BY <1>2, <1>5, <1>8 DEF ReadsInv, Reads!TypeOK, m
<1> QED
  BY <1>4, <1>5, <1>7, <1>10, <1>11

LEMMA ReadsNext ==
  ASSUME ReadsInv, Reads!Next
  PROVE  /\ ReadsInv'
         /\ request' = None \/ result' = None \/ (request' \in Reads!Request /\ Answered(request', result') /\ UNCHANGED <<cleared, clock>>)
<1>0. /\ clock \in Nat /\ cleared \in 0 .. clock /\ reads \in Nat
      /\ None \in Reads!Frame \cup {None} /\ None \in Reads!Request \cup {None}
  BY ReadsConstants DEF ReadsInv, Reads!TypeOK
<1>1. ASSUME NEW c \in Reads!Request, Reads!Bypass(c)
      PROVE  ReadsInv' /\ request' = c /\ Answered(c, result') /\ UNCHANGED <<cleared, clock>>
  <2>1. Answered(c, result') /\ request' = c /\ reads' \in 0 .. MaxReads /\ UNCHANGED <<shared, files, cleared, clock>>
    BY <1>0, <1>1, FetchedAnswers, ReadsConstants DEF Reads!Bypass, Reads!Arrives, ReadsInv
  <2> QED
    BY <2>1 DEF ReadsInv, Reads!TypeOK, MemoryInv, ReadFilesInv, EntryFits, Answered
<1>2. ASSUME NEW c \in Reads!Request, Reads!FromMemory(c)
      PROVE  /\ ReadsInv' /\ request' = c /\ UNCHANGED <<cleared, clock>>
             /\ result' = None \/ Answered(c, result')
  <2>1. /\ request' = c /\ reads' \in 0 .. MaxReads /\ UNCHANGED <<shared, files, cleared, clock>>
        /\ result' = None \/ result' = Reads!StoreOf(c).entries[c.query].frame
    BY <1>0, <1>2, ReadsConstants DEF Reads!FromMemory, Reads!Arrives
  <2>2. Answered(c, Reads!StoreOf(c).entries[c.query].frame)
    BY <1>2, MemoryAnswers DEF Reads!FromMemory
  <2>3. result' \in Reads!Frame \cup {None} /\ (result' = None \/ Answered(c, result'))
    BY <2>1, <2>2, Zenon DEF Answered
  <2> QED
    BY <2>1, <2>3 DEF ReadsInv, Reads!TypeOK, MemoryInv, ReadFilesInv, EntryFits
<1>3. ASSUME NEW c \in Reads!Request, Reads!FromFile(c)
      PROVE  ReadsInv' /\ request' = c /\ Answered(c, result') /\ UNCHANGED <<cleared, clock>>
  <2>1. Answered(c, result') /\ request' = c /\ reads' \in 0 .. MaxReads /\ UNCHANGED <<shared, files, cleared, clock>>
    <3>1. Answered(c, result')
      BY <1>3, FileAnswers DEF Reads!FromFile
    <3>2. request' = c /\ reads' \in 0 .. MaxReads /\ UNCHANGED <<shared, files, cleared, clock>>
      BY <1>0, <1>3, ReadsConstants DEF Reads!FromFile, Reads!Arrives
    <3> QED
      BY <3>1, <3>2
  <2> QED
    BY <2>1 DEF ReadsInv, Reads!TypeOK, MemoryInv, ReadFilesInv, EntryFits, Answered
<1>4. ASSUME NEW c \in Reads!Request, Reads!IntoMemory(c)
      PROVE  ReadsInv' /\ request' = c /\ Answered(c, result') /\ UNCHANGED <<cleared, clock>>
  <2> DEFINE ttl == Reads!StoreOf(c).ttl
             e == [frame |-> Reads!Fetched(c), expires |-> IF ttl = None THEN None ELSE clock + ttl]
  <2>1. Answered(c, result') /\ request' = c /\ reads' \in 0 .. MaxReads /\ UNCHANGED <<files, cleared, clock>>
    BY <1>0, <1>4, FetchedAnswers, ReadsConstants DEF Reads!IntoMemory, Reads!Arrives, ReadsInv
  <2>2. shared' = [shared EXCEPT ![Reads!Label(c.ttl)] = [Reads!StoreOf(c) EXCEPT !.entries[c.query] = e]]
    BY <1>4 DEF Reads!IntoMemory
  <2>3. ttl \in Lifetime
    BY ReadsConstants DEF Reads!StoreOf, Reads!Request, ReadsInv, Reads!TypeOK
  <2>4. Reads!Fetched(c) \in Reads!Frame /\ Reads!Fetched(c).query = c.query /\ Reads!Fetched(c).at = clock
    BY FetchedAnswers DEF Answered, ReadsInv, Reads!Fetched
  <2>5. e \in Reads!Entry
    BY <1>0, <2>3, <2>4, ReadsConstants DEF Reads!Entry
  <2>6. EntryFits(e, c.query, ttl)
    BY <1>0, <2>4 DEF EntryFits
  <2> HIDE DEF e, ttl
  <2>7. /\ MemoryInv'
        /\ shared' \in [Reads!Labels -> [ttl : Lifetime, entries : [Query -> Reads!Entry \cup {None}]] \cup {None}]
        /\ \A l \in Reads!Labels : shared'[l] # None => Reads!Label(shared'[l].ttl) = l
    BY <2>1, <2>2, <2>5, <2>6, MemoryStep DEF ttl
  <2> QED
    BY <2>1, <2>7 DEF ReadsInv, Reads!TypeOK, ReadFilesInv, Answered
<1>5. ASSUME NEW c \in Reads!Request, Reads!IntoFile(c)
      PROVE  ReadsInv' /\ request' = c /\ Answered(c, result') /\ UNCHANGED <<cleared, clock>>
  <2> DEFINE f == Reads!Fetched(c)
             p == <<Reads!Label(c.ttl), c.query>>
  <2>1. Answered(c, result') /\ request' = c /\ reads' \in 0 .. MaxReads /\ UNCHANGED <<shared, cleared, clock>>
    BY <1>0, <1>5, FetchedAnswers, ReadsConstants DEF Reads!IntoFile, Reads!Arrives, ReadsInv
  <2>2. files' = [files EXCEPT ![p] = f]
    BY <1>5 DEF Reads!IntoFile
  <2>3. f \in Reads!Frame /\ f.query = c.query /\ f.at = clock
    BY FetchedAnswers DEF Answered, ReadsInv, Reads!Fetched
  <2>4. files \in [Reads!Labels \X Query -> Reads!Frame \cup {None}]
    BY DEF ReadsInv, Reads!TypeOK
  <2> HIDE DEF f
  <2>5. \A l \in Reads!Labels, q \in Query : files'[<<l, q>>] = IF <<l, q>> = p THEN f ELSE files[<<l, q>>]
    BY <2>2, <2>4
  <2>6. files' \in [Reads!Labels \X Query -> Reads!Frame \cup {None}]
    BY <2>2, <2>3, <2>4
  <2>7. ReadFilesInv'
    BY <1>0, <2>1, <2>3, <2>5 DEF ReadsInv, ReadFilesInv
  <2> QED
    BY <2>1, <2>6, <2>7 DEF ReadsInv, Reads!TypeOK, MemoryInv, EntryFits, Answered
<1>6. ASSUME NEW c \in Reads!Request, Reads!Raises(c)
      PROVE  ReadsInv' /\ result' = None
  <2>1. result' = None /\ request' = c /\ reads' \in 0 .. MaxReads /\ UNCHANGED <<files, cleared, clock>>
    BY <1>0, <1>6, ReadsConstants DEF Reads!Raises, Reads!Arrives
  <2>2. CASE UNCHANGED shared
    BY <2>1, <2>2 DEF ReadsInv, Reads!TypeOK, MemoryInv, ReadFilesInv, EntryFits
  <2>3. CASE shared' = [shared EXCEPT ![Reads!Label(c.ttl)] = [Reads!StoreOf(c) EXCEPT !.entries[c.query] = None]]
    <3>1. EntryFits(None, c.query, Reads!StoreOf(c).ttl)
      BY DEF EntryFits
    <3>2. /\ MemoryInv'
          /\ shared' \in [Reads!Labels -> [ttl : Lifetime, entries : [Query -> Reads!Entry \cup {None}]] \cup {None}]
          /\ \A l \in Reads!Labels : shared'[l] # None => Reads!Label(shared'[l].ttl) = l
      BY <2>1, <2>3, <3>1, MemoryStep
    <3> QED
      BY <2>1, <3>2 DEF ReadsInv, Reads!TypeOK, ReadFilesInv
  <2> QED
    BY <1>6, <2>2, <2>3 DEF Reads!Raises
<1>7. ASSUME Reads!ClearSharedStores
      PROVE  ReadsInv' /\ request' = None
  BY <1>0, <1>7 DEF Reads!ClearSharedStores, ReadsInv, Reads!TypeOK, MemoryInv, ReadFilesInv
<1>8. ASSUME Reads!Tick
      PROVE  ReadsInv' /\ request' = None
  <2>1. /\ UNCHANGED <<shared, files, cleared, reads>> /\ request' = None /\ result' = None
        /\ clock' \in 0 .. ReadsEnd /\ cleared' \in 0 .. clock' /\ clock' = clock + 1
    BY <1>0, <1>8, ReadsConstants DEF Reads!Tick, ReadsInv, Reads!TypeOK
  <2>2. MemoryInv'
    BY <1>0, <2>1 DEF ReadsInv, MemoryInv, EntryFits
  <2>3. ReadFilesInv'
    <3>1. \A l \in Reads!Labels, q \in Query : files[<<l, q>>] # None => files[<<l, q>>].at \in 0 .. ReadsEnd
      BY DEF ReadsInv, Reads!TypeOK, Reads!Frame
    <3> QED
      BY <1>0, <2>1, <3>1, ReadsConstants DEF ReadsInv, ReadFilesInv
  <2> QED
    BY <2>1, <2>2, <2>3 DEF ReadsInv, Reads!TypeOK
<1> QED
  BY <1>1, <1>2, <1>3, <1>4, <1>5, <1>6, <1>7, <1>8 DEF Reads!Next

\* The last answer is one that the call may come to.
AnswerInv ==
  request # None /\ result # None => request \in Reads!Request /\ Answered(request, result)

LEMMA AnswersAreRight ==
  ASSUME ReadsInv, AnswerInv
  PROVE  Reads!TypeOK /\ Reads!RightResult /\ Reads!TtlRespected /\ Reads!FileBackend
<1>1. Reads!TypeOK
  BY DEF ReadsInv
<1>2. Reads!RightResult
  BY Zenon DEF AnswerInv, Answered, Reads!RightResult
<1>3. Reads!TtlRespected
  BY Zenon DEF AnswerInv, Answered, Reads!TtlRespected
<1>4. Reads!FileBackend
  BY Zenon DEF AnswerInv, Answered, Reads!FileBackend
<1> QED
  BY <1>1, <1>2, <1>3, <1>4

ReadQueryInv == part = "reads" => ReadsInv /\ AnswerInv

(* "Time-to-live for cached results", "None bypasses caching entirely" and *)
(* "different ttl values route to separate shared stores" (read.py and     *)
(* test_read_query_regressions.py): what a sequence of calls of read_query *)
(* with whatever backends, lifetimes and caches returns is, for each call, *)
(* the answer to its query and no older than its lifetime allows; and it   *)
(* is of its backend unless it is from memory, where the frame may be the  *)
(* one that a call with another backend read.                              *)
THEOREM ResultsAreRight == PartsSpec => []ResultIsRight
<1>1. PartsInit => ReadQueryInv
  <2> SUFFICES ASSUME Reads!Init PROVE ReadsInv /\ AnswerInv
    BY DEF PartsInit, ReadQueryInv
  <2>1. Reads!TypeOK
    BY ReadsConstants DEF Reads!Init, Reads!TypeOK
  <2> QED
    BY <2>1 DEF Reads!Init, ReadsInv, MemoryInv, ReadFilesInv, AnswerInv
<1>2. ReadQueryInv /\ [PartsNext]_partsVars => ReadQueryInv'
  <2> SUFFICES ASSUME ReadQueryInv, [PartsNext]_partsVars, part' = "reads"
               PROVE  ReadsInv' /\ AnswerInv'
    BY DEF ReadQueryInv
  <2>1. part = "reads" /\ ReadsInv /\ AnswerInv
    BY DEF ReadQueryInv, PartsNext, partsVars
  <2>2. CASE Reads!Next
    <3>1. /\ ReadsInv'
          /\ \/ request' = None \/ result' = None
             \/ /\ request' \in Reads!Request /\ Answered(request', result')
                /\ cleared' = cleared /\ clock' = clock
      BY <2>1, <2>2, ReadsNext
    <3>2. ASSUME request' # None, result' # None
          PROVE  Answered(request, result)'
      <4>1. Answered(request', result') /\ cleared' = cleared /\ clock' = clock
        BY <3>1, <3>2
      <4> QED
        BY <4>1, Zenon DEF Answered, Reads!Fetched
    <3> QED
      BY <3>1, <3>2, Zenon DEF AnswerInv
  <2>3. CASE UNCHANGED readsVars
    <3>1. /\ shared' = shared /\ files' = files /\ request' = request /\ result' = result
          /\ cleared' = cleared /\ reads' = reads /\ clock' = clock
      BY <2>3 DEF readsVars
    <3>2. ReadsInv'
      BY <2>1, <3>1 DEF ReadsInv, Reads!TypeOK, MemoryInv, ReadFilesInv, EntryFits
    <3>3. AnswerInv'
      BY <2>1, <3>1, Zenon DEF AnswerInv, Answered, Reads!Fetched
    <3> QED
      BY <3>2, <3>3
  <2> QED
    BY <2>1, <2>2, <2>3 DEF PartsNext, partsVars
<1>3. ReadQueryInv => ResultIsRight
  BY AnswersAreRight DEF ReadQueryInv, ResultIsRight
<1> QED
  BY <1>1, <1>2, <1>3, PTL DEF PartsSpec

-----------------------------------------------------------------------------
(* The folder of a cached function.                                        *)

SweptTypeOK ==
  /\ disk \in [Swept!Place -> Swept!File \cup {None}]
  /\ suffixes \in [Process -> Swept!Store \cup {None}]
  /\ memory \in [Process -> SUBSET Nat]
  /\ latest \in [Key -> Swept!Value \cup {None}]
  /\ moment \in Nat
  /\ puts \in Nat

\* The files are of values that their format takes, and data frames are of a backend.
FormatInv ==
  /\ \A p \in Process : suffixes[p] # None /\ suffixes[p].suffix = ".parquet" => suffixes[p].backend \in Swept!Frames
  /\ \A k \in Key :
       /\ Swept!There(<<k, ".npz">>) => disk[<<k, ".npz">>].value.kind \in {"arrays", "empty", "pandas"}
       /\ Swept!There(<<k, ".parquet">>) => disk[<<k, ".parquet">>].value.kind \in Swept!Frames

\* As long as there were no two suffixes there are none, and the file of a key is what was put last.
OneSuffixInv ==
  ~mixed =>
    /\ \A a, b \in Swept!Place : Swept!There(a) /\ Swept!There(b) => a[2] = b[2]
    /\ \A p \in Process, a \in Swept!Place : suffixes[p] # None /\ Swept!There(a) => suffixes[p].suffix = a[2]
    /\ \A a \in Swept!Place : Swept!There(a) => latest[a[1]] = disk[a].value

\* What was put last and not deleted has a file.
LatestInv == \A k \in Key : latest[k] # None => \E s \in Swept!Suffix : Swept!There(<<k, s>>)

\* What a sweep is to clear is still before it, or gone.
SweepInv ==
  sweep # None =>
    /\ sweep.by \in Process
    /\ sweep.began \in 0 .. puts
    /\ \A a \in Swept!Place :
         Swept!There(a) /\ Swept!Matches(a, sweep.filter) /\ disk[a].value.number <= sweep.began =>
           \/ a \in sweep.left
           \/ sweep.filter.ttl # None /\ ~(sweep.at - disk[a].at > sweep.filter.ttl)
    /\ \A number \in memory[sweep.by] : number > sweep.began

SweptInv == SweptTypeOK /\ FormatInv /\ OneSuffixInv /\ LatestInv /\ SweepInv

LEMMA SweptConstants ==
  /\ Kind \subseteq Swept!Kinds
  /\ Limit \subseteq Nat \cup {None}
  /\ None # "FileNotFoundError"
  /\ None \notin Swept!Read /\ None \notin Swept!Value /\ None \notin Swept!File /\ None \notin Swept!Store
<1>1. Swept!Value \subseteq Swept!Read
  BY DEF Swept!Value, Swept!Read
<1> QED
  BY <1>1, Assumptions DEF Swept!CacheFolderAssumption

LEMMA SweptInit ==
  ASSUME Swept!FolderInit
  PROVE  SweptInv
<1>1. SweptTypeOK
  BY DEF Swept!FolderInit, SweptTypeOK
<1> QED
  BY <1>1 DEF Swept!FolderInit, SweptInv, FormatInv, OneSuffixInv, LatestInv, SweepInv, Swept!There, Swept!Place, Swept!Suffix

\* The store that a put of a value of some kind goes through.
StoreFor(p, kind) ==
  IF suffixes[p] = None
  THEN [suffix |-> Swept!InferSuffix(kind), backend |-> Swept!BackendOf(Swept!InferSuffix(kind), kind)]
  ELSE suffixes[p]

LEMMA InferredSuffix ==
  ASSUME NEW kind \in Swept!Kinds
  PROVE  /\ Swept!InferSuffix(kind) \in Swept!Suffix
         /\ Swept!InferSuffix(kind) = ".parquet" <=> kind \in Swept!Frames
         /\ Swept!InferSuffix(kind) = ".npy" <=> kind \in {"array", "objects"}
         /\ Swept!InferSuffix(kind) = ".npz" <=> kind \in {"arrays", "empty"}
         /\ Swept!InferSuffix(kind) = ".pkl" <=> kind = "other"
BY DEF Swept!InferSuffix, Swept!Suffix, Swept!Frames, Swept!Kinds

LEMMA StoreForKind ==
  ASSUME SweptTypeOK, FormatInv, NEW p \in Process, NEW kind \in Swept!Kinds
  PROVE  /\ StoreFor(p, kind) \in Swept!Store
         /\ StoreFor(p, kind) # None
         /\ StoreFor(p, kind).suffix = ".parquet" => StoreFor(p, kind).backend \in Swept!Frames
         /\ ~Swept!Takes(StoreFor(p, kind), kind) => StoreFor(p, kind) = suffixes[p]
         /\ Swept!Takes(StoreFor(p, kind), kind) =>
              /\ StoreFor(p, kind).suffix = ".npz" => kind \in {"arrays", "empty", "pandas"}
              /\ StoreFor(p, kind).suffix = ".parquet" => kind \in Swept!Frames
<1> DEFINE s == StoreFor(p, kind)
<1>1. CASE suffixes[p] = None
  <2>1. s = [suffix |-> Swept!InferSuffix(kind), backend |-> Swept!BackendOf(Swept!InferSuffix(kind), kind)]
    BY <1>1 DEF StoreFor
  <2>2. s \in Swept!Store /\ (s.suffix = ".parquet" => s.backend \in Swept!Frames)
    BY <2>1, InferredSuffix DEF Swept!Store, Swept!BackendOf
  <2>3. Swept!Takes(s, kind)
    <3>1. /\ s.suffix \in Swept!Suffix
          /\ s.suffix = ".npz" => kind \in {"arrays", "empty"}
          /\ s.suffix = ".parquet" => s.backend = kind
      BY <2>1, InferredSuffix DEF Swept!BackendOf
    <3> HIDE DEF s
    <3>2. CASE s.suffix \in {".pkl", ".npy"}
      BY <3>2 DEF Swept!Takes
    <3>3. CASE s.suffix = ".npz"
      BY <3>1, <3>3 DEF Swept!Takes
    <3>4. CASE s.suffix = ".parquet"
      BY <3>1, <3>4 DEF Swept!Takes
    <3> QED
      BY <3>1, <3>2, <3>3, <3>4 DEF Swept!Suffix
  <2>4. s.suffix = ".npz" => kind \in {"arrays", "empty", "pandas"}
    BY <2>1, InferredSuffix
  <2>5. s.suffix = ".parquet" => kind \in Swept!Frames
    BY <2>1, InferredSuffix
  <2> HIDE DEF s
  <2> QED
    BY <2>2, <2>3, <2>4, <2>5, SweptConstants DEF s
<1>2. CASE suffixes[p] # None
  <2>1. s = suffixes[p] /\ s \in Swept!Store /\ (s.suffix = ".parquet" => s.backend \in Swept!Frames)
    BY <1>2 DEF StoreFor, SweptTypeOK, FormatInv
  <2>2. Swept!Takes(s, kind) =>
           /\ s.suffix = ".npz" => kind \in {"arrays", "empty", "pandas"}
           /\ s.suffix = ".parquet" => kind \in Swept!Frames
    BY <2>1 DEF Swept!Takes
  <2> QED
    BY <1>2, <2>1, <2>2
<1> QED
  BY <1>1, <1>2

LEMMA PutKeeps ==
  ASSUME SweptInv, NEW p \in Process, NEW k \in Key, NEW kind \in Kind, Swept!Put(p, k, kind)
  PROVE  SweptInv'
<1> DEFINE s == StoreFor(p, kind)
           v == [kind |-> kind, number |-> puts + 1]
           f == [value |-> v, at |-> moment]
<1>1. SweptTypeOK /\ FormatInv /\ OneSuffixInv /\ LatestInv /\ SweepInv /\ puts \in Nat /\ moment \in Nat
  BY DEF SweptInv, SweptTypeOK
<1>2. /\ puts' = puts + 1
      /\ suffixes' = [suffixes EXCEPT ![p] = s]
      /\ IF Swept!Takes(s, kind)
         THEN /\ disk' = [disk EXCEPT ![<<k, s.suffix>>] = f]
              /\ latest' = [latest EXCEPT ![k] = v]
              /\ mixed' = (mixed \/ Swept!Other(s.suffix))
         ELSE UNCHANGED <<disk, latest, mixed>>
      /\ UNCHANGED <<memory, sweep, moment>>
  BY DEF Swept!Put, StoreFor
<1>0. kind \in Swept!Kinds
  BY SweptConstants
<1>3. /\ s \in Swept!Store /\ s # None
      /\ s.suffix = ".parquet" => s.backend \in Swept!Frames
      /\ ~Swept!Takes(s, kind) => s = suffixes[p]
      /\ Swept!Takes(s, kind) =>
           /\ s.suffix = ".npz" => kind \in {"arrays", "empty", "pandas"}
           /\ s.suffix = ".parquet" => kind \in Swept!Frames
  BY <1>0, <1>1, StoreForKind
<1>4. v \in Swept!Value /\ f \in Swept!File /\ v # None /\ f # None /\ v.number = puts + 1 /\ v.kind = kind /\ f.value = v
  BY <1>0, <1>1, SweptConstants DEF Swept!Value, Swept!File
<1> HIDE DEF s, v, f
<1>5. CASE ~Swept!Takes(s, kind)
  <2>1. UNCHANGED <<disk, latest, mixed, suffixes, memory, sweep, moment>>
    BY <1>1, <1>2, <1>3, <1>5 DEF SweptTypeOK
  <2> QED
    BY <1>1, <1>2, <2>1 DEF SweptInv, SweptTypeOK, FormatInv, OneSuffixInv, LatestInv, SweepInv, Swept!There
<1>6. CASE Swept!Takes(s, kind)
  <2> DEFINE q == <<k, s.suffix>>
  <2>1. q \in Swept!Place
    BY <1>3 DEF Swept!Place, Swept!Store
  <2>2. /\ \A a \in Swept!Place : disk'[a] = IF a = q THEN f ELSE disk[a]
        /\ \A a \in Swept!Place : Swept!There(a)' <=> a = q \/ Swept!There(a)
        /\ \A j \in Key : latest'[j] = IF j = k THEN v ELSE latest[j]
        /\ \A r \in Process : suffixes'[r] = IF r = p THEN s ELSE suffixes[r]
    BY <1>1, <1>2, <1>4, <1>6, <2>1 DEF SweptTypeOK, Swept!There
  <2>3. SweptTypeOK'
    BY <1>1, <1>2, <1>3, <1>4, <1>6, <2>1 DEF SweptTypeOK
  <2>4. FormatInv'
    <3>1. \A r \in Process : suffixes'[r] # None /\ suffixes'[r].suffix = ".parquet" => suffixes'[r].backend \in Swept!Frames
      BY <1>1, <1>3, <2>2 DEF FormatInv
    <3>2. ASSUME NEW j \in Key
          PROVE  /\ Swept!There(<<j, ".npz">>)' => disk'[<<j, ".npz">>].value.kind \in {"arrays", "empty", "pandas"}
                 /\ Swept!There(<<j, ".parquet">>)' => disk'[<<j, ".parquet">>].value.kind \in Swept!Frames
      <4>1. <<j, ".npz">> \in Swept!Place /\ <<j, ".parquet">> \in Swept!Place
        BY DEF Swept!Place, Swept!Suffix
      <4> QED
        BY <1>1, <1>3, <1>4, <1>6, <2>2, <4>1 DEF FormatInv
    <3> QED
      BY <3>1, <3>2 DEF FormatInv
  <2>5. OneSuffixInv'
    <3> SUFFICES ASSUME ~mixed' PROVE OneSuffixInv'
      BY DEF OneSuffixInv
    <3>1. /\ ~mixed
          /\ \A a \in Swept!Place : Swept!There(a) => a[2] = s.suffix
          /\ \A r \in Process : suffixes[r] # None => suffixes[r].suffix = s.suffix
      BY <1>2, <1>6 DEF Swept!Other
    <3>2. \A a \in Swept!Place : Swept!There(a)' => a[2] = s.suffix
      BY <2>2, <3>1
    <3>3. \A r \in Process : suffixes'[r] # None => suffixes'[r].suffix = s.suffix
      BY <2>2, <3>1
    <3>4. ASSUME NEW a \in Swept!Place, Swept!There(a)' PROVE latest'[a[1]] = disk'[a].value
      <4>1. CASE a[1] = k
        <5>1. a = q
          BY <3>2, <3>4, <4>1 DEF Swept!Place
        <5> QED
          BY <1>4, <2>2, <4>1, <5>1
      <4>2. CASE a[1] # k
        <5>1. a # q /\ a[1] \in Key
          BY <4>2 DEF Swept!Place
        <5>2. Swept!There(a)
          BY <2>2, <3>4, <5>1
        <5>3. latest[a[1]] = disk[a].value
          BY <1>1, <3>1, <5>2 DEF OneSuffixInv
        <5> QED
          BY <2>2, <4>2, <5>1, <5>3
      <4> QED
        BY <4>1, <4>2
    <3> QED
      BY <3>2, <3>3, <3>4 DEF OneSuffixInv
  <2>6. LatestInv'
    <3> SUFFICES ASSUME NEW j \in Key, latest'[j] # None
                 PROVE  \E t \in Swept!Suffix : Swept!There(<<j, t>>)'
      BY DEF LatestInv
    <3>1. CASE j = k
      BY <1>3, <2>1, <2>2, <3>1 DEF Swept!Store
    <3>2. CASE j # k
      <4>1. PICK t \in Swept!Suffix : Swept!There(<<j, t>>)
        BY <1>1, <2>2, <3>2 DEF LatestInv
      <4>2. <<j, t>> \in Swept!Place
        BY DEF Swept!Place
      <4> QED
        BY <2>2, <4>1, <4>2
    <3> QED
      BY <3>1, <3>2
  <2>7. SweepInv'
    <3> SUFFICES ASSUME sweep # None PROVE SweepInv'
      BY <1>2 DEF SweepInv
    <3>1. sweep' = sweep /\ memory' = memory /\ puts' = puts + 1 /\ sweep.began \in 0 .. puts
      BY <1>1, <1>2 DEF SweepInv
    <3>2. ASSUME NEW a \in Swept!Place, Swept!There(a)', Swept!Matches(a, sweep.filter), disk'[a].value.number <= sweep.began
          PROVE  \/ a \in sweep.left
                 \/ sweep.filter.ttl # None /\ ~(sweep.at - disk'[a].at > sweep.filter.ttl)
      <4>1. a # q
        BY <1>1, <1>4, <2>2, <3>1, <3>2
      <4> QED
        BY <1>1, <2>2, <3>2, <4>1 DEF SweepInv
    <3> QED
      BY <1>1, <3>1, <3>2 DEF SweepInv, Swept!Matches
  <2> QED
    BY <2>3, <2>4, <2>5, <2>6, <2>7 DEF SweptInv
<1> QED
  BY <1>5, <1>6

(* Files go: the others stay as they are. *)
LEMMA WithoutKeeps ==
  ASSUME SweptInv, NEW gone, Swept!Without(gone), suffixes' = suffixes, mixed' = mixed
  PROVE  /\ disk' \in [Swept!Place -> Swept!File \cup {None}]
         /\ latest' \in [Key -> Swept!Value \cup {None}]
         /\ FormatInv' /\ OneSuffixInv' /\ LatestInv'
         /\ \A a \in Swept!Place : Swept!There(a)' => Swept!There(a) /\ a \notin gone /\ disk'[a] = disk[a]
<1>0. SweptTypeOK /\ FormatInv /\ OneSuffixInv /\ LatestInv
  BY DEF SweptInv
<1>1. /\ disk' = [a \in Swept!Place |-> IF a \in gone THEN None ELSE disk[a]]
      /\ latest' = [k \in Key |-> IF \A a \in Swept!Place : a[1] = k => disk'[a] = None THEN None ELSE latest[k]]
  BY DEF Swept!Without
<1>2. disk' \in [Swept!Place -> Swept!File \cup {None}]
  BY <1>0, <1>1 DEF SweptTypeOK
<1>3. latest' \in [Key -> Swept!Value \cup {None}]
  BY <1>0, <1>1 DEF SweptTypeOK
<1>4. \A a \in Swept!Place : Swept!There(a)' => Swept!There(a) /\ a \notin gone /\ disk'[a] = disk[a]
  BY <1>1 DEF Swept!There
<1>5. FormatInv'
  <2>1. \A j \in Key : <<j, ".npz">> \in Swept!Place /\ <<j, ".parquet">> \in Swept!Place
    BY DEF Swept!Place, Swept!Suffix
  <2> QED
    BY <1>0, <1>4, <2>1 DEF FormatInv
<1>6. OneSuffixInv'
  <2> SUFFICES ASSUME ~mixed PROVE OneSuffixInv'
    BY DEF OneSuffixInv
  <2>1. ASSUME NEW a \in Swept!Place, Swept!There(a)' PROVE latest'[a[1]] = disk'[a].value
    <3>1. a[1] \in Key /\ latest[a[1]] = disk[a].value /\ disk'[a] = disk[a]
      BY <1>0, <1>4, <2>1 DEF OneSuffixInv, Swept!Place
    <3>2. latest'[a[1]] = latest[a[1]]
      BY <1>1, <2>1, <3>1 DEF Swept!There
    <3> QED
      BY <3>1, <3>2
  <2> QED
    BY <1>0, <1>4, <2>1 DEF OneSuffixInv
<1>7. LatestInv'
  <2> SUFFICES ASSUME NEW k \in Key, latest'[k] # None
               PROVE  \E s \in Swept!Suffix : Swept!There(<<k, s>>)'
    BY DEF LatestInv
  <2>1. PICK a \in Swept!Place : a[1] = k /\ disk'[a] # None
    BY <1>1
  <2>2. a[2] \in Swept!Suffix /\ a = <<k, a[2]>>
    BY <2>1 DEF Swept!Place
  <2> QED
    BY <2>1, <2>2 DEF Swept!There
<1> QED
  BY <1>2, <1>3, <1>4, <1>5, <1>6, <1>7

(* A sweep under way goes on after what others do. *)
LEMMA SweepGoesOn ==
  ASSUME SweepInv, SweptTypeOK, sweep' = sweep, puts' \in Nat, puts <= puts',
         memory' \in [Process -> SUBSET Nat],
         \A a \in Swept!Place : Swept!There(a)' => Swept!There(a) /\ disk'[a] = disk[a],
         sweep # None => \A number \in memory'[sweep.by] : number \in memory[sweep.by] \/ number > puts
  PROVE  SweepInv'
<1> SUFFICES ASSUME sweep # None PROVE SweepInv'
  BY DEF SweepInv
<1>1. sweep.began \in 0 .. puts' /\ sweep.by \in Process
  BY DEF SweepInv, SweptTypeOK
<1>2. \A number \in memory'[sweep.by] : number > sweep.began
  <2> TAKE number \in memory'[sweep.by]
  <2>1. number \in Nat /\ sweep.began \in 0 .. puts /\ puts \in Nat
    BY <1>1 DEF SweepInv, SweptTypeOK
  <2> QED
    BY <2>1 DEF SweepInv
<1> QED
  BY <1>1, <1>2 DEF SweepInv, Swept!Matches

LEMMA GetKeeps ==
  ASSUME SweptInv, NEW p \in Process, NEW k \in Key, Swept!Get(p, k)
  PROVE  SweptInv'
<1>0. SweptTypeOK /\ FormatInv /\ OneSuffixInv /\ LatestInv /\ SweepInv
  BY DEF SweptInv
<1>1. PICK s \in Swept!FromDisk(p) :
        suffixes' = [suffixes EXCEPT ![p] = s] /\ UNCHANGED <<disk, memory, latest, mixed, sweep, moment, puts, sweeps>>
  BY DEF Swept!Get
<1>2. \/ s = suffixes[p]
      \/ s = None
      \/ \E a \in Swept!Place : Swept!There(a) /\ s = [suffix |-> a[2], backend |-> Swept!DefaultBackend(a[2])]
  BY <1>1 DEF Swept!FromDisk
<1>3. /\ s \in Swept!Store \cup {None}
      /\ s # None /\ s.suffix = ".parquet" => s.backend \in Swept!Frames
      /\ ~mixed /\ s # None => \A a \in Swept!Place : Swept!There(a) => s.suffix = a[2]
  <2>1. CASE s = suffixes[p] \/ s = None
    BY <1>0, <2>1 DEF SweptTypeOK, FormatInv, OneSuffixInv
  <2>2. CASE \E a \in Swept!Place : Swept!There(a) /\ s = [suffix |-> a[2], backend |-> Swept!DefaultBackend(a[2])]
    <3>1. PICK b \in Swept!Place : Swept!There(b) /\ s = [suffix |-> b[2], backend |-> Swept!DefaultBackend(b[2])]
      BY <2>2
    <3>2. b[2] \in Swept!Suffix /\ s.suffix = b[2]
      BY <3>1 DEF Swept!Place
    <3>3. s \in Swept!Store /\ (s.suffix = ".parquet" => s.backend \in Swept!Frames)
      BY <3>1, <3>2 DEF Swept!Store, Swept!DefaultBackend, Swept!Frames
    <3> QED
      BY <1>0, <3>1, <3>2, <3>3 DEF OneSuffixInv
  <2> QED
    BY <1>2, <2>1, <2>2
<1>4. \A r \in Process : suffixes'[r] = IF r = p THEN s ELSE suffixes[r]
  BY <1>0, <1>1 DEF SweptTypeOK
<1>5. SweptTypeOK'
  BY <1>0, <1>1, <1>3 DEF SweptTypeOK
<1>6. FormatInv'
  BY <1>0, <1>1, <1>3, <1>4 DEF FormatInv, Swept!There
<1>7. OneSuffixInv'
  BY <1>0, <1>1, <1>3, <1>4 DEF OneSuffixInv, Swept!There
<1>8. LatestInv' /\ SweepInv'
  BY <1>0, <1>1 DEF LatestInv, SweepInv, Swept!There, Swept!Matches
<1> QED
  BY <1>5, <1>6, <1>7, <1>8 DEF SweptInv

LEMMA OthersKeepFolder ==
  ASSUME SweptInv, NEW p \in Process,
         \/ \E k \in Key : Swept!Delete(p, k)
         \/ Swept!Remember(p) \/ Swept!Restart(p)
  PROVE  SweptInv'
<1>0. SweptTypeOK /\ FormatInv /\ OneSuffixInv /\ LatestInv /\ SweepInv /\ puts \in Nat
  BY DEF SweptInv, SweptTypeOK
<1>1. ASSUME NEW k \in Key, Swept!Delete(p, k) PROVE SweptInv'
  <2>1. UNCHANGED <<suffixes, memory, mixed, sweep, moment, puts, sweeps>>
    BY <1>1 DEF Swept!Delete
  <2>2. PICK gone : Swept!Without(gone)
    BY <1>1 DEF Swept!Delete
  <2>3. SweptTypeOK' /\ FormatInv' /\ OneSuffixInv' /\ LatestInv'
    BY <1>0, <2>1, <2>2, WithoutKeeps DEF SweptTypeOK
  <2>4. SweepInv'
    BY <1>0, <2>1, <2>2, WithoutKeeps, SweepGoesOn DEF SweptTypeOK
  <2> QED
    BY <2>3, <2>4 DEF SweptInv
<1>2. CASE Swept!Remember(p)
  <2>1. /\ puts' = puts + 1 /\ memory' = [memory EXCEPT ![p] = @ \cup {puts + 1}]
        /\ UNCHANGED <<disk, suffixes, latest, mixed, sweep, moment>>
    BY <1>2 DEF Swept!Remember
  <2>2. SweptTypeOK'
    BY <1>0, <2>1 DEF SweptTypeOK
  <2>3. FormatInv' /\ OneSuffixInv' /\ LatestInv'
    BY <1>0, <2>1 DEF FormatInv, OneSuffixInv, LatestInv, Swept!There
  <2>4. ASSUME sweep # None, NEW number \in memory'[sweep.by]
        PROVE  number \in memory[sweep.by] \/ number > puts
    BY <1>0, <2>1, <2>4 DEF SweptTypeOK
  <2>5. SweepInv'
    BY <1>0, <2>1, <2>2, <2>4, SweepGoesOn DEF Swept!There, SweptTypeOK
  <2> QED
    BY <2>2, <2>3, <2>5 DEF SweptInv
<1>3. CASE Swept!Restart(p)
  <2>1. /\ suffixes' = [suffixes EXCEPT ![p] = None] /\ memory' = [memory EXCEPT ![p] = {}]
        /\ sweep' = None \/ sweep' = sweep
        /\ UNCHANGED <<disk, latest, mixed, moment, puts, sweeps>>
    BY <1>3 DEF Swept!Restart
  <2>2. SweptTypeOK'
    BY <1>0, <2>1 DEF SweptTypeOK
  <2>3. \A r \in Process : suffixes'[r] = None \/ suffixes'[r] = suffixes[r]
    BY <1>0, <2>1 DEF SweptTypeOK
  <2>4. FormatInv' /\ LatestInv'
    BY <1>0, <2>1, <2>3 DEF FormatInv, LatestInv, Swept!There
  <2>5. OneSuffixInv'
    BY <1>0, <2>1, <2>3 DEF OneSuffixInv, Swept!There
  <2>6. SweepInv'
    <3>1. CASE sweep' = None
      BY <3>1 DEF SweepInv
    <3>2. CASE sweep' = sweep
      BY <1>0, <2>1, <2>2, <3>2, SweepGoesOn DEF Swept!There, SweptTypeOK
    <3> QED
      BY <2>1, <3>1, <3>2
  <2> QED
    BY <2>2, <2>4, <2>5, <2>6 DEF SweptInv
<1> QED
  BY <1>1, <1>2, <1>3

\* A lookup through a store s gives got for the value that was put.
Serves(s, put, got) ==
  /\ got # None /\ got.number = put.number
  /\ s.suffix \in {".pkl", Swept!InferSuffix(put.kind)} =>
       got.kind \in IF put.kind = "objects" THEN {"objects", "raises"}
                    ELSE IF put.kind \in Swept!Frames THEN Swept!Frames ELSE {put.kind}
  /\ s.suffix \notin {".pkl", Swept!InferSuffix(put.kind)} => got.kind \in {"array", "arrays", "raises"}

LEMMA ReadBackFits ==
  ASSUME NEW s \in Swept!Store, s.suffix = ".parquet" => s.backend \in Swept!Frames,
         NEW v \in Swept!Value,
         s.suffix = ".npz" => v.kind \in {"arrays", "empty", "pandas"},
         s.suffix = ".parquet" => v.kind \in Swept!Frames
  PROVE  Serves(s, v, Swept!ReadBack(s, v))
<1> DEFINE got == Swept!ReadBack(s, v)
<1>0. v = [kind |-> v.kind, number |-> v.number] /\ v.kind \in Swept!Kinds /\ v.number \in Nat /\ s.suffix \in Swept!Suffix
  BY DEF Swept!Value, Swept!Store
<1>1. CASE s.suffix = ".pkl"
  <2>1. got = v
    BY <1>1 DEF Swept!ReadBack
  <2> QED
    BY <1>0, <1>1, <2>1, SweptConstants DEF Serves
<1>2. CASE s.suffix = ".npy"
  <2>1. got = [v EXCEPT !.kind = IF v.kind \in Swept!Frames \cup {"array"} THEN "array" ELSE "raises"]
    BY <1>2 DEF Swept!ReadBack
  <2>2. got.number = v.number /\ got.kind = IF v.kind \in Swept!Frames \cup {"array"} THEN "array" ELSE "raises"
    BY <1>0, <2>1
  <2>3. got \in Swept!Read
    BY <1>0, <2>1 DEF Swept!Read, Swept!Kinds
  <2>4. s.suffix = Swept!InferSuffix(v.kind) <=> v.kind \in {"array", "objects"}
    BY <1>0, <1>2, InferredSuffix
  <2> HIDE DEF got
  <2>5. Serves(s, v, got)
    BY <1>2, <2>2, <2>3, <2>4, SweptConstants DEF Swept!Frames, Serves
  <2> QED
    BY <2>5 DEF got
<1>3. CASE s.suffix = ".npz"
  <2>1. got = [v EXCEPT !.kind = IF v.kind = "pandas" THEN "arrays" ELSE v.kind]
    BY <1>3 DEF Swept!ReadBack
  <2>2. got.number = v.number /\ got.kind = IF v.kind = "pandas" THEN "arrays" ELSE v.kind
    BY <1>0, <2>1
  <2>3. got \in Swept!Read
    BY <1>0, <2>1 DEF Swept!Read, Swept!Kinds
  <2>4. s.suffix = Swept!InferSuffix(v.kind) <=> v.kind \in {"arrays", "empty"}
    BY <1>0, <1>3, InferredSuffix
  <2> HIDE DEF got
  <2>5. Serves(s, v, got)
    BY <1>3, <2>2, <2>3, <2>4, SweptConstants DEF Swept!Frames, Serves
  <2> QED
    BY <2>5 DEF got
<1>4. CASE s.suffix = ".parquet"
  <2>1. got = [v EXCEPT !.kind = s.backend]
    BY <1>4 DEF Swept!ReadBack
  <2>2. got.number = v.number /\ got.kind = s.backend
    BY <1>0, <2>1
  <2>3. got \in Swept!Read
    BY <1>0, <1>4, <2>1 DEF Swept!Read, Swept!Kinds
  <2>4. s.suffix = Swept!InferSuffix(v.kind)
    BY <1>0, <1>4, InferredSuffix
  <2> HIDE DEF got
  <2>5. Serves(s, v, got)
    BY <1>4, <2>2, <2>3, <2>4, SweptConstants DEF Swept!Frames, Serves
  <2> QED
    BY <2>5 DEF got
<1> QED
  BY <1>0, <1>1, <1>2, <1>3, <1>4 DEF Swept!Suffix

LEMMA ClearCacheKeeps ==
  ASSUME SweptInv, NEW p \in Process, NEW filter, NEW given, NEW dry \in BOOLEAN,
         NEW interactive, Swept!ClearCache(p, filter, given, dry, interactive)
  PROVE  /\ SweptInv'
         /\ found' = None
         /\ report' = None \/ report'.dry
<1> DEFINE gone == IF dry THEN {} ELSE Swept!Given(p, given)
           call == Swept!NewSweep(p, filter, gone, dry, interactive)
<1>0. SweptTypeOK /\ FormatInv /\ OneSuffixInv /\ LatestInv /\ SweepInv
  BY DEF SweptInv
<1>1. /\ Swept!Without(gone)
      /\ memory' = IF dry THEN memory ELSE [memory EXCEPT ![p] = {}]
      /\ IF dry THEN Swept!Ended(call, None) ELSE sweep' = call /\ report' = None
      /\ found' = None
      /\ UNCHANGED <<suffixes, mixed, moment, puts>>
  BY DEF Swept!ClearCache
<1>2. call.by = p /\ call.filter = filter /\ call.left = Swept!Candidates(filter) \ gone /\ call.began = puts /\ call.at = moment
  BY DEF Swept!NewSweep
<1>3. call.dry = dry
  BY DEF Swept!NewSweep
<1> HIDE DEF call, gone
<1>4. /\ disk' \in [Swept!Place -> Swept!File \cup {None}]
      /\ latest' \in [Key -> Swept!Value \cup {None}]
      /\ FormatInv' /\ OneSuffixInv' /\ LatestInv'
      /\ \A a \in Swept!Place : Swept!There(a)' => Swept!There(a) /\ a \notin gone /\ disk'[a] = disk[a]
  BY <1>1, WithoutKeeps
<1>5. SweptTypeOK'
  BY <1>0, <1>1, <1>4 DEF SweptTypeOK
<1>6. CASE dry
  <2>1. sweep' = None /\ report'.dry = call.dry
    BY <1>1, <1>6 DEF Swept!Ended
  <2>2. SweepInv'
    BY <2>1 DEF SweepInv
  <2>3. report'.dry
    BY <1>3, <1>6, <2>1, Zenon
  <2> QED
    BY <1>1, <1>4, <1>5, <2>2, <2>3 DEF SweptInv
<1>7. CASE ~dry
  <2>1. sweep' = call /\ report' = None /\ memory' = [memory EXCEPT ![p] = {}]
    BY <1>1, <1>7
  <2>2. ASSUME NEW a \in Swept!Place, Swept!There(a)', Swept!Matches(a, filter)
        PROVE  a \in call.left \/ (filter.ttl # None /\ ~(moment - disk'[a].at > filter.ttl))
    <3>1. Swept!There(a) /\ a \notin gone /\ disk'[a] = disk[a]
      BY <1>4, <2>2
    <3> QED
      BY <1>2, <2>2, <3>1 DEF Swept!Candidates
  <2>3. memory'[p] = {} /\ puts \in 0 .. puts' /\ puts' = puts
    BY <1>0, <1>1, <2>1 DEF SweptTypeOK
  <2>4. SweepInv'
    BY <1>2, <2>1, <2>2, <2>3 DEF SweepInv, Swept!Matches
  <2> QED
    BY <1>1, <1>4, <1>5, <2>1, <2>4 DEF SweptInv
<1> QED
  BY <1>6, <1>7

LEMMA ListingKeeps ==
  ASSUME SweptInv, NEW p \in Process, NEW filter, NEW given, NEW interactive,
         Swept!ListingRaises(p, filter, given, interactive)
  PROVE  SweptInv' /\ found' = None /\ Swept!ClearedIsGone'
<1>0. SweptTypeOK /\ FormatInv /\ OneSuffixInv /\ LatestInv /\ SweepInv
  BY DEF SweptInv
<1>1. PICK gone, call : /\ Swept!Without(gone) /\ Swept!Ended(call, "FileNotFoundError")
                        /\ memory' = [memory EXCEPT ![p] = {}] /\ found' = None
                        /\ UNCHANGED <<suffixes, mixed, moment, puts>>
  BY Zenon DEF Swept!ListingRaises
<1>2. /\ disk' \in [Swept!Place -> Swept!File \cup {None}]
      /\ latest' \in [Key -> Swept!Value \cup {None}]
      /\ FormatInv' /\ OneSuffixInv' /\ LatestInv'
  BY <1>0, <1>1, WithoutKeeps
<1>3. SweptTypeOK'
  BY <1>0, <1>1, <1>2 DEF SweptTypeOK
<1>4. sweep' = None /\ report'.error = "FileNotFoundError"
  BY <1>1 DEF Swept!Ended
<1> QED
  BY <1>1, <1>2, <1>3, <1>4, SweptConstants DEF SweptInv, SweepInv, Swept!ClearedIsGone

LEMMA SweepKeeps ==
  ASSUME SweptInv, Swept!Sweep
  PROVE  SweptInv' /\ found' = None /\ Swept!ClearedIsGone'
<1>0. SweptTypeOK /\ FormatInv /\ OneSuffixInv /\ LatestInv /\ SweepInv
  BY DEF SweptInv
<1>1. sweep # None /\ found' = None /\ UNCHANGED <<suffixes, memory, mixed, moment, puts, sweeps>>
  BY DEF Swept!Sweep
<1>2. CASE sweep.left = {} /\ Swept!Ended(sweep, None) /\ UNCHANGED <<disk, latest>>
  <2>1. sweep' = None /\ UNCHANGED <<disk, latest, suffixes, memory, mixed, moment, puts>>
    BY <1>1, <1>2 DEF Swept!Ended
  <2>2. SweptInv'
    BY <1>0, <2>1 DEF SweptInv, SweptTypeOK, FormatInv, OneSuffixInv, LatestInv, SweepInv, Swept!There
  <2>3. report'.by = sweep.by /\ report'.filter = sweep.filter /\ report'.began = sweep.began /\ report'.at = sweep.at
    BY <1>2 DEF Swept!Ended
  <2>4. \A a \in Swept!Place :
          Swept!There(a)' /\ Swept!Matches(a, report'.filter) /\ disk'[a].value.number <= report'.began =>
            report'.filter.ttl # None /\ ~(report'.at - disk'[a].at > report'.filter.ttl)
    BY <1>0, <1>1, <1>2, <2>3 DEF SweepInv, Swept!There
  <2>5. \A number \in memory'[report'.by] : number > report'.began
    BY <1>0, <1>1, <2>3 DEF SweepInv
  <2> QED
    BY <1>1, <2>2, <2>4, <2>5, Zenon DEF Swept!ClearedIsGone, Swept!Matches
<1>3. ASSUME NEW place \in sweep.left, Swept!Unlink(place)
      PROVE  SweptInv' /\ Swept!ClearedIsGone'
  <2>0. Swept!Without({place}) /\ sweep' = [sweep EXCEPT !.left = @ \ {place}] /\ report' = None
    BY <1>3 DEF Swept!Unlink
  <2>1. /\ FormatInv' /\ OneSuffixInv' /\ LatestInv' /\ SweptTypeOK'
        /\ \A a \in Swept!Place : Swept!There(a)' => Swept!There(a) /\ a # place /\ disk'[a] = disk[a]
    BY <1>0, <1>1, <2>0, WithoutKeeps DEF SweptTypeOK
  <2>2. /\ sweep'.left = sweep.left \ {place} /\ sweep'.by = sweep.by /\ sweep'.filter = sweep.filter
        /\ sweep'.began = sweep.began /\ sweep'.at = sweep.at
    BY <2>0
  <2>3. SweepInv'
    BY <1>0, <1>1, <2>1, <2>2 DEF SweepInv, Swept!Matches
  <2> QED
    BY <2>0, <2>1, <2>3 DEF SweptInv, Swept!ClearedIsGone
<1>4. ASSUME NEW place \in sweep.left, Swept!UnlinkRaises(place)
      PROVE  SweptInv' /\ Swept!ClearedIsGone'
  <2>1. sweep' = None /\ report'.error = "FileNotFoundError" /\ UNCHANGED <<disk, latest, suffixes, memory, mixed, moment, puts>>
    BY <1>1, <1>4 DEF Swept!UnlinkRaises, Swept!Ended
  <2>2. SweptInv'
    BY <1>0, <2>1 DEF SweptInv, SweptTypeOK, FormatInv, OneSuffixInv, LatestInv, SweepInv, Swept!There
  <2> QED
    BY <1>1, <2>1, <2>2, SweptConstants DEF Swept!ClearedIsGone
<1> QED
  BY <1>1, <1>2, <1>3, <1>4 DEF Swept!Sweep

(* A lookup gives what was put last. *)
LEMMA GetServes ==
  ASSUME SweptInv, NEW p \in Process, NEW k \in Key, Swept!Get(p, k)
  PROVE  Swept!LastPutIsServed' /\ report' = None
<1>0. SweptTypeOK /\ FormatInv /\ OneSuffixInv /\ LatestInv
  BY DEF SweptInv
<1> DEFINE put == latest[k]
<1>1. PICK s \in Swept!FromDisk(p) :
        found' = Swept!Lookup(s, k) /\ report' = None /\ latest' = latest /\ mixed' = mixed
  BY DEF Swept!Get
<1>2. found'.key = k /\ found'.store = s
      /\ found'.got = IF s # None /\ Swept!There(<<k, s.suffix>>)
                       THEN Swept!ReadBack(s, disk[<<k, s.suffix>>].value) ELSE None
  BY <1>1 DEF Swept!Lookup
<1>3. ASSUME ~mixed, put = None
      PROVE  found'.got = None
  <2>1. \A t \in Swept!Suffix : ~Swept!There(<<k, t>>)
    <3>1. ASSUME NEW t \in Swept!Suffix, Swept!There(<<k, t>>) PROVE FALSE
      <4>1. <<k, t>> \in Swept!Place
        BY DEF Swept!Place
      <4>2. disk[<<k, t>>].value = None /\ disk[<<k, t>>] \in Swept!File
        BY <1>0, <1>3, <3>1, <4>1 DEF OneSuffixInv, SweptTypeOK, Swept!There
      <4> QED
        BY <4>2, SweptConstants DEF Swept!File
    <3> QED
      BY <3>1
  <2>2. s # None => s.suffix \in Swept!Suffix
    BY <1>0, <1>1 DEF Swept!FromDisk, SweptTypeOK, Swept!Store, Swept!Place
  <2> QED
    BY <1>2, <2>1, <2>2
<1>4. ASSUME ~mixed, put # None
      PROVE  Serves(s, put, found'.got)
  <2>1. PICK t \in Swept!Suffix : Swept!There(<<k, t>>)
    BY <1>0, <1>4 DEF LatestInv
  <2>2. <<k, t>> \in Swept!Place /\ <<k, t>>[2] = t /\ <<k, t>>[1] = k
    BY DEF Swept!Place
  <2>3. \A a \in Swept!Place : Swept!There(a) => a[2] = t
    BY <1>0, <1>4, <2>1, <2>2 DEF OneSuffixInv
  <2>4. s \in Swept!Store /\ s.suffix = t /\ (t = ".parquet" => s.backend \in Swept!Frames)
    <3>1. CASE suffixes[p] # None
      BY <1>0, <1>1, <1>4, <2>1, <2>2, <3>1 DEF Swept!FromDisk, OneSuffixInv, SweptTypeOK, FormatInv
    <3>2. CASE suffixes[p] = None
      <4> DEFINE order == [u \in Swept!Suffix |-> CASE u = ".npy" -> 1 [] u = ".npz" -> 2 [] u = ".parquet" -> 3 [] u = ".pkl" -> 4]
                 firsts == {place \in Swept!Place : Swept!There(place) /\ \A u \in Swept!Suffix : Swept!There(<<place[1], u>>) => order[place[2]] <= order[u]}
      <4>1. order[t] \in Nat
        BY DEF Swept!Suffix
      <4>2. \A u \in Swept!Suffix : Swept!There(<<k, u>>) => u = t
        BY <2>3 DEF Swept!Place
      <4>3. s \in IF firsts = {} THEN {None}
                  ELSE {[suffix |-> place[2], backend |-> Swept!DefaultBackend(place[2])] : place \in firsts}
        BY <1>1, <3>2, Zenon DEF Swept!FromDisk
      <4> HIDE DEF order
      <4>4. <<k, t>> \in firsts
        BY <2>1, <2>2, <4>1, <4>2
      <4>5. PICK b \in firsts : s = [suffix |-> b[2], backend |-> Swept!DefaultBackend(b[2])]
        BY <4>3, <4>4
      <4>6. b[2] = t
        BY <2>3
      <4> QED
        BY <4>5, <4>6 DEF Swept!Store, Swept!DefaultBackend, Swept!Frames
    <3> QED
      BY <3>1, <3>2
  <2>5. disk[<<k, t>>] \in Swept!File /\ disk[<<k, t>>].value = put
    BY <1>0, <1>4, <2>1, <2>2 DEF OneSuffixInv, SweptTypeOK, Swept!There
  <2>6. /\ t = ".npz" => put.kind \in {"arrays", "empty", "pandas"}
        /\ t = ".parquet" => put.kind \in Swept!Frames
    BY <1>0, <2>1, <2>5 DEF FormatInv
  <2>7. put \in Swept!Value
    BY <2>5 DEF Swept!File
  <2>8. s # None
    BY <2>4, SweptConstants
  <2>9. found'.got = Swept!ReadBack(s, put)
    BY <1>2, <2>1, <2>4, <2>5, <2>8
  <2> QED
    BY <2>4, <2>6, <2>7, <2>9, ReadBackFits
<1> QED
  BY <1>1, <1>2, <1>3, <1>4, Zenon DEF Swept!LastPutIsServed, Serves

FolderInv == part = "folder" => SweptInv /\ Swept!LastPutIsServed /\ Swept!ClearedIsGone

LEMMA FolderNextKeeps ==
  ASSUME SweptInv, Swept!FolderNext
  PROVE  SweptInv' /\ Swept!LastPutIsServed' /\ Swept!ClearedIsGone'
<1>1. ASSUME found' = None
      PROVE  Swept!LastPutIsServed'
  BY <1>1 DEF Swept!LastPutIsServed
<1>2. ASSUME report' = None \/ report'.dry
      PROVE  Swept!ClearedIsGone'
  BY <1>2 DEF Swept!ClearedIsGone
<1>3. ASSUME NEW p \in Process, NEW k \in Key, Swept!Get(p, k)
      PROVE  SweptInv' /\ Swept!LastPutIsServed' /\ Swept!ClearedIsGone'
  BY <1>2, <1>3, GetKeeps, GetServes
<1>4. ASSUME NEW p \in Process,
             \/ \E k \in Key : Swept!Delete(p, k)
             \/ Swept!Remember(p) \/ Swept!Restart(p)
      PROVE  SweptInv' /\ Swept!LastPutIsServed' /\ Swept!ClearedIsGone'
  <2>1. SweptInv'
    BY <1>4, OthersKeepFolder
  <2>2. found' = None /\ report' = None
    BY <1>4 DEF Swept!Delete, Swept!Remember, Swept!Restart
  <2> QED
    BY <1>1, <1>2, <2>1, <2>2
<1>5. ASSUME NEW p \in Process, NEW k \in Key, NEW kind \in Kind, Swept!Put(p, k, kind)
      PROVE  SweptInv' /\ Swept!LastPutIsServed' /\ Swept!ClearedIsGone'
  <2>1. SweptInv'
    BY <1>5, PutKeeps
  <2>2. found' = None /\ report' = None
    BY <1>5 DEF Swept!Put
  <2> QED
    BY <1>1, <1>2, <2>1, <2>2
<1>6. ASSUME NEW p \in Process, NEW filter, NEW given, NEW dry \in BOOLEAN, NEW interactive,
             Swept!ClearCache(p, filter, given, dry, interactive)
      PROVE  SweptInv' /\ Swept!LastPutIsServed' /\ Swept!ClearedIsGone'
  BY <1>1, <1>2, <1>6, ClearCacheKeeps
<1>10. ASSUME NEW p \in Process, NEW filter, NEW given, NEW interactive,
              Swept!ListingRaises(p, filter, given, interactive)
       PROVE  SweptInv' /\ Swept!LastPutIsServed' /\ Swept!ClearedIsGone'
  BY <1>1, <1>10, ListingKeeps
<1>7. ASSUME Swept!Sweep
      PROVE  SweptInv' /\ Swept!LastPutIsServed' /\ Swept!ClearedIsGone'
  BY <1>1, <1>7, SweepKeeps
<1>8. ASSUME Swept!Tick
      PROVE  SweptInv' /\ Swept!LastPutIsServed' /\ Swept!ClearedIsGone'
  <2>1. SweptInv'
    <3>1. SweptTypeOK /\ FormatInv /\ OneSuffixInv /\ LatestInv /\ SweepInv
      BY DEF SweptInv
    <3>2. moment' = moment + 1 /\ UNCHANGED <<disk, suffixes, memory, latest, mixed, sweep, puts, sweeps>>
      BY <1>8 DEF Swept!Tick
    <3>3. SweptTypeOK'
      BY <3>1, <3>2 DEF SweptTypeOK
    <3> QED
      BY <3>1, <3>2, <3>3 DEF SweptInv, FormatInv, OneSuffixInv, LatestInv, SweepInv, Swept!There, Swept!Matches
  <2>2. found' = None /\ report' = None
    BY <1>8 DEF Swept!Tick
  <2> QED
    BY <1>1, <1>2, <2>1, <2>2
<1>9. ASSUME NEW p \in Process, NEW filter, NEW dry \in BOOLEAN, Swept!Clean(p, filter, dry)
      PROVE  SweptInv' /\ Swept!LastPutIsServed' /\ Swept!ClearedIsGone'
  BY <1>6, <1>9 DEF Swept!Clean
<1> QED
  BY <1>3, <1>4, <1>5, <1>6, <1>7, <1>8, <1>9, <1>10, Zenon DEF Swept!FolderNext

(* "This recovers the suffix from any existing file [...] so those reads   *)
(* hit" (files.py) and "clear in-memory stores and remove stale persistent *)
(* cache files" (clearing.py): whatever processes put, look up, delete and *)
(* sweep in one folder, in whatever order, a lookup gives what was put     *)
(* last, and a clear_cache that returns leaves none of what it is to clear.*)
THEOREM FoldersKeepTheirWord == PartsSpec => []FolderKeepsItsWord
<1>1. PartsInit => FolderInv
  BY SweptInit DEF PartsInit, FolderInv, Swept!FolderInit, Swept!LastPutIsServed, Swept!ClearedIsGone
<1>2. FolderInv /\ [PartsNext]_partsVars => FolderInv'
  <2> SUFFICES ASSUME FolderInv, [PartsNext]_partsVars, part' = "folder"
               PROVE  SweptInv' /\ Swept!LastPutIsServed' /\ Swept!ClearedIsGone'
    BY DEF FolderInv
  <2>1. part = "folder" /\ SweptInv /\ Swept!LastPutIsServed /\ Swept!ClearedIsGone
    BY DEF FolderInv, PartsNext, partsVars
  <2>2. CASE Swept!FolderNext
    BY <2>1, <2>2, FolderNextKeeps
  <2>3. CASE UNCHANGED sweptVars
    <3>1. /\ disk' = disk /\ suffixes' = suffixes /\ memory' = memory /\ latest' = latest
          /\ mixed' = mixed /\ found' = found /\ sweep' = sweep /\ report' = report
          /\ moment' = moment /\ puts' = puts /\ sweeps' = sweeps
      BY <2>3 DEF sweptVars
    <3>2. SweptInv'
      BY <2>1, <3>1 DEF SweptInv, SweptTypeOK, FormatInv, OneSuffixInv, LatestInv, SweepInv,
                        Swept!There, Swept!Matches
    <3>3. Swept!LastPutIsServed' = Swept!LastPutIsServed
      BY <3>1 DEF Swept!LastPutIsServed
    <3>4. Swept!ClearedIsGone' = Swept!ClearedIsGone
      BY <3>1 DEF Swept!ClearedIsGone, Swept!There, Swept!Matches
    <3> QED
      BY <2>1, <3>2, <3>3, <3>4
  <2> QED
    BY <2>1, <2>2, <2>3 DEF PartsNext, partsVars
<1>3. FolderInv => FolderKeepsItsWord
  BY DEF FolderInv, FolderKeepsItsWord, Swept!FolderKeepsItsWord
<1> QED
  BY <1>1, <1>2, <1>3, PTL DEF PartsSpec

-----------------------------------------------------------------------------
(* A live query that only reads the rows past its cursor.                  *)

Ascending(d) == \A i, j \in DOMAIN d : i < j => d[i] < d[j]

Single(d) == \A i, j \in DOMAIN d : d[i] = d[j] => i = j

Elements(d) == {d[i] : i \in DOMAIN d}

(* The module of the streams has its own name for the size of a set. *)
LEMMA NumberOf == ASSUME NEW S PROVE Stream!Cardinality(S) = Cardinality(S)
BY DEF Stream!Cardinality, Cardinality

(* The cursor is rendered to its full precision. *)
LEMMA Exact == ASSUME NEW t \in Int PROVE Stream!Cut(t) = t
BY DEF Stream!Cut

(* The cursor moves to a row that was read, and none that was read is past it. *)
LEMMA GreatestRow ==
  ASSUME NEW m \in Nat, NEW taken \in SUBSET (0 .. m), taken # {}
  PROVE  Stream!Max(taken) \in taken /\ \A r \in taken : r <= Stream!Max(taken)
<1> DEFINE T == {m - r : r \in taken}
<1>1. T \subseteq Nat /\ T # {}
  <2>1. \A r \in taken : m - r \in Nat
    OBVIOUS
  <2> QED
    BY <2>1
<1>2. PICK x \in T : \A y \in T : x <= y
  BY <1>1, LeastNumber
<1>3. PICK r \in taken : x = m - r
  OBVIOUS
<1>4. \A s \in taken : r >= s
  BY <1>2, <1>3
<1> QED
  BY <1>4 DEF Stream!Max

(* A frame of a set of taken has each of them once. *)
LEMMA FrameOfRows ==
  ASSUME NEW m \in Nat, NEW taken \in SUBSET (1 .. m), NEW d \in Stream!Frames(taken)
  PROVE  /\ d \in Seq(taken)
         /\ Elements(d) = taken
         /\ Single(d)
         /\ ordered => Ascending(d)
<1> DEFINE n == Cardinality(taken)
<1>1. IsFiniteSet(taken) /\ n \in Nat
  <2>1. IsFiniteSet(1 .. m)
    BY FS_Interval
  <2> QED
    BY <2>1, FS_Subset, FS_CardinalityType
<1>2. d \in [1 .. n -> taken] /\ (\A i, j \in 1 .. n : i # j => d[i] # d[j])
  BY NumberOf DEF Stream!Frames, Stream!SetToSeqs
<1>3. ordered => Ascending(d)
  BY DEF Stream!Frames, Ascending
<1>4. d \in Seq(taken) /\ DOMAIN d = 1 .. n /\ Single(d)
  BY <1>1, <1>2 DEF Single
<1>5. d \in Injection(1 .. n, taken)
  BY <1>2 DEF Injection, IsInjective
<1>6. Cardinality(1 .. n) = n
  BY <1>1, FS_Interval
<1>7. d \in Surjection(1 .. n, taken)
  BY <1>1, <1>5, <1>6, FS_Injection
<1>8. \A r \in taken : \E i \in 1 .. n : d[i] = r
  BY <1>7 DEF Surjection
<1>9. \A i \in 1 .. n : d[i] \in taken
  BY <1>2
<1> HIDE DEF n
<1>10. Elements(d) = taken
  BY <1>4, <1>8, <1>9 DEF Elements
<1> QED
  BY <1>3, <1>4, <1>10

\* One row after the other: those that are recent enough are kept.
Sieved(d, least) ==
  CHOOSE kept :
    kept = [i \in 0 .. Len(d) |->
              IF i = 0 THEN <<>>
              ELSE IF d[i] >= least THEN Append(kept[i - 1], d[i]) ELSE kept[i - 1]]

(* The recursive function of filter_ge has a value for each row. *)
LEMMA SieveSteps ==
  ASSUME NEW S, NEW d \in Seq(S), NEW least
  PROVE  /\ Sieved(d, least)[0] = <<>>
         /\ \A i \in 1 .. Len(d) : Sieved(d, least)[i] =
              IF d[i] >= least THEN Append(Sieved(d, least)[i - 1], d[i]) ELSE Sieved(d, least)[i - 1]
         /\ Stream!AtLeast(d, least) = Sieved(d, least)[Len(d)]
<1> DEFINE n == Len(d)
           D == Seq(S)
           next(s, i) == IF d[i] >= least THEN Append(s, d[i]) ELSE s
           g == [i \in 1 .. n |-> [s \in D |-> next(s, i)]]
           Steps(u) == u = [i \in 0 .. n |-> IF i = 0 THEN <<>> ELSE next(u[i - 1], i)]
           after == CHOOSE u : Steps(u)
<1>1. n \in Nat /\ <<>> \in D /\ \A i \in 1 .. n : d[i] \in S
  OBVIOUS
<1>2. \A i \in 1 .. n, s \in D : next(s, i) \in D
  BY <1>1
<1>3. \E u : Steps(u)
  <2> HIDE DEF n, D, next
  <2>1. g \in [1 .. n -> [D -> D]]
    BY <1>2
  <2> HIDE DEF g
  <2>2. PICK u \in [0 .. n -> D] : Iterates(u, n, <<>>, g)
    BY <1>1, <2>1, Iterated
  <2>3. ASSUME NEW i \in 0 .. n
        PROVE  u[i] = IF i = 0 THEN <<>> ELSE next(u[i - 1], i)
    <3>1. CASE i = 0
      BY <2>2, <3>1 DEF Iterates
    <3>2. CASE i # 0
      <4>1. i \in 1 .. n /\ u[i - 1] \in D
        BY <1>1, <2>2, <3>2
      <4>2. g[i][u[i - 1]] = next(u[i - 1], i)
        BY <4>1 DEF g
      <4> QED
        BY <2>2, <3>2, <4>2 DEF Iterates
    <3> QED
      BY <3>1, <3>2
  <2> QED
    BY <2>2, <2>3
<1>4. after = [i \in 0 .. n |-> IF i = 0 THEN <<>> ELSE next(after[i - 1], i)]
  <2> HIDE DEF Steps
  <2>1. Steps(after)
    BY <1>3
  <2> QED
    BY <2>1 DEF Steps
<1>5. Sieved(d, least) = after
  BY DEF Sieved
<1>6. Stream!AtLeast(d, least) = after[n]
  BY DEF Stream!AtLeast
<1> HIDE DEF after, next, n
<1>7. 0 \in 0 .. n /\ \A i \in 1 .. n : i \in 0 .. n /\ i # 0
  BY <1>1
<1>8. after[0] = <<>> /\ \A i \in 1 .. n : after[i] = next(after[i - 1], i)
  BY <1>4, <1>7
<1> QED
  BY <1>5, <1>6, <1>8 DEF next, n

(* filter_ge keeps rows that are in the frame, and none twice. *)
LEMMA SieveKeeps ==
  ASSUME NEW S, NEW d \in Seq(S), Single(d), NEW least
  PROVE  /\ Stream!AtLeast(d, least) \in Seq(S)
         /\ Elements(Stream!AtLeast(d, least)) \subseteq Elements(d)
         /\ Single(Stream!AtLeast(d, least))
<1> DEFINE n == Len(d)
           u == Sieved(d, least)
           G == {i \in 0 .. n : /\ u[i] \in Seq(S) /\ Single(u[i])
                                /\ Elements(u[i]) \subseteq {d[j] : j \in 1 .. i}}
<1>1. n \in Nat /\ \A i \in 1 .. n : d[i] \in S
  OBVIOUS
<1>2. 0 \in G
  <2>1. u[0] = <<>>
    BY SieveSteps
  <2>2. <<>> \in Seq(S) /\ Single(<<>>) /\ Elements(<<>>) = {}
    BY DEF Single, Elements
  <2>3. 0 \in 0 .. n
    BY <1>1
  <2> QED
    BY <2>1, <2>2, <2>3
<1>3. ASSUME NEW i \in 1 .. n, i - 1 \in G PROVE i \in G
  <2> DEFINE s == u[i - 1]
  <2>1. /\ s \in Seq(S) /\ Single(s)
        /\ Elements(s) \subseteq {d[j] : j \in 1 .. i - 1}
        /\ i \in 0 .. n
    BY <1>3
  <2>2. u[i] = IF d[i] >= least THEN Append(s, d[i]) ELSE s
    BY SieveSteps
  <2>3. {d[j] : j \in 1 .. i - 1} \subseteq {d[j] : j \in 1 .. i}
    OBVIOUS
  <2> HIDE DEF u, s
  <2>4. CASE d[i] >= least
    <3> DEFINE t == Append(s, d[i])
    <3>1. t \in Seq(S) /\ Len(t) = Len(s) + 1 /\ t[Len(s) + 1] = d[i] /\ \A j \in 1 .. Len(s) : t[j] = s[j]
      BY <1>1, <2>1
    <3>2. \A j \in 1 .. Len(s) : s[j] # d[i]
      <4> SUFFICES ASSUME NEW j \in 1 .. Len(s), s[j] = d[i] PROVE FALSE
        OBVIOUS
      <4>1. PICK k \in 1 .. i - 1 : d[i] = d[k]
        <5>1. s[j] \in Elements(s)
          BY <2>1 DEF Elements
        <5> QED
          BY <2>1, <5>1
      <4> QED
        BY <1>1, <4>1 DEF Single
    <3> HIDE DEF t
    <3>3. DOMAIN t = 1 .. Len(s) + 1 /\ DOMAIN s = 1 .. Len(s) /\ Len(s) \in Nat
      BY <2>1, <3>1
    <3>4. Single(t)
      <4> SUFFICES ASSUME NEW j \in 1 .. Len(s) + 1, NEW k \in 1 .. Len(s) + 1, t[j] = t[k]
                   PROVE  j = k
        BY <3>3 DEF Single
      <4>1. CASE j \in 1 .. Len(s) /\ k \in 1 .. Len(s)
        BY <2>1, <3>1, <3>3, <4>1 DEF Single
      <4>2. CASE j = Len(s) + 1 /\ k \in 1 .. Len(s)
        BY <3>1, <3>2, <4>2
      <4>3. CASE k = Len(s) + 1 /\ j \in 1 .. Len(s)
        BY <3>1, <3>2, <4>3
      <4> QED
        BY <3>3, <4>1, <4>2, <4>3
    <3>5. Elements(t) \subseteq {d[j] : j \in 1 .. i}
      <4> SUFFICES ASSUME NEW k \in 1 .. Len(s) + 1 PROVE t[k] \in {d[j] : j \in 1 .. i}
        BY <3>3 DEF Elements
      <4>1. CASE k = Len(s) + 1
        BY <3>1, <4>1
      <4>2. CASE k \in 1 .. Len(s)
        <5>1. t[k] = s[k] /\ s[k] \in Elements(s)
          BY <3>1, <3>3, <4>2 DEF Elements
        <5> QED
          BY <2>1, <2>3, <5>1
      <4> QED
        BY <3>3, <4>1, <4>2
    <3>6. u[i] = t
      BY <2>2, <2>4 DEF t
    <3> QED
      BY <2>1, <3>1, <3>4, <3>5, <3>6
  <2>5. CASE ~(d[i] >= least)
    BY <2>1, <2>2, <2>3, <2>5
  <2> QED
    BY <2>4, <2>5
<1>4. n \in G
  <2> HIDE DEF G
  <2>1. \A i \in 0 .. n : i \in G
    BY <1>1, <1>2, <1>3, Reached
  <2> QED
    BY <1>1, <2>1
<1>5. {d[j] : j \in 1 .. n} = Elements(d)
  BY DEF Elements
<1> QED
  BY <1>4, <1>5, SieveSteps

(* Of a frame in ascending order filter_ge drops the first rows. *)
LEMMA SieveDrops ==
  ASSUME NEW d \in Seq(Int), Ascending(d), NEW least \in Int
  PROVE  \E k \in 0 .. Len(d) :
           /\ Stream!AtLeast(d, least) = SubSeq(d, k + 1, Len(d))
           /\ \A j \in 1 .. k : d[j] < least
           /\ \A j \in k + 1 .. Len(d) : d[j] >= least
<1> DEFINE n == Len(d)
           u == Sieved(d, least)
           Cuts(i, k) == /\ u[i] = SubSeq(d, k + 1, i)
                         /\ \A j \in 1 .. k : d[j] < least
                         /\ \A j \in k + 1 .. i : d[j] >= least
           G == {i \in 0 .. n : \E k \in 0 .. i : Cuts(i, k)}
<1>1. n \in Nat /\ DOMAIN d = 1 .. n /\ \A i \in 1 .. n : d[i] \in Int
  OBVIOUS
<1>2. 0 \in G
  <2>1. u[0] = <<>>
    BY SieveSteps
  <2>2. SubSeq(d, 1, 0) = <<>>
    BY <1>1
  <2>3. Cuts(0, 0)
    BY <1>1, <2>1, <2>2
  <2> HIDE DEF Cuts
  <2> QED
    BY <1>1, <2>3
<1>3. ASSUME NEW i \in 1 .. n, i - 1 \in G PROVE i \in G
  <2>1. PICK k \in 0 .. i - 1 : Cuts(i - 1, k)
    BY <1>3
  <2>2. u[i] = IF d[i] >= least THEN Append(u[i - 1], d[i]) ELSE u[i - 1]
    BY SieveSteps
  <2> HIDE DEF u
  <2>3. CASE d[i] >= least
    <3>1. Append(SubSeq(d, k + 1, i - 1), d[i]) = SubSeq(d, k + 1, i)
      BY <1>1
    <3>2. Cuts(i, k)
      BY <1>1, <2>1, <2>2, <2>3, <3>1
    <3> QED
      BY <1>1, <3>2
  <2>4. CASE ~(d[i] >= least)
    <3>1. \A j \in 1 .. i : d[j] < least
      <4> SUFFICES ASSUME NEW j \in 1 .. i - 1 PROVE d[j] < least
        BY <1>1, <2>4
      <4>1. d[j] < d[i]
        BY <1>1 DEF Ascending
      <4> QED
        BY <1>1, <2>4, <4>1
    <3>2. k = i - 1
      BY <1>1, <2>1, <3>1
    <3>3. SubSeq(d, k + 1, i - 1) = SubSeq(d, i + 1, i)
      BY <1>1, <3>2
    <3>4. Cuts(i, i)
      BY <1>1, <2>1, <2>2, <2>4, <3>1, <3>3
    <3> HIDE DEF Cuts
    <3> QED
      BY <1>1, <3>4
  <2> QED
    BY <2>3, <2>4
<1>4. n \in G
  <2> HIDE DEF G
  <2>1. \A i \in 0 .. n : i \in G
    BY <1>1, <1>2, <1>3, Reached
  <2> QED
    BY <1>1, <2>1
<1> QED
  BY <1>4, SieveSteps

(* validate_retention *)
LEMMA StreamLimits ==
  /\ None \notin Int
  /\ MaxHeld # None => MaxHeld \in Nat \ {0}
  /\ MaxOld # None => MaxOld \in Nat \ {0}
  /\ Built \in Nat
BY Assumptions DEF Stream!StreamingQueryAssumption

(* tail keeps rows that are in the frame, and none twice. *)
LEMMA TailKeeps ==
  ASSUME NEW S, NEW d \in Seq(S), Single(d), NEW n \in Nat
  PROVE  /\ Stream!LastRows(d, n) \in Seq(S)
         /\ Elements(Stream!LastRows(d, n)) \subseteq Elements(d)
         /\ Single(Stream!LastRows(d, n))
<1>1. CASE Len(d) > n
  <2> DEFINE k == Len(d) - n
             t == SubSeq(d, k + 1, Len(d))
  <2>1. /\ t \in Seq(S) /\ DOMAIN t = 1 .. n /\ k \in Nat
        /\ \A i \in 1 .. n : k + i \in DOMAIN d /\ t[i] = d[k + i]
    BY <1>1
  <2>2. Stream!LastRows(d, n) = t
    BY <1>1 DEF Stream!LastRows
  <2> HIDE DEF t
  <2> QED
    BY <2>1, <2>2 DEF Single, Elements
<1>2. CASE ~(Len(d) > n)
  BY <1>2 DEF Stream!LastRows
<1> QED
  BY <1>1, <1>2

(* Retention drops rows, and does nothing else. *)
LEMMA RetainedKeeps ==
  ASSUME NEW S, NEW d \in Seq(S), Single(d)
  PROVE  /\ Stream!Retained(d) \in Seq(S)
         /\ Elements(Stream!Retained(d)) \subseteq Elements(d)
         /\ Single(Stream!Retained(d))
<1> DEFINE least == Stream!Cut(Stream!Cut(Stream!Newest(d)) - MaxOld)
           young == IF MaxOld # None /\ d # <<>> THEN Stream!AtLeast(d, least) ELSE d
<1>1. young \in Seq(S) /\ Elements(young) \subseteq Elements(d) /\ Single(young)
  <2> HIDE DEF least
  <2>1. CASE MaxOld # None /\ d # <<>>
    BY <2>1, SieveKeeps
  <2>2. CASE ~(MaxOld # None /\ d # <<>>)
    BY <2>2
  <2> QED
    BY <2>1, <2>2
<1>2. Stream!Retained(d) = IF MaxHeld # None THEN Stream!LastRows(young, MaxHeld) ELSE young
  BY DEF Stream!Retained
<1> HIDE DEF young
<1>3. CASE MaxHeld # None
  <2>1. MaxHeld \in Nat
    BY <1>3, StreamLimits
  <2> QED
    BY <1>1, <1>2, <1>3, <2>1, TailKeeps
<1>4. CASE MaxHeld = None
  BY <1>1, <1>2, <1>4
<1> QED
  BY <1>3, <1>4

(* Dropping the first rows twice is dropping those of both. *)
LEMMA SuffixOfSuffix ==
  ASSUME NEW S, NEW d \in Seq(S), NEW k \in 0 .. Len(d), NEW l \in k .. Len(d)
  PROVE  SubSeq(SubSeq(d, k + 1, Len(d)), l - k + 1, Len(d) - k) = SubSeq(d, l + 1, Len(d))
<1> DEFINE n == Len(d)
           e == SubSeq(d, k + 1, n)
           a == SubSeq(e, l - k + 1, n - k)
           b == SubSeq(d, l + 1, n)
<1>1. n \in Nat /\ k \in Nat /\ l \in Nat /\ k <= l /\ l <= n
  OBVIOUS
<1>2. e \in Seq(S) /\ Len(e) = n - k /\ \A i \in 1 .. n - k : e[i] = d[k + i]
  BY <1>1
<1>3. b \in Seq(S) /\ Len(b) = n - l /\ \A i \in 1 .. n - l : b[i] = d[l + i]
  BY <1>1
<1> HIDE DEF e
<1>4. a \in Seq(S) /\ Len(a) = n - l /\ \A i \in 1 .. n - l : a[i] = e[l - k + i]
  BY <1>1, <1>2
<1> HIDE DEF a, b, n
<1>5. ASSUME NEW i \in 1 .. n - l PROVE a[i] = b[i]
  <2>1. l - k + i \in 1 .. n - k /\ k + (l - k + i) = l + i
    BY <1>1
  <2> QED
    BY <1>2, <1>3, <1>4, <2>1
<1>6. a = b
  BY <1>3, <1>4, <1>5
<1> QED
  BY <1>6 DEF a, b, e, n

(* Of a frame in ascending order retention drops the first rows: those that *)
(* are too old, and those before as many newer ones as are to be kept.      *)
LEMMA RetainedDrops ==
  ASSUME NEW d \in Seq(Nat), d # <<>>, Ascending(d)
  PROVE  \E k \in 0 .. Len(d) - 1 :
           /\ Stream!Retained(d) = SubSeq(d, k + 1, Len(d))
           /\ \A i \in 1 .. k :
                \/ MaxOld # None /\ d[Len(d)] - d[i] > MaxOld
                \/ MaxHeld # None /\ Len(d) - k >= MaxHeld
<1> DEFINE n == Len(d)
           least == Stream!Cut(Stream!Cut(Stream!Newest(d)) - MaxOld)
           young == IF MaxOld # None /\ d # <<>> THEN Stream!AtLeast(d, least) ELSE d
<1>1. n \in Nat \ {0} /\ DOMAIN d = 1 .. n /\ \A i \in 1 .. n : d[i] \in Nat
  OBVIOUS
<1>2. \A i \in 1 .. n : d[i] <= d[n]
  BY <1>1 DEF Ascending
<1>3. Stream!Newest(d) = d[n]
  BY <1>1, <1>2 DEF Stream!Newest, Stream!Max, Stream!ToSet
<1>4. MaxOld # None => MaxOld \in Nat \ {0} /\ least = d[n] - MaxOld
  BY <1>1, <1>3, StreamLimits, Exact
<1>5. PICK k \in 0 .. n - 1 :
        /\ young = SubSeq(d, k + 1, n)
        /\ \A i \in 1 .. k : MaxOld # None /\ d[n] - d[i] > MaxOld
  <2>0. /\ MaxOld # None => young = Stream!AtLeast(d, least)
        /\ MaxOld = None => young = d
    OBVIOUS
  <2> HIDE DEF least, young
  <2>1. CASE MaxOld # None
    <3>1. least \in Int /\ d \in Seq(Int)
      BY <1>1, <1>4, <2>1
    <3>2. PICK k \in 0 .. n :
            /\ Stream!AtLeast(d, least) = SubSeq(d, k + 1, n)
            /\ \A i \in 1 .. k : d[i] < least
            /\ \A i \in k + 1 .. n : d[i] >= least
      BY <3>1, SieveDrops
    <3>0. MaxOld \in Nat \ {0} /\ least = d[n] - MaxOld
      BY <1>4, <2>1
    <3> HIDE DEF n
    <3>3. k # n
      <4> SUFFICES ASSUME k = n PROVE FALSE
        OBVIOUS
      <4>1. d[n] < least /\ d[n] \in Nat
        BY <1>1, <3>2
      <4> QED
        BY <3>0, <4>1
    <3>4. ASSUME NEW i \in 1 .. k PROVE d[n] - d[i] > MaxOld
      <4>1. d[i] < least /\ d[i] \in Nat /\ d[n] \in Nat
        BY <1>1, <3>2
      <4> QED
        BY <3>0, <4>1
    <3>5. k \in 0 .. n - 1
      BY <1>1, <3>3
    <3> QED
      BY <2>0, <2>1, <3>2, <3>4, <3>5
  <2>2. CASE MaxOld = None
    <3>1. young = SubSeq(d, 1, n)
      BY <1>1, <2>0, <2>2
    <3>2. 0 \in 0 .. n - 1 /\ 1 .. 0 = {} /\ 0 + 1 = 1
      BY <1>1
    <3> HIDE DEF n
    <3> QED
      BY <3>1, <3>2
  <2> QED
    BY <2>1, <2>2
<1>6. Stream!Retained(d) = IF MaxHeld # None THEN Stream!LastRows(young, MaxHeld) ELSE young
  BY DEF Stream!Retained
<1> HIDE DEF young
<1>7. CASE MaxHeld # None /\ Len(young) > MaxHeld
  <2> DEFINE l == n - MaxHeld
  <2>1. MaxHeld \in Nat \ {0} /\ Len(young) = n - k /\ young \in Seq(Nat)
    BY <1>1, <1>5, <1>7, StreamLimits
  <2>2. Stream!Retained(d) = SubSeq(young, Len(young) - MaxHeld + 1, Len(young))
    BY <1>6, <1>7 DEF Stream!LastRows
  <2>3. l \in k .. n - 1 /\ n - l >= MaxHeld /\ k \in Nat
    BY <1>1, <1>7, <2>1
  <2>4. Len(young) - MaxHeld + 1 = l - k + 1 /\ Len(young) = n - k
    BY <1>1, <2>1
  <2>5. SubSeq(young, l - k + 1, n - k) = SubSeq(d, l + 1, n)
    <3>1. d \in Seq(Nat) /\ k \in 0 .. Len(d) /\ l \in k .. Len(d) /\ young = SubSeq(d, k + 1, Len(d))
      BY <1>1, <1>5, <2>3
    <3> HIDE DEF l
    <3> QED
      BY <3>1, SuffixOfSuffix
  <2> HIDE DEF l
  <2>6. l \in 0 .. n - 1
    BY <1>1, <2>3
  <2> QED
    BY <1>7, <2>2, <2>3, <2>4, <2>5, <2>6
<1>8. CASE ~(MaxHeld # None /\ Len(young) > MaxHeld)
  <2>1. Stream!Retained(d) = young
    BY <1>6, <1>8 DEF Stream!LastRows
  <2> QED
    BY <1>5, <2>1
<1> QED
  BY <1>7, <1>8

\* As many newer rows as are kept came after r, or the cursor is too far from it.
Displaced(r) ==
  \/ MaxHeld # None /\ Len(held) >= MaxHeld /\ held[Len(held) - MaxHeld + 1] > r
  \/ MaxOld # None /\ cursor - r > MaxOld

\* Inductive: the frame is of rows up to the cursor, which a read appends to; in the
\* order of the query the oldest go first, so that what is missing is before the frame.
StreamInv ==
  /\ Stream!TypeOK
  /\ cursor \in rows \cup {0}
  /\ Single(held)
  /\ \A i \in DOMAIN held : held[i] <= cursor
  /\ ordered => Ascending(held)
  /\ ordered /\ ~raised =>
       /\ held # <<>> => held[Len(held)] = cursor
       /\ \A r \in rows : base < r /\ r <= cursor /\ r \notin Elements(held) => Displaced(r)

(* A fetch has the rows past the cursor, and moves the cursor to the newest. *)
LEMMA FetchedRows ==
  ASSUME Stream!TypeOK
  PROVE  /\ Stream!Fetched(cursor) = {r \in rows : r > cursor}
         /\ Stream!Fetched(cursor) \in SUBSET (1 .. hour)
         /\ hour \in Nat
         /\ Stream!Fetched(cursor) # {} =>
              /\ Stream!Advanced(cursor, Stream!Fetched(cursor)) \in Stream!Fetched(cursor)
              /\ \A r \in Stream!Fetched(cursor) : r <= Stream!Advanced(cursor, Stream!Fetched(cursor))
<1>1. Stream!Cut(cursor) = cursor /\ rows \subseteq 1 .. hour /\ hour \in Nat
  BY Exact DEF Stream!TypeOK
<1>2. Stream!Fetched(cursor) = {r \in rows : r > cursor}
  BY <1>1 DEF Stream!Fetched
<1>3. Stream!Fetched(cursor) \in SUBSET (1 .. hour) /\ Stream!Fetched(cursor) \in SUBSET (0 .. hour)
  <2>1. {r \in rows : r > cursor} \subseteq 1 .. hour
    BY <1>1
  <2>2. 1 .. hour \subseteq 0 .. hour
    BY <1>1
  <2> QED
    BY <1>2, <2>1, <2>2
<1> QED
  BY <1>1, <1>2, <1>3, GreatestRow DEF Stream!Advanced

(* What is read comes after what the frame has. *)
LEMMA ReadAppends ==
  ASSUME StreamInv, Stream!Fetched(cursor) # {}, NEW d \in Stream!Frames(Stream!Fetched(cursor)),
         NEW c, c = Stream!Advanced(cursor, Stream!Fetched(cursor))
  PROVE  /\ held \o d \in Seq(rows)
         /\ held \o d # <<>>
         /\ Elements(held \o d) = Elements(held) \cup Stream!Fetched(cursor)
         /\ Single(held \o d)
         /\ \A i \in DOMAIN (held \o d) : (held \o d)[i] <= c
         /\ ordered => Ascending(held \o d) /\ (held \o d)[Len(held \o d)] = c
<1> DEFINE delta == Stream!Fetched(cursor)
           full == held \o d
           m == Len(held)
           n == Len(d)
<1>1. /\ delta = {r \in rows : r > cursor} /\ delta \in SUBSET (1 .. hour) /\ hour \in Nat
      /\ c \in delta /\ \A r \in delta : r <= c
  BY FetchedRows DEF StreamInv
<1>2. d \in Seq(delta) /\ Elements(d) = delta /\ Single(d) /\ (ordered => Ascending(d))
  BY <1>1, FrameOfRows
<1>3. /\ held \in Seq(rows) /\ rows \subseteq 1 .. hour /\ cursor \in Nat /\ Single(held)
      /\ \A i \in DOMAIN held : held[i] <= cursor
      /\ ordered => Ascending(held)
  BY DEF StreamInv, Stream!TypeOK
<1> HIDE DEF delta
<1>4. /\ m \in Nat /\ n \in Nat /\ DOMAIN held = 1 .. m /\ DOMAIN d = 1 .. n
      /\ \A i \in 1 .. m : held[i] \in rows
      /\ \A i \in 1 .. n : d[i] \in delta
  BY <1>2, <1>3
<1>5. /\ full \in Seq(rows) /\ Len(full) = m + n /\ DOMAIN full = 1 .. m + n
      /\ \A i \in 1 .. m : full[i] = held[i]
      /\ \A i \in 1 .. n : full[m + i] = d[i]
  <2>1. d \in Seq(rows)
    BY <1>1, <1>2
  <2> QED
    BY <1>3, <1>4, <2>1
<1> HIDE DEF full, m, n
<1>6. n > 0
  <2>1. PICK i \in DOMAIN d : d[i] = c
    BY <1>1, <1>2 DEF Elements
  <2> QED
    BY <1>4, <2>1
<1>7. ASSUME NEW i \in 1 .. m + n
      PROVE  \/ i \in 1 .. m /\ full[i] = held[i] /\ full[i] <= cursor
             \/ i - m \in 1 .. n /\ full[i] = d[i - m] /\ full[i] > cursor /\ full[i] <= c
  <2>1. CASE i <= m
    BY <1>3, <1>4, <1>5, <2>1
  <2>2. CASE i > m
    <3>1. i - m \in 1 .. n /\ m + (i - m) = i
      BY <1>4, <2>2
    <3>2. full[i] = d[i - m] /\ d[i - m] \in delta
      BY <1>4, <1>5, <3>1
    <3> QED
      BY <1>1, <3>1, <3>2
  <2> QED
    BY <1>4, <2>1, <2>2
<1>8. \A i \in 1 .. m + n : full[i] \in Nat
  <2>1. \A i \in 1 .. m + n : full[i] \in rows
    BY <1>5
  <2>2. \A r \in rows : r \in Nat
    BY <1>1, <1>3
  <2> HIDE DEF full
  <2> QED
    BY <2>1, <2>2
<1>9. Elements(full) = Elements(held) \cup delta
  <2>1. ASSUME NEW i \in 1 .. m + n PROVE full[i] \in Elements(held) \cup delta
    BY <1>2, <1>4, <1>7 DEF Elements
  <2>2. ASSUME NEW i \in 1 .. m PROVE held[i] \in Elements(full)
    BY <1>4, <1>5 DEF Elements
  <2>3. ASSUME NEW i \in 1 .. n PROVE d[i] \in Elements(full)
    <3>1. m + i \in 1 .. m + n
      BY <1>4
    <3> QED
      BY <1>5, <3>1 DEF Elements
  <2> QED
    BY <1>2, <1>4, <1>5, <2>1, <2>2, <2>3 DEF Elements
<1>10. Single(full)
  <2> SUFFICES ASSUME NEW i \in 1 .. m + n, NEW j \in 1 .. m + n, full[i] = full[j] PROVE i = j
    BY <1>5 DEF Single
  <2>1. CASE i \in 1 .. m /\ j \in 1 .. m
    BY <1>3, <1>4, <1>5, <2>1 DEF Single
  <2>2. CASE i \notin 1 .. m /\ j \notin 1 .. m
    <3>1. i - m \in 1 .. n /\ j - m \in 1 .. n /\ d[i - m] = d[j - m]
      BY <1>7, <2>2
    <3>2. i - m = j - m
      BY <1>2, <1>4, <3>1 DEF Single
    <3> QED
      BY <1>4, <3>2
  <2>3. CASE i \in 1 .. m /\ j \notin 1 .. m
    <3>1. full[i] <= cursor /\ full[j] > cursor /\ full[i] \in Nat
      BY <1>4, <1>7, <1>8, <2>3
    <3> QED
      BY <1>3, <3>1
  <2>4. CASE i \notin 1 .. m /\ j \in 1 .. m
    <3>1. full[j] <= cursor /\ full[i] > cursor /\ full[j] \in Nat
      BY <1>4, <1>7, <1>8, <2>4
    <3> QED
      BY <1>3, <3>1
  <2> QED
    BY <2>1, <2>2, <2>3, <2>4
<1>11. \A i \in 1 .. m + n : full[i] <= c
  BY <1>1, <1>3, <1>7, <1>8
<1>12. ASSUME ordered
       PROVE  Ascending(full) /\ full[m + n] = c
  <2>1. ASSUME NEW i \in 1 .. m + n, NEW j \in 1 .. m + n, i < j PROVE full[i] < full[j]
    <3>1. CASE j \in 1 .. m
      <4>1. i \in 1 .. m /\ full[i] = held[i] /\ full[j] = held[j]
        BY <1>4, <1>5, <2>1, <3>1
      <4> QED
        BY <1>3, <1>4, <1>12, <2>1, <3>1, <4>1 DEF Ascending
    <3>2. CASE i \in 1 .. m /\ j \notin 1 .. m
      <4>1. full[i] <= cursor /\ full[j] > cursor /\ full[i] \in Nat /\ full[j] \in Nat
        BY <1>4, <1>7, <1>8, <3>2
      <4> QED
        BY <1>3, <4>1
    <3>3. CASE i \notin 1 .. m /\ j \notin 1 .. m
      <4>1. i - m \in 1 .. n /\ j - m \in 1 .. n /\ full[i] = d[i - m] /\ full[j] = d[j - m] /\ i - m < j - m
        BY <1>4, <1>7, <2>1, <3>3
      <4> QED
        BY <1>2, <1>4, <1>12, <4>1 DEF Ascending
    <3> QED
      BY <1>4, <2>1, <3>1, <3>2, <3>3
  <2>2. full[m + n] = c
    <3>1. PICK i \in 1 .. n : d[i] = c
      BY <1>1, <1>2, <1>4 DEF Elements
    <3>2. m + i \in 1 .. m + n /\ m + n \in 1 .. m + n /\ full[m + i] = c
      BY <1>4, <1>5, <1>6, <3>1
    <3>3. m + i < m + n => c < full[m + n]
      BY <2>1, <3>2
    <3>4. full[m + n] <= c /\ full[m + n] \in Nat /\ c \in Nat
      BY <1>8, <1>11, <3>2
    <3> QED
      BY <1>4, <3>2, <3>3, <3>4
  <2> QED
    BY <1>5, <2>1, <2>2 DEF Ascending
<1>13. full # <<>>
  BY <1>4, <1>5, <1>6
<1> QED
  BY <1>5, <1>9, <1>10, <1>11, <1>12, <1>13 DEF full, delta

(* Where a frame in ascending order has a newer row, it has one from there on. *)
LEMMA NewerLater ==
  ASSUME NEW d \in Seq(Nat), Ascending(d), NEW i \in DOMAIN d, NEW j \in DOMAIN d, i <= j,
         NEW r \in Nat, d[i] > r \/ (d[i] = r /\ i < j)
  PROVE  d[j] > r
<1>1. d[i] \in Nat /\ d[j] \in Nat /\ i \in Nat /\ j \in Nat
  OBVIOUS
<1>2. i = j \/ d[i] < d[j]
  BY <1>1 DEF Ascending
<1> QED
  BY <1>1, <1>2

(* Of h rows or more, that the last h are newer depends on the h-th last only, *)
(* and is not changed by dropping rows before them.                            *)
LEMMA NewerInSuffix ==
  ASSUME NEW d \in Seq(Nat), NEW k \in 0 .. Len(d), NEW h \in Nat \ {0}, Len(d) - k >= h,
         NEW r \in Nat, d[Len(d) - h + 1] > r,
         NEW e, e = SubSeq(d, k + 1, Len(d))
  PROVE  Len(e) >= h /\ e[Len(e) - h + 1] > r
<1> DEFINE n == Len(d)
<1>1. n \in Nat /\ k \in Nat
  OBVIOUS
<1>2. Len(e) = n - k /\ \A i \in 1 .. n - k : e[i] = d[k + i]
  OBVIOUS
<1> HIDE DEF n
<1>3. n - k - h + 1 \in 1 .. n - k /\ k + (n - k - h + 1) = n - h + 1
  BY <1>1 DEF n
<1> QED
  BY <1>1, <1>2, <1>3 DEF n

(* A frame in ascending order that lost its first k rows, those that are too *)
(* old or have h newer ones after them: a row that had h newer ones at one   *)
(* of its places still has, or is too old.                                   *)
LEMMA StillDisplaced ==
  ASSUME NEW d \in Seq(Nat), Ascending(d), NEW k \in 0 .. Len(d) - 1, NEW h \in Nat \ {0},
         NEW r \in Nat, NEW i \in DOMAIN d, NEW j \in DOMAIN d, j = Len(d) - h + 1,
         i <= j, d[i] > r \/ (d[i] = r /\ i < j),
         NEW e, e = SubSeq(d, k + 1, Len(d)),
         \A x \in 1 .. k :
           \/ MaxOld # None /\ d[Len(d)] - d[x] > MaxOld
           \/ Len(d) - k >= h
  PROVE  \/ Len(e) >= h /\ e[Len(e) - h + 1] > r
         \/ MaxOld # None /\ d[Len(d)] - r > MaxOld
<1>1. d[j] > r /\ d[j] \in Nat /\ d[Len(d)] \in Nat
  BY NewerLater
<1>2. CASE Len(d) - k >= h
  <2>1. d[Len(d) - h + 1] > r
    BY <1>1
  <2> QED
    BY <1>2, <2>1, NewerInSuffix
<1>3. CASE ~(Len(d) - k >= h)
  <2>1. j \in 1 .. k
    BY <1>3
  <2>2. MaxOld # None /\ d[Len(d)] - d[j] > MaxOld
    BY <1>3, <2>1
  <2>3. MaxOld \in Nat
    BY <2>2, StreamLimits
  <2> QED
    BY <1>1, <2>2, <2>3
<1> QED
  BY <1>2, <1>3

(* A frame that has the newest rows of what it had and of what was read, in *)
(* the order of the query, lacks only rows that retention dropped.          *)
LEMMA SuffixLacksDisplaced ==
  ASSUME NEW d \in Seq(Nat), Ascending(d), d # <<>>,
         NEW old \in Seq(Nat), Len(old) <= Len(d), \A i \in DOMAIN old : old[i] = d[i],
         NEW c \in Nat, NEW k \in 0 .. Len(d) - 1,
         \A i \in 1 .. k :
           \/ MaxOld # None /\ d[Len(d)] - d[i] > MaxOld
           \/ MaxHeld # None /\ Len(d) - k >= MaxHeld,
         NEW r \in Nat,
         NEW e, e = SubSeq(d, k + 1, Len(d)), r \notin Elements(e),
         \/ r \in Elements(d)
         \/ MaxHeld # None /\ Len(old) >= MaxHeld /\ old[Len(old) - MaxHeld + 1] > r
         \/ MaxOld # None /\ c - r > MaxOld /\ c <= d[Len(d)]
  PROVE  \/ MaxHeld # None /\ Len(e) >= MaxHeld /\ e[Len(e) - MaxHeld + 1] > r
         \/ MaxOld # None /\ d[Len(d)] - r > MaxOld
<1> DEFINE n == Len(d)
<1>1. /\ n \in Nat \ {0} /\ DOMAIN d = 1 .. n /\ \A i \in 1 .. n : d[i] \in Nat
      /\ Len(old) \in Nat /\ DOMAIN old = 1 .. Len(old)
  OBVIOUS
<1>2. /\ Len(e) = n - k /\ DOMAIN e = 1 .. n - k
      /\ \A i \in 1 .. n - k : e[i] = d[k + i]
  BY <1>1
<1>3. CASE r \in Elements(d)
  <2>1. PICK i \in 1 .. n : d[i] = r
    BY <1>1, <1>3 DEF Elements
  <2> HIDE DEF n
  <2>2. i <= k
    <3> SUFFICES ASSUME i > k PROVE FALSE
      BY <1>1
    <3>1. i - k \in 1 .. n - k /\ k + (i - k) = i
      BY <1>1
    <3> QED
      BY <1>2, <2>1, <3>1 DEF Elements
  <2>3. CASE MaxOld # None /\ d[n] - d[i] > MaxOld
    BY <2>1, <2>3 DEF n
  <2>4. CASE MaxHeld # None /\ n - k >= MaxHeld
    <3>1. MaxHeld \in Nat \ {0} /\ n - k >= MaxHeld
      BY <2>4, StreamLimits
    <3> DEFINE j == n - MaxHeld + 1
    <3>2. j \in DOMAIN d /\ i \in DOMAIN d /\ i < j /\ i <= j
      BY <1>1, <2>2, <3>1
    <3> HIDE DEF j
    <3>3. d[j] > r
      BY <2>1, <3>2, NewerLater
    <3> USE DEF j
    <3> QED
      BY <2>4, <3>1, <3>3, NewerInSuffix DEF n
  <2>5. i \in 1 .. k
    BY <2>2
  <2> QED
    BY <2>3, <2>4, <2>5 DEF n
<1>4. CASE MaxOld # None /\ c - r > MaxOld /\ c <= d[Len(d)]
  <2>1. d[n] \in Nat /\ MaxOld \in Nat /\ c <= d[n] /\ c - r > MaxOld
    BY <1>1, <1>4, StreamLimits
  <2> HIDE DEF n
  <2>2. d[n] - r > MaxOld
    BY <2>1
  <2> QED
    BY <1>4, <2>2 DEF n
<1>5. CASE MaxHeld # None /\ Len(old) >= MaxHeld /\ old[Len(old) - MaxHeld + 1] > r
  <2> DEFINE i == Len(old) - MaxHeld + 1
             j == n - MaxHeld + 1
  <2>1. MaxHeld \in Nat \ {0} /\ Len(old) >= MaxHeld /\ Len(old) <= n /\ n \in Nat /\ Len(old) \in Nat
    BY <1>1, <1>5, StreamLimits
  <2>2. i \in 1 .. Len(old) /\ i \in 1 .. n /\ j \in 1 .. n /\ i <= j
    <3> HIDE DEF n
    <3> QED
      BY <2>1
  <2>3. d[i] > r
    BY <1>1, <1>5, <2>2
  <2>4. i \in DOMAIN d /\ j \in DOMAIN d
    BY <1>1, <2>2
  <2>5. j = Len(d) - MaxHeld + 1
    OBVIOUS
  <2> HIDE DEF i, j
  <2> QED
    BY <1>5, <2>1, <2>2, <2>3, <2>4, <2>5, StillDisplaced
<1> QED
  BY <1>3, <1>4, <1>5

(* A frame of some of the rows is one of the rows. *)
LEMMA WiderSeq ==
  ASSUME NEW S, NEW T, S \subseteq T, NEW s \in Seq(S)
  PROVE  s \in Seq(T)
<1>1. Len(s) \in Nat /\ s \in [1 .. Len(s) -> T]
  OBVIOUS
<1> QED
  BY <1>1

(* Dropping the first rows keeps the order. *)
LEMMA SuffixAscends ==
  ASSUME NEW d \in Seq(Nat), Ascending(d), NEW k \in 0 .. Len(d)
  PROVE  Ascending(SubSeq(d, k + 1, Len(d)))
<1> DEFINE n == Len(d)
           e == SubSeq(d, k + 1, n)
<1>1. /\ n \in Nat /\ k \in Nat /\ DOMAIN d = 1 .. n /\ DOMAIN e = 1 .. n - k
      /\ \A i \in 1 .. n - k : e[i] = d[k + i]
  OBVIOUS
<1> HIDE DEF n, e
<1>2. ASSUME NEW i \in 1 .. n - k, NEW j \in 1 .. n - k, i < j PROVE e[i] < e[j]
  <2>1. k + i \in 1 .. n /\ k + j \in 1 .. n /\ k + i < k + j
    BY <1>1, <1>2
  <2> QED
    BY <1>1, <2>1 DEF Ascending
<1>3. Ascending(e)
  BY <1>1, <1>2 DEF Ascending
<1> QED
  BY <1>3 DEF e, n

(* An update keeps the invariant, of an empty delta as of one with rows. *)
LEMMA UpdateStep ==
  ASSUME StreamInv, NEW force \in BOOLEAN, Stream!Update(force)
  PROVE  StreamInv'
<1> DEFINE delta == Stream!Fetched(cursor)
<1>1. /\ cursor' = Stream!Advanced(cursor, delta)
      /\ delta = {} => held' = held
      /\ delta # {} => \E d \in Stream!Frames(delta) : held' = Stream!Retained(held \o d)
      /\ read' = hour /\ ordered' = ordered /\ rows' = rows /\ base' = base /\ raised' = raised /\ hour' = hour
  BY DEF Stream!Update
<1>2. /\ delta = {r \in rows : r > cursor} /\ delta \in SUBSET (1 .. hour) /\ hour \in Nat
      /\ delta # {} => cursor' \in delta /\ \A r \in delta : r <= cursor'
  BY <1>1, FetchedRows DEF StreamInv
<1> HIDE DEF delta
<1>3. CASE delta = {}
  <2>1. cursor' = cursor /\ held' = held
    BY <1>1, <1>3 DEF Stream!Advanced
  <2>2. Stream!TypeOK'
    BY <1>1, <1>2, <2>1 DEF StreamInv, Stream!TypeOK
  <2> QED
    BY <1>1, <2>1, <2>2 DEF StreamInv, Displaced, Ascending, Single, Elements
<1>4. CASE delta # {}
  <2>1. PICK d \in Stream!Frames(delta) : held' = Stream!Retained(held \o d)
    BY <1>1, <1>4
  <2> DEFINE full == held \o d
  <2>2. /\ full \in Seq(rows) /\ full # <<>>
        /\ Elements(full) = Elements(held) \cup delta
        /\ Single(full)
        /\ \A i \in DOMAIN full : full[i] <= cursor'
        /\ ordered => Ascending(full) /\ full[Len(full)] = cursor'
    BY <1>1, <1>4, ReadAppends DEF delta
  <2>3. /\ Len(held) \in Nat /\ held \in Seq(rows) /\ Len(held) <= Len(full)
        /\ \A i \in DOMAIN held : held[i] = full[i]
    <3>1. d \in Seq(delta)
      BY <1>2, FrameOfRows
    <3> QED
      BY <3>1 DEF StreamInv, Stream!TypeOK
  <2> HIDE DEF full
  <2>4. held' \in Seq(rows) /\ Elements(held') \subseteq Elements(full) /\ Single(held')
    BY <2>1, <2>2, RetainedKeeps DEF full
  <2>5. /\ ordered \in BOOLEAN /\ rows \subseteq 1 .. hour /\ cursor \in 0 .. hour /\ base \in 0 .. cursor
        /\ raised \in BOOLEAN /\ cursor \in rows \cup {0}
    BY DEF StreamInv, Stream!TypeOK
  <2>6. cursor' \in rows /\ cursor < cursor' /\ cursor' \in 1 .. hour
    BY <1>2, <1>4
  <2>7. Stream!TypeOK'
    <3>1. base \in 0 .. cursor'
      BY <2>5, <2>6
    <3> QED
      BY <1>1, <1>2, <2>4, <2>5, <2>6, <3>1 DEF Stream!TypeOK
  <2>8. \A i \in DOMAIN held' : held'[i] <= cursor'
    <3> SUFFICES ASSUME NEW i \in DOMAIN held' PROVE held'[i] <= cursor'
      OBVIOUS
    <3>1. held'[i] \in Elements(full)
      BY <2>4 DEF Elements
    <3>2. PICK j \in DOMAIN full : held'[i] = full[j]
      BY <3>1 DEF Elements
    <3> QED
      BY <2>2, <3>2
  <2>9. ASSUME ordered
        PROVE  /\ Ascending(held')
               /\ held' # <<>> => held'[Len(held')] = cursor'
               /\ ~raised => \A r \in rows :
                    base < r /\ r <= cursor' /\ r \notin Elements(held') => Displaced(r)'
    <3>1. full \in Seq(Nat) /\ held \in Seq(Nat)
      <4>1. rows \subseteq Nat
        BY <2>5
      <4> QED
        BY <2>2, <2>3, <4>1, WiderSeq
    <3>2. Ascending(full) /\ full[Len(full)] = cursor'
      BY <2>2, <2>9
    <3>3. PICK k \in 0 .. Len(full) - 1 :
            /\ Stream!Retained(full) = SubSeq(full, k + 1, Len(full))
            /\ \A i \in 1 .. k :
                 \/ MaxOld # None /\ full[Len(full)] - full[i] > MaxOld
                 \/ MaxHeld # None /\ Len(full) - k >= MaxHeld
      BY <2>2, <3>1, <3>2, RetainedDrops
    <3>4. held' = SubSeq(full, k + 1, Len(full))
      BY <2>1, <3>3 DEF full
    <3>5. /\ Len(held') = Len(full) - k /\ DOMAIN held' = 1 .. Len(full) - k
          /\ \A i \in 1 .. Len(full) - k : held'[i] = full[k + i]
          /\ DOMAIN full = 1 .. Len(full) /\ Len(full) \in Nat /\ k \in Nat
      BY <3>1, <3>4
    <3>6. Ascending(held')
      <4>1. k \in 0 .. Len(full)
        BY <3>5
      <4> QED
        BY <3>1, <3>2, <3>4, <4>1, SuffixAscends
    <3>7. held'[Len(held')] = cursor'
      BY <3>2, <3>5
    <3>8. ASSUME NEW r \in rows, ~raised, base < r, r <= cursor', r \notin Elements(held')
          PROVE  Displaced(r)'
      <4>1. r \in Nat /\ cursor \in Nat
        BY <2>5
      <4>2. CASE r \in Elements(held) \cup delta
        <5>1. r \in Elements(full)
          BY <2>2, <4>2
        <5> QED
          BY <2>2, <2>3, <3>1, <3>2, <3>3, <3>4, <3>8, <4>1, <5>1, SuffixLacksDisplaced DEF Displaced
      <4>3. CASE r \notin Elements(held) \cup delta
        <5>1. r <= cursor
          BY <1>2, <4>1, <4>3
        <5>2. Displaced(r)
          BY <2>9, <3>8, <4>3, <5>1 DEF StreamInv
        <5>3. cursor <= full[Len(full)]
          BY <2>5, <2>6, <3>2
        <5>4. \/ MaxHeld # None /\ Len(held) >= MaxHeld /\ held[Len(held) - MaxHeld + 1] > r
              \/ MaxOld # None /\ cursor - r > MaxOld /\ cursor <= full[Len(full)]
          BY <5>2, <5>3 DEF Displaced
        <5> QED
          BY <2>2, <2>3, <3>1, <3>2, <3>3, <3>4, <3>8, <4>1, <5>4, SuffixLacksDisplaced DEF Displaced
      <4> QED
        BY <4>2, <4>3
    <3> QED
      BY <3>6, <3>7, <3>8
  <2> QED
    BY <1>1, <2>4, <2>6, <2>7, <2>8, <2>9 DEF StreamInv
<1> QED
  BY <1>3, <1>4

(* A frame in ascending order ends with the greatest of its rows. *)
LEMMA AscendingEnds ==
  ASSUME NEW d, NEW taken \in SUBSET Nat, d \in Seq(taken), d # <<>>, Ascending(d), Elements(d) = taken,
         NEW c \in taken, \A r \in taken : r <= c
  PROVE  d[Len(d)] = c
<1>1. Len(d) \in Nat /\ Len(d) \in DOMAIN d /\ DOMAIN d = 1 .. Len(d) /\ d[Len(d)] \in taken
  OBVIOUS
<1>2. PICK i \in DOMAIN d : d[i] = c
  BY DEF Elements
<1>3. i = Len(d) \/ d[i] < d[Len(d)]
  BY <1>1 DEF Ascending
<1>4. d[Len(d)] <= c /\ d[Len(d)] \in Nat /\ c \in Nat
  BY <1>1
<1> QED
  BY <1>2, <1>3, <1>4

(* The constructor fetches the rows up to the cursor, or the query is not the *)
(* part that runs and has none.                                               *)
LEMMA StreamStarts == PartsInit => StreamInv
<1> SUFFICES ASSUME PartsInit PROVE StreamInv
  OBVIOUS
<1>1. /\ ordered \in BOOLEAN /\ hour = Built /\ rows \in SUBSET (1 .. Built)
      /\ held \in Stream!Frames({r \in rows : r > 0})
      /\ cursor = Stream!Advanced(0, rows) /\ read = hour /\ base = 0 /\ raised = FALSE
  BY DEF PartsInit, Stream!Init
<1>2. {r \in rows : r > 0} = rows /\ Built \in Nat /\ rows \in SUBSET (0 .. Built)
  <2>1. Built \in Nat
    BY StreamLimits
  <2>2. 1 .. Built \subseteq 0 .. Built /\ \A r \in 1 .. Built : r > 0
    BY <2>1
  <2>3. rows \subseteq 1 .. Built
    BY <1>1
  <2> QED
    BY <2>1, <2>2, <2>3
<1>3. held \in Seq(rows) /\ Elements(held) = rows /\ Single(held) /\ (ordered => Ascending(held))
  BY <1>1, <1>2, FrameOfRows
<1>4. /\ cursor \in rows \cup {0} /\ cursor \in 0 .. hour
      /\ \A r \in rows : r <= cursor
      /\ rows # {} => cursor \in rows
  <2>1. CASE rows = {}
    BY <1>1, <1>2, <2>1 DEF Stream!Advanced
  <2>2. CASE rows # {}
    <3>1. cursor \in rows /\ \A r \in rows : r <= cursor
      BY <1>1, <1>2, <2>2, GreatestRow DEF Stream!Advanced
    <3> QED
      BY <1>1, <1>2, <3>1
  <2> QED
    BY <2>1, <2>2
<1>5. Stream!TypeOK
  <2>1. hour \in Nat /\ read = hour /\ base = 0 /\ raised \in BOOLEAN /\ cursor \in Nat
    <3>1. hour \in Nat
      BY <1>1, <1>2
    <3>2. cursor \in Nat
      BY <1>4, <3>1
    <3> QED
      BY <1>1, <3>1, <3>2
  <2>3. read \in 0 .. hour /\ base \in 0 .. cursor
    BY <2>1
  <2>2. rows \subseteq 1 .. hour
    BY <1>1
  <2> QED
    BY <1>1, <1>3, <1>4, <2>1, <2>2, <2>3 DEF Stream!TypeOK
<1>6. \A i \in DOMAIN held : held[i] \in rows
  BY <1>3
<1>7. ASSUME ordered, held # <<>> PROVE held[Len(held)] = cursor
  BY <1>1, <1>2, <1>3, <1>4, <1>7, AscendingEnds
<1> QED
  BY <1>1, <1>3, <1>4, <1>5, <1>6, <1>7 DEF StreamInv

(* A reset fetches anew, from the cursor where it is. *)
LEMMA ResetStep ==
  ASSUME StreamInv, Stream!Reset
  PROVE  StreamInv'
<1> DEFINE delta == Stream!Fetched(cursor)
<1>1. /\ held' \in Stream!Frames(delta) /\ cursor' = Stream!Advanced(cursor, delta) /\ base' = cursor
      /\ raised' = FALSE /\ read' = hour /\ ordered' = ordered /\ rows' = rows /\ hour' = hour
  BY DEF Stream!Reset
<1>2. /\ delta = {r \in rows : r > cursor} /\ delta \in SUBSET (1 .. hour) /\ hour \in Nat
      /\ delta # {} => cursor' \in delta /\ \A r \in delta : r <= cursor'
  BY <1>1, FetchedRows DEF StreamInv
<1>3. delta = {} => cursor' = cursor
  BY <1>1 DEF Stream!Advanced
<1>4. /\ ordered \in BOOLEAN /\ rows \subseteq 1 .. hour /\ cursor \in 0 .. hour
      /\ cursor \in rows \cup {0}
  BY DEF StreamInv, Stream!TypeOK
<1> HIDE DEF delta
<1>5. held' \in Seq(delta) /\ Elements(held') = delta /\ Single(held') /\ (ordered => Ascending(held'))
  BY <1>1, <1>2, FrameOfRows
<1>6. /\ cursor' \in rows \cup {0} /\ cursor' \in 0 .. hour /\ cursor <= cursor'
      /\ \A r \in delta : r <= cursor'
  BY <1>2, <1>3, <1>4
<1>7. held' \in Seq(rows) /\ \A i \in DOMAIN held' : held'[i] \in delta
  <2>1. delta \subseteq rows
    BY <1>2
  <2> QED
    BY <1>5, <2>1, WiderSeq
<1>8. Stream!TypeOK'
  <2>1. base' \in 0 .. cursor'
    BY <1>1, <1>4, <1>6
  <2>2. read' \in 0 .. hour
    BY <1>1, <1>2
  <2>3. raised' \in BOOLEAN
    BY <1>1
  <2> QED
    BY <1>1, <1>2, <1>4, <1>6, <1>7, <2>1, <2>2, <2>3 DEF Stream!TypeOK
<1>9. ASSUME ordered, held' # <<>> PROVE held'[Len(held')] = cursor'
  <2>1. delta # {}
    BY <1>7, <1>9
  <2>2. cursor' \in delta /\ \A r \in delta : r <= cursor'
    BY <1>2, <2>1
  <2>3. delta \subseteq Nat
    BY <1>2
  <2> QED
    BY <1>5, <1>9, <2>2, <2>3, AscendingEnds
<1>10. ASSUME NEW r \in rows, cursor < r, r \notin Elements(held') PROVE FALSE
  BY <1>2, <1>5, <1>10
<1>11. (\A i \in DOMAIN held : held[i] <= cursor)'
  BY <1>6, <1>7
<1> QED
  BY <1>1, <1>5, <1>6, <1>8, <1>9, <1>10, <1>11 DEF StreamInv

(* The steps that leave the frame alone: a skipped, failed or refused update, *)
(* a new row at the source, and time.                                         *)
LEMMA OtherStep ==
  ASSUME StreamInv,
         \/ UNCHANGED streamVars
         \/ \E force \in BOOLEAN : Stream!UpdateRaises(force)
         \/ Stream!Insert \/ Stream!Tick
  PROVE  StreamInv'
<1>1. CASE UNCHANGED streamVars
  BY <1>1 DEF streamVars, StreamInv, Stream!TypeOK, Displaced, Ascending, Single, Elements
<1>2. ASSUME NEW force \in BOOLEAN, Stream!UpdateRaises(force)
      PROVE  StreamInv'
  <2>1. /\ Stream!Fetched(cursor) # {} /\ cursor' = Stream!Advanced(cursor, Stream!Fetched(cursor))
        /\ raised' = TRUE /\ held' = held /\ rows' = rows /\ ordered' = ordered /\ read' = read
        /\ base' = base /\ hour' = hour
    BY <1>2 DEF Stream!UpdateRaises
  <2>2. cursor' \in {r \in rows : r > cursor}
    BY <2>1, FetchedRows DEF StreamInv
  <2>3. /\ rows \subseteq 1 .. hour /\ hour \in Nat /\ cursor \in 0 .. hour /\ base \in 0 .. cursor
        /\ held \in Seq(rows) /\ \A i \in DOMAIN held : held[i] <= cursor
    BY DEF StreamInv, Stream!TypeOK
  <2>4. cursor' \in 0 .. hour /\ base \in 0 .. cursor' /\ cursor' \in rows
    BY <2>2, <2>3
  <2>5. \A i \in DOMAIN held : held[i] <= cursor'
    <3> SUFFICES ASSUME NEW i \in DOMAIN held PROVE held[i] <= cursor'
      OBVIOUS
    <3>1. held[i] \in Nat /\ held[i] <= cursor
      <4>1. held[i] \in rows
        BY <2>3
      <4>2. \A r \in rows : r \in Nat
        BY <2>3
      <4> QED
        BY <2>3, <4>1, <4>2
    <3>2. cursor \in Nat /\ cursor' \in Nat /\ cursor < cursor'
      BY <2>2, <2>3
    <3> QED
      BY <3>1, <3>2
  <2>6. Stream!TypeOK'
    BY <2>1, <2>3, <2>4 DEF StreamInv, Stream!TypeOK
  <2> QED
    BY <2>1, <2>4, <2>5, <2>6 DEF StreamInv, Ascending, Single
<1>3. CASE Stream!Insert
  <2>1. /\ hour \notin rows /\ hour > 0 /\ rows' = rows \cup {hour}
        /\ held' = held /\ cursor' = cursor /\ raised' = raised /\ ordered' = ordered /\ read' = read
        /\ base' = base /\ hour' = hour
    BY <1>3 DEF Stream!Insert
  <2>2. /\ rows \subseteq 1 .. hour /\ hour \in Nat /\ cursor \in 0 .. hour /\ cursor \in rows \cup {0}
        /\ held \in Seq(rows)
    BY DEF StreamInv, Stream!TypeOK
  <2>3. ~(hour <= cursor)
    BY <2>1, <2>2
  <2>4. held \in Seq(rows')
    BY <2>1, <2>2, WiderSeq
  <2>5. rows' \subseteq 1 .. hour
    BY <2>1, <2>2
  <2>6. Stream!TypeOK'
    BY <2>1, <2>4, <2>5 DEF StreamInv, Stream!TypeOK
  <2>7. ASSUME ordered, ~raised, NEW r \in rows', base < r, r <= cursor, r \notin Elements(held)
        PROVE  Displaced(r)'
    <3>1. r \in rows
      BY <2>1, <2>3, <2>7
    <3>2. Displaced(r)
      BY <2>7, <3>1 DEF StreamInv
    <3> QED
      BY <2>1, <3>2 DEF Displaced
  <2>8. Elements(held)' = Elements(held)
    BY <2>1 DEF Elements
  <2> QED
    BY <2>1, <2>2, <2>6, <2>7, <2>8 DEF StreamInv, Ascending, Single
<1>4. CASE Stream!Tick
  <2>1. /\ hour' = hour + 1 /\ rows' = rows
        /\ held' = held /\ cursor' = cursor /\ raised' = raised /\ ordered' = ordered /\ read' = read
        /\ base' = base
    BY <1>4 DEF Stream!Tick
  <2>2. Stream!TypeOK'
    <3>1. /\ hour \in Nat /\ rows \subseteq 1 .. hour /\ cursor \in 0 .. hour /\ read \in 0 .. hour
      BY DEF StreamInv, Stream!TypeOK
    <3>2. 1 .. hour \subseteq 1 .. hour + 1 /\ 0 .. hour \subseteq 0 .. hour + 1 /\ hour + 1 \in Nat
      BY <3>1
    <3> QED
      BY <2>1, <3>1, <3>2 DEF StreamInv, Stream!TypeOK
  <2> QED
    BY <2>1, <2>2 DEF StreamInv, Displaced, Ascending, Single, Elements
<1> QED
  BY <1>1, <1>2, <1>3, <1>4

(* The invariant holds of the stream, whichever part runs. *)
THEOREM StreamHolds == PartsSpec => []StreamInv
<1>1. ASSUME StreamInv, [PartsNext]_partsVars PROVE StreamInv'
  <2>1. CASE part = "stream" /\ Stream!Next
    BY <1>1, <2>1, UpdateStep, ResetStep, OtherStep
    DEF Stream!Next, Stream!Skip, Stream!UpdateFails, Stream!ResetRaises, streamVars
  <2>2. CASE UNCHANGED streamVars
    BY <1>1, <2>2, OtherStep
  <2> QED
    BY <1>1, <2>1, <2>2 DEF PartsNext, partsVars
<1> QED
  BY <1>1, StreamStarts, PTL DEF PartsSpec

(* "only rows past the previous cursor are fetched" and "Fetch new rows    *)
(* since the last cursor and append them" (live.py, StreamingQuery): for   *)
(* any limits and any sequence of updates, failures and resets, the frame  *)
(* has no row twice, lacks only those that max_rows or max_age dropped,    *)
(* and ends at the cursor.                                                 *)
THEOREM StreamsHoldEachOnce == PartsSpec => []StreamHoldsEachOnce
<1>1. ASSUME StreamInv PROVE StreamHoldsEachOnce
  <2>1. /\ held \in Seq(rows) /\ rows \subseteq 1 .. hour /\ hour \in Nat /\ cursor \in 0 .. hour
        /\ Len(held) \in Nat /\ DOMAIN held = 1 .. Len(held) /\ Stream!TypeOK
    BY <1>1 DEF StreamInv, Stream!TypeOK
  <2>2. Stream!ToSet(held) = Elements(held)
    BY DEF Stream!ToSet, Elements
  <2>3. Stream!SeenOnce
    BY <1>1 DEF StreamInv, Single, Stream!SeenOnce, Stream!IsInjective
  <2>4. \A i \in DOMAIN held : held[i] \in Nat
    <3>1. \A i \in DOMAIN held : held[i] \in rows
      BY <2>1
    <3>2. \A r \in rows : r \in Nat
      BY <2>1
    <3> QED
      BY <3>1, <3>2
  <2>5. Stream!MissingOnlyByRetention
    <3> SUFFICES ASSUME ordered, ~raised, NEW r \in rows, base < r, r <= cursor, r \notin Elements(held)
                 PROVE  \/ MaxHeld # None /\ Stream!Cardinality({s \in Elements(held) : s > r}) >= MaxHeld
                        \/ MaxOld # None /\ cursor - r > MaxOld
      BY <2>2 DEF Stream!MissingOnlyByRetention
    <3>1. Displaced(r)
      BY <1>1 DEF StreamInv
    <3>2. CASE MaxHeld # None /\ Len(held) >= MaxHeld /\ held[Len(held) - MaxHeld + 1] > r
      <4> DEFINE n == Len(held)
                 newer == {s \in Elements(held) : s > r}
                 place == [x \in 1 .. MaxHeld |-> held[n - MaxHeld + x]]
      <4>1. MaxHeld \in Nat \ {0} /\ r \in Nat /\ n \in Nat /\ n >= MaxHeld
        BY <2>1, <3>2, StreamLimits
      <4>2. held \in Seq(Nat) /\ Ascending(held) /\ Single(held)
        BY <1>1, <2>1, <2>4 DEF StreamInv
      <4>3. ASSUME NEW x \in 1 .. MaxHeld PROVE n - MaxHeld + x \in DOMAIN held /\ place[x] \in newer
        <5> DEFINE j == n - MaxHeld + 1
                   y == n - MaxHeld + x
        <5>1. j \in DOMAIN held /\ y \in DOMAIN held /\ j <= y
          BY <2>1, <4>1
        <5>2. held[j] > r
          BY <3>2
        <5> HIDE DEF j, y
        <5>3. held[y] > r
          BY <4>1, <4>2, <5>1, <5>2, NewerLater
        <5> USE DEF y
        <5> QED
          BY <5>1, <5>3 DEF Elements
      <4>4. ASSUME NEW x \in 1 .. MaxHeld, NEW y \in 1 .. MaxHeld, place[x] = place[y] PROVE x = y
        <5>1. n - MaxHeld + x = n - MaxHeld + y
          BY <4>2, <4>3, <4>4 DEF Single
        <5> QED
          BY <4>1, <5>1
      <4>5. IsFiniteSet(newer) /\ Cardinality(newer) \in Nat
        <5>1. newer \subseteq 1 .. hour
          <6> SUFFICES ASSUME NEW x \in newer PROVE x \in 1 .. hour
            OBVIOUS
          <6>1. PICK k \in DOMAIN held : x = held[k]
            BY DEF Elements
          <6> HIDE DEF newer, place, n
          <6>2. held[k] \in rows
            BY <2>1
          <6> QED
            BY <2>1, <6>1, <6>2
        <5>2. IsFiniteSet(1 .. hour)
          BY <2>1, FS_Interval
        <5> QED
          BY <5>1, <5>2, FS_Subset, FS_CardinalityType
      <4>6. place \in Injection(1 .. MaxHeld, newer)
        <5>1. place \in [1 .. MaxHeld -> newer]
          BY <4>3
        <5> HIDE DEF place
        <5> QED
          BY <4>4, <5>1 DEF Injection, IsInjective
      <4>7. Cardinality(1 .. MaxHeld) = MaxHeld
        BY <4>1, FS_Interval
      <4> HIDE DEF newer, place
      <4>8. Cardinality(newer) >= MaxHeld
        BY <4>1, <4>5, <4>6, <4>7, FS_Injection
      <4> QED
        BY <3>2, <4>8, NumberOf DEF newer
    <3> QED
      BY <3>1, <3>2 DEF Displaced
  <2>6. Stream!CursorIsNewest
    <3> SUFFICES ASSUME ordered, ~raised, held # <<>> PROVE cursor = Stream!Max(Elements(held))
      BY <2>2 DEF Stream!CursorIsNewest
    <3>1. held[Len(held)] = cursor /\ \A i \in DOMAIN held : held[i] <= cursor
      BY <1>1 DEF StreamInv
    <3>2. cursor \in Elements(held) /\ \A r \in Elements(held) : r <= cursor /\ r \in Nat
      BY <2>1, <2>4, <3>1 DEF Elements
    <3>3. ASSUME NEW r \in Elements(held), \A s \in Elements(held) : r >= s PROVE r = cursor
      <4>1. r <= cursor /\ r >= cursor /\ r \in Nat /\ cursor \in Nat
        BY <2>1, <3>2, <3>3
      <4> QED
        BY <4>1
    <3>4. \A s \in Elements(held) : cursor >= s
      BY <2>1, <3>2
    <3> QED
      BY <3>2, <3>3, <3>4 DEF Stream!Max
  <2> QED
    BY <2>1, <2>3, <2>5, <2>6 DEF StreamHoldsEachOnce
<1> QED
  BY <1>1, StreamHolds, PTL

-----------------------------------------------------------------------------
(* A live query over a window of time, whose template is no BETWEEN over    *)
(* raw rows: the frame of one has rows twice.                              *)

Apart(d) == \A i, j \in DOMAIN d : d[i].at = d[j].at => i = j

InOrder(d) == \A i, j \in DOMAIN d : i < j => Window!Before(d[i], d[j])

\* The backends leave the rows in order, unless they mix them up to remove duplicates.
Orderly == window.deduplicate => window.keepsOrder

\* All rows of the source, or all of its buckets.
Genuine ==
  IF window.buckets
  THEN {[at |-> b, n |-> Cardinality(Window!Bucket(b))] : b \in {c \in Int : Window!Bucket(c) # {}}}
  ELSE {[at |-> p[1], n |-> p[2]] : p \in Window!Stored}

\* Rows that are newer than r have taken its place in S.
Ousted(S, r) ==
  \/ window.maxRows # None /\ Cardinality({s \in S : Window!Before(r, s)}) >= window.maxRows
  \/ window.maxAge # None /\ \E s \in S : Window!Before(r, s) /\ s.at - r.at > window.maxAge

\* The rows are from before the end of the window, or of the bucket that is open there.
Bounded(S) ==
  \A r \in S : r.at < Window!Cut(end) \/ (window.buckets /\ r.at = Window!Cut(end))

\* What the frame holds of the window is at the source, and what it lacks was ousted.
Complete ==
  LET S == Elements(frame) IN
  /\ Orderly => InOrder(frame)
  /\ window.buckets => \A r \in S : Window!Bucket(r.at) # {}
  /\ \A r \in S : Window!Cut(start) <= r.at /\ r.at < Window!Cut(end) => r \in Genuine
  /\ \A r \in Genuine :
       Window!Cut(start) <= r.at /\ r.at < Window!Cut(end) /\ r \notin S => Ousted(S, r)

WindowInv ==
  /\ ~window.closed
  /\ Window!TypeOK
  /\ Single(frame)
  /\ window.buckets => Apart(frame)
  /\ Bounded(Elements(frame))
  /\ ~escaped => Complete

-----------------------------------------------------------------------------
(* The arguments of the windowed query: validate_retention, and what is     *)
(* assumed of them.                                                         *)
LEMMA WindowLimits ==
  ASSUME window \in Windows
  PROVE  /\ window.grain \in Nat \ {0}
         /\ window.buckets \in BOOLEAN /\ window.rolling \in BOOLEAN
         /\ window.deduplicate = window.buckets
         /\ window.maxRows # None => window.maxRows \in Nat \ {0} /\ Orderly
         /\ window.maxAge # None => window.maxAge \in Nat \ {0}
         /\ Opened \in 0 .. WindowEnd /\ WindowEnd \in Nat /\ Arriving \in Nat
<1>1. /\ window \in Window!Setup /\ None \notin Int
      /\ Opened \in 0 .. WindowEnd /\ WindowEnd \in Nat /\ Arriving \in Nat
  BY Assumptions DEF Window!WindowedQueryAssumption
<1>2. /\ window.deduplicate <=> window.buckets
      /\ window.deduplicate => window.keepsOrder \/ window.maxRows = None
  BY WindowsAreSound
<1> QED
  BY <1>1, <1>2 DEF Window!Setup, Orderly

(* Integer division: a time that is cut to a multiple of the grain. *)
LEMMA Division ==
  ASSUME NEW g \in Nat \ {0}, NEW t \in Int
  PROVE  /\ t \div g \in Int /\ t % g \in 0 .. g - 1
         /\ t = g * (t \div g) + (t % g)
OBVIOUS

LEMMA CutRises ==
  ASSUME NEW g \in Nat \ {0}, NEW t \in Int, NEW u \in Int, t <= u
  PROVE  t - (t % g) <= u - (u % g)
<1>1. PICK q \in Int, r \in 0 .. g - 1 : t = g * q + r /\ r = t % g
  BY Division
<1>2. PICK p \in Int, s \in 0 .. g - 1 : u = g * p + s /\ s = u % g
  BY Division
<1>3. q <= p
  <2>1. SUFFICES ASSUME p + 1 <= q PROVE FALSE
    OBVIOUS
  <2>2. g * (p + 1) <= g * q
    BY <2>1
  <2>3. g * (p + 1) = g * p + g
    OBVIOUS
  <2> QED
    BY <1>1, <1>2, <2>2, <2>3
<1>4. g * q <= g * p
  BY <1>3
<1> QED
  BY <1>1, <1>2, <1>4

LEMMA CutOnce ==
  ASSUME NEW g \in Nat \ {0}, NEW t \in Int
  PROVE  /\ t - (t % g) \in Int /\ t - (t % g) <= t
         /\ t >= 0 => t - (t % g) >= 0
         /\ (t - (t % g)) % g = 0
<1>1. PICK q \in Int, r \in 0 .. g - 1 : t = g * q + r /\ r = t % g
  BY Division
<1>2. t - (t % g) = g * q
  BY <1>1
<1>3. (g * q) % g = 0
  OBVIOUS
<1>4. t >= 0 => t - (t % g) >= 0
  OBVIOUS
<1> QED
  BY <1>1, <1>2, <1>3, <1>4

(* strftime, with the time_format of the window. *)
LEMMA Rendered ==
  ASSUME window \in Windows
  PROVE  \A t \in Int :
           /\ Window!Cut(t) \in Int /\ Window!Cut(t) <= t
           /\ Window!Cut(Window!Cut(t)) = Window!Cut(t)
           /\ t >= 0 => Window!Cut(t) >= 0
           /\ \A u \in Int : t <= u => Window!Cut(t) <= Window!Cut(u)
<1> DEFINE g == window.grain
<1>1. g \in Nat \ {0}
  BY WindowLimits
<1>2. \A t : Window!Cut(t) = t - (t % g)
  BY DEF Window!Cut
<1> HIDE DEF g
<1>3. ASSUME NEW t \in Int
      PROVE  /\ Window!Cut(t) \in Int /\ Window!Cut(t) <= t /\ (t >= 0 => Window!Cut(t) >= 0)
             /\ Window!Cut(Window!Cut(t)) = Window!Cut(t)
  <2>1. /\ t - (t % g) \in Int /\ t - (t % g) <= t
        /\ t >= 0 => t - (t % g) >= 0
        /\ (t - (t % g)) % g = 0
    BY <1>1, CutOnce
  <2>2. Window!Cut(t) = t - (t % g) /\ Window!Cut(Window!Cut(t)) = Window!Cut(t) - (Window!Cut(t) % g)
    BY <1>2
  <2> QED
    BY <2>1, <2>2
<1>4. ASSUME NEW t \in Int, NEW u \in Int, t <= u PROVE Window!Cut(t) <= Window!Cut(u)
  BY <1>1, <1>2, <1>4, CutRises
<1> QED
  BY <1>3, <1>4

LEMMA WindowNumberOf == ASSUME NEW S PROVE Window!Cardinality(S) = Cardinality(S)
BY DEF Window!Cardinality, Cardinality

(* The clocks, and the rows, of the windowed query. *)
LEMMA WindowTypes ==
  ASSUME Window!TypeOK
  PROVE  /\ window \in Windows
         /\ day \in Nat /\ start \in Nat /\ end \in Nat /\ start <= end /\ end <= day /\ day <= WindowEnd
         /\ day \in 0 .. WindowEnd /\ from \in 0 .. day /\ updated \in 0 .. day
         /\ frame \in Seq(Window!Row)
         /\ source \in [0 .. WindowEnd -> 0 .. Arriving]
         /\ escaped \in BOOLEAN
<1>1. WindowEnd \in Nat
  BY WindowLimits DEF Window!TypeOK
<1> QED
  BY <1>1 DEF Window!TypeOK

(* The source has finitely many rows, of the past, and a bucket once. *)
LEMMA GenuineRows ==
  ASSUME window \in Windows, day \in 0 .. WindowEnd
  PROVE  /\ IsFiniteSet(Genuine)
         /\ \A r \in Genuine : r \in Window!Row /\ r.at \in 0 .. day
         /\ window.buckets => \A r, s \in Genuine : r.at = s.at => r = s
         /\ window.buckets => \A r \in Genuine : Window!Bucket(r.at) # {}
<1>1. /\ window \in Windows /\ day \in Nat /\ day <= WindowEnd /\ WindowEnd \in Nat /\ Arriving \in Nat
  BY WindowLimits
<1>2. IsFiniteSet(Window!Stored)
  <2>1. IsFiniteSet((0 .. day) \X (1 .. Arriving))
    <3>1. IsFiniteSet(0 .. day) /\ IsFiniteSet(1 .. Arriving)
      BY <1>1, FS_Interval
    <3> QED
      BY <3>1, FS_Product
  <2>2. Window!Stored \subseteq (0 .. day) \X (1 .. Arriving)
    BY DEF Window!Stored
  <2> QED
    BY <2>1, <2>2, FS_Subset
<1>3. \A p \in Window!Stored : p[1] \in 0 .. day /\ p[2] \in 1 .. Arriving
  BY DEF Window!Stored
<1>4. CASE window.buckets
  <2> DEFINE row(b) == [at |-> b, n |-> Cardinality(Window!Bucket(b))]
             f == [p \in Window!Stored |-> row(Window!Cut(p[1]))]
  <2>1. Genuine = {row(b) : b \in {c \in Int : Window!Bucket(c) # {}}}
    BY <1>4 DEF Genuine
  <2>2. \A b : Window!Bucket(b) = {p \in Window!Stored : Window!Cut(p[1]) = b}
    BY DEF Window!Bucket
  <2>3. \A p \in Window!Stored : Window!Cut(p[1]) \in Int /\ Window!Cut(p[1]) \in 0 .. day
    <3> SUFFICES ASSUME NEW p \in Window!Stored PROVE Window!Cut(p[1]) \in 0 .. day
      OBVIOUS
    <3>1. p[1] \in Int /\ 0 <= p[1] /\ p[1] <= day
      BY <1>1, <1>3
    <3>2. Window!Cut(p[1]) \in Int /\ Window!Cut(p[1]) <= p[1] /\ Window!Cut(p[1]) >= 0
      BY <1>1, <3>1, Rendered
    <3> QED
      BY <1>1, <3>1, <3>2
  <2>4. \A b : Cardinality(Window!Bucket(b)) \in Nat
    BY <1>2, <2>2, FS_Subset, FS_CardinalityType
  <2>5. ASSUME NEW r \in Genuine
        PROVE  \E p \in Window!Stored : r = row(Window!Cut(p[1]))
    <3>1. PICK b \in Int : Window!Bucket(b) # {} /\ r = row(b)
      BY <2>1
    <3> QED
      BY <2>2, <3>1
  <2>6. \A p \in Window!Stored : row(Window!Cut(p[1])) \in Genuine
    BY <2>1, <2>2, <2>3
  <2>7. f \in Surjection(Window!Stored, Genuine)
    <3>1. f \in [Window!Stored -> Genuine]
      BY <2>6, Zenon
    <3>2. \A r \in Genuine : \E p \in Window!Stored : f[p] = r
      BY <2>5, Zenon
    <3> HIDE DEF f
    <3> QED
      BY <3>1, <3>2, Zenon DEF Surjection
  <2>8. IsFiniteSet(Genuine)
    BY <1>2, <2>7, FS_Surjection
  <2>9. ASSUME NEW r \in Genuine
        PROVE  r \in Window!Row /\ r.at \in 0 .. day /\ Window!Bucket(r.at) # {} /\ r = row(r.at)
    <3>1. PICK p \in Window!Stored : r = row(Window!Cut(p[1]))
      BY <2>5, <2>9
    <3>2. Window!Cut(p[1]) \in 0 .. day /\ Window!Cut(p[1]) \in 0 .. WindowEnd
      BY <1>1, <2>3
    <3>3. p \in Window!Bucket(Window!Cut(p[1]))
      BY <2>2
    <3> QED
      BY <2>4, <3>1, <3>2, <3>3 DEF Window!Row
  <2> QED
    BY <2>8, <2>9
<1>5. CASE ~window.buckets
  <2> DEFINE f == [p \in Window!Stored |-> [at |-> p[1], n |-> p[2]]]
  <2>1. Genuine = {[at |-> p[1], n |-> p[2]] : p \in Window!Stored}
    BY <1>5 DEF Genuine
  <2>2. f \in Surjection(Window!Stored, Genuine)
    <3>1. f \in [Window!Stored -> Genuine]
      BY <2>1, Zenon
    <3>2. \A r \in Genuine : \E p \in Window!Stored : f[p] = r
      BY <2>1, Zenon
    <3> HIDE DEF f
    <3> QED
      BY <3>1, <3>2, Zenon DEF Surjection
  <2>3. IsFiniteSet(Genuine)
    BY <1>2, <2>2, FS_Surjection
  <2>4. ASSUME NEW r \in Genuine PROVE r \in Window!Row /\ r.at \in 0 .. day
    <3>1. PICK p \in Window!Stored : r = [at |-> p[1], n |-> p[2]]
      BY <2>1
    <3>2. p[1] \in 0 .. day /\ p[1] \in 0 .. WindowEnd /\ p[2] \in Nat
      BY <1>1, <1>3
    <3> QED
      BY <3>1, <3>2 DEF Window!Row
  <2> QED
    BY <1>5, <2>3, <2>4
<1> QED
  BY <1>1, <1>4, <1>5, WindowLimits

(* The query selects the rows of the source by their time. *)
LEMMA AnswerIsGenuine ==
  ASSUME window \in Windows, ~window.closed, day \in 0 .. WindowEnd, NEW s \in Int, NEW e \in Int
  PROVE  \A r : r \in Window!Answer(s, e) <=>
           /\ r \in Genuine
           /\ s <= r.at
           /\ r.at < e \/ (window.buckets /\ r.at = e)
<1>1. window \in Windows /\ window.buckets \in BOOLEAN /\ day \in Nat
  BY WindowLimits
<1> SUFFICES ASSUME NEW r
             PROVE  r \in Window!Answer(s, e) <=>
                      r \in Genuine /\ s <= r.at /\ (r.at < e \/ (window.buckets /\ r.at = e))
  OBVIOUS
<1>2. CASE window.buckets
  <2> DEFINE row(b) == [at |-> b, n |-> Cardinality(Window!Bucket(b))]
  <2>1. Genuine = {row(b) : b \in {c \in Int : Window!Bucket(c) # {}}}
    BY <1>2 DEF Genuine
  <2>2. Window!Answer(s, e) = {row(b) : b \in {c \in s .. e : Window!Bucket(c) # {}}}
    BY <1>2, WindowNumberOf DEF Window!Answer
  <2>3. \A b : row(b).at = b
    OBVIOUS
  <2> HIDE DEF row
  <2>4. ASSUME r \in Window!Answer(s, e)
        PROVE  r \in Genuine /\ s <= r.at /\ (r.at < e \/ r.at = e)
    <3>1. PICK b \in s .. e : Window!Bucket(b) # {} /\ r = row(b)
      BY <2>2, <2>4
    <3>2. b \in Int /\ s <= b /\ (b < e \/ b = e)
      BY <3>1
    <3> QED
      BY <2>1, <2>3, <3>1, <3>2
  <2>5. ASSUME r \in Genuine, s <= r.at, r.at < e \/ r.at = e
        PROVE  r \in Window!Answer(s, e)
    <3>1. PICK b \in Int : Window!Bucket(b) # {} /\ r = row(b)
      BY <2>1, <2>5
    <3>2. b \in s .. e
      BY <2>3, <2>5, <3>1
    <3> QED
      BY <2>2, <3>1, <3>2
  <2> QED
    BY <1>2, <2>4, <2>5
<1>3. CASE ~window.buckets
  <2>1. Genuine = {[at |-> p[1], n |-> p[2]] : p \in Window!Stored}
    BY <1>3 DEF Genuine
  <2>2. Window!Answer(s, e) =
          {[at |-> p[1], n |-> p[2]] : p \in {q \in Window!Stored : s <= q[1] /\ q[1] < e}}
    BY <1>3 DEF Window!Answer
  <2> QED
    BY <1>3, <2>1, <2>2
<1> QED
  BY <1>1, <1>2, <1>3

-----------------------------------------------------------------------------
(* Frames that are taken from a frame.                                      *)

\* u has the rows of d at the places of K, by f; in the order of d if f rises.
Selection(u, d, f, K) ==
  /\ f \in [1 .. Len(u) -> K]
  /\ \A k \in K : \E i \in 1 .. Len(u) : f[i] = k
  /\ \A i, j \in 1 .. Len(u) : f[i] = f[j] => i = j
  /\ \A i \in 1 .. Len(u) : u[i] = d[f[i]]

Rising(f) == \A i, j \in DOMAIN f : i < j => f[i] < f[j]

(* A selection has the rows of the places, none twice, in their order. *)
LEMMA SelectionKeeps ==
  ASSUME NEW S, NEW d \in Seq(S), NEW K, K \subseteq DOMAIN d, NEW f,
         NEW u \in Seq(S), Selection(u, d, f, K)
  PROVE  /\ Elements(u) = {d[k] : k \in K}
         /\ Elements(u) \subseteq Elements(d)
         /\ Single(d) => Single(u)
         /\ Apart(d) => Apart(u)
         /\ Rising(f) /\ InOrder(d) => InOrder(u)
<1>1. DOMAIN u = 1 .. Len(u) /\ DOMAIN f = 1 .. Len(u)
  BY DEF Selection
<1>2. \A i \in DOMAIN u : f[i] \in K /\ f[i] \in DOMAIN d /\ u[i] = d[f[i]]
  BY <1>1 DEF Selection
<1>3. \A i, j \in DOMAIN u : f[i] = f[j] => i = j
  BY <1>1 DEF Selection
<1>4. Elements(u) = {d[k] : k \in K}
  <2>1. \A k \in K : \E i \in DOMAIN u : d[k] = u[i]
    BY <1>1, <1>2 DEF Selection
  <2>2. \A i \in DOMAIN u : \E k \in K : u[i] = d[k]
    BY <1>2
  <2>3. ASSUME NEW r \in Elements(u) PROVE r \in {d[k] : k \in K}
    <3>1. PICK i \in DOMAIN u : r = u[i]
      BY DEF Elements
    <3> QED
      BY <2>2, <3>1
  <2>4. ASSUME NEW k \in K PROVE d[k] \in Elements(u)
    BY <2>1 DEF Elements
  <2> QED
    BY <2>3, <2>4
<1>5. Elements(u) \subseteq Elements(d)
  BY <1>2 DEF Elements
<1>6. ASSUME Single(d) PROVE Single(u)
  <2> SUFFICES ASSUME NEW i \in DOMAIN u, NEW j \in DOMAIN u, u[i] = u[j] PROVE i = j
    BY DEF Single
  <2>1. d[f[i]] = d[f[j]]
    BY <1>2
  <2> QED
    BY <1>2, <1>3, <1>6, <2>1 DEF Single
<1>7. Apart(d) => Apart(u)
  BY <1>2, <1>3 DEF Apart
<1>8. ASSUME Rising(f), InOrder(d) PROVE InOrder(u)
  <2> SUFFICES ASSUME NEW i \in DOMAIN u, NEW j \in DOMAIN u, i < j PROVE Window!Before(u[i], u[j])
    BY DEF InOrder
  <2>1. f[i] < f[j]
    BY <1>1, <1>8 DEF Rising
  <2> QED
    BY <1>2, <1>8, <2>1 DEF InOrder
<1> QED
  BY <1>4, <1>5, <1>6, <1>7, <1>8

\* One row after the other: those that are late enough are kept.
Sifted(d, least) ==
  CHOOSE kept :
    kept = [i \in 0 .. Len(d) |->
              IF i = 0 THEN <<>>
              ELSE IF d[i].at >= least THEN Append(kept[i - 1], d[i]) ELSE kept[i - 1]]

(* The recursive function of filter_ge has a value for each row. *)
LEMMA SiftSteps ==
  ASSUME NEW S, NEW d \in Seq(S), NEW least
  PROVE  /\ Sifted(d, least)[0] = <<>>
         /\ \A i \in 1 .. Len(d) : Sifted(d, least)[i] =
              IF d[i].at >= least THEN Append(Sifted(d, least)[i - 1], d[i]) ELSE Sifted(d, least)[i - 1]
         /\ Window!AtLeast(d, least) = Sifted(d, least)[Len(d)]
<1> DEFINE n == Len(d)
           D == Seq(S)
           next(s, i) == IF d[i].at >= least THEN Append(s, d[i]) ELSE s
           g == [i \in 1 .. n |-> [s \in D |-> next(s, i)]]
           Steps(u) == u = [i \in 0 .. n |-> IF i = 0 THEN <<>> ELSE next(u[i - 1], i)]
           after == CHOOSE u : Steps(u)
<1>1. n \in Nat /\ <<>> \in D /\ \A i \in 1 .. n : d[i] \in S
  OBVIOUS
<1>2. \A i \in 1 .. n, s \in D : next(s, i) \in D
  BY <1>1
<1>3. \E u : Steps(u)
  <2> HIDE DEF n, D, next
  <2>1. g \in [1 .. n -> [D -> D]]
    BY <1>2
  <2> HIDE DEF g
  <2>2. PICK u \in [0 .. n -> D] : Iterates(u, n, <<>>, g)
    BY <1>1, <2>1, Iterated
  <2>3. ASSUME NEW i \in 0 .. n
        PROVE  u[i] = IF i = 0 THEN <<>> ELSE next(u[i - 1], i)
    <3>1. CASE i = 0
      BY <2>2, <3>1 DEF Iterates
    <3>2. CASE i # 0
      <4>1. i \in 1 .. n /\ u[i - 1] \in D
        BY <1>1, <2>2, <3>2
      <4>2. g[i][u[i - 1]] = next(u[i - 1], i)
        BY <4>1 DEF g
      <4> QED
        BY <2>2, <3>2, <4>2 DEF Iterates
    <3> QED
      BY <3>1, <3>2
  <2> QED
    BY <2>2, <2>3
<1>4. after = [i \in 0 .. n |-> IF i = 0 THEN <<>> ELSE next(after[i - 1], i)]
  <2> HIDE DEF Steps
  <2>1. Steps(after)
    BY <1>3
  <2> QED
    BY <2>1 DEF Steps
<1>5. Sifted(d, least) = after
  BY DEF Sifted
<1>6. Window!AtLeast(d, least) = after[n]
  BY DEF Window!AtLeast
<1> HIDE DEF after, next, n
<1>7. 0 \in 0 .. n /\ \A i \in 1 .. n : i \in 0 .. n /\ i # 0
  BY <1>1
<1>8. after[0] = <<>> /\ \A i \in 1 .. n : after[i] = next(after[i - 1], i)
  BY <1>4, <1>7
<1> QED
  BY <1>5, <1>6, <1>8 DEF next, n

(* filter_ge selects the rows that are late enough, in their order. *)
LEMMA SiftSelects ==
  ASSUME NEW S, NEW d \in Seq(S), NEW least
  PROVE  /\ Window!AtLeast(d, least) \in Seq(S)
         /\ \E f : /\ Selection(Window!AtLeast(d, least), d, f, {k \in DOMAIN d : d[k].at >= least})
                   /\ Rising(f)
<1> DEFINE n == Len(d)
           u == Sifted(d, least)
           late(i) == {k \in 1 .. i : d[k].at >= least}
           Cuts(i, f) == Selection(u[i], d, f, late(i)) /\ Rising(f)
           G == {i \in 0 .. n : u[i] \in Seq(S) /\ \E f : Cuts(i, f)}
<1>1. n \in Nat /\ DOMAIN d = 1 .. n /\ \A i \in 1 .. n : d[i] \in S
  OBVIOUS
<1>2. 0 \in G
  <2>1. u[0] = <<>>
    BY SiftSteps
  <2>2. late(0) = {}
    OBVIOUS
  <2>3. <<>> \in Seq(S) /\ Len(<<>>) = 0 /\ 0 \in 0 .. n /\ 1 .. 0 = {}
    BY <1>1
  <2> HIDE DEF late, u
  <2>4. Selection(<<>>, d, <<>>, {})
    BY DEF Selection
  <2>5. Rising(<<>>)
    BY DEF Rising
  <2>6. Cuts(0, <<>>)
    BY <2>1, <2>2, <2>4, <2>5
  <2> QED
    BY <2>1, <2>3, <2>6
<1>3. ASSUME NEW i \in 1 .. n, i - 1 \in G PROVE i \in G
  <2> DEFINE s == u[i - 1]
             m == Len(s)
  <2>1. s \in Seq(S) /\ m \in Nat /\ i \in 0 .. n /\ i \in Nat
    BY <1>1, <1>3
  <2>2. PICK f : Selection(s, d, f, late(i - 1)) /\ Rising(f)
    BY <1>3
  <2>3. u[i] = IF d[i].at >= least THEN Append(s, d[i]) ELSE s
    BY SiftSteps
  <2> HIDE DEF u, s
  <2>4. CASE d[i].at >= least
    <3> DEFINE t == Append(s, d[i])
               g == [j \in 1 .. m + 1 |-> IF j = m + 1 THEN i ELSE f[j]]
    <3>1. t \in Seq(S) /\ Len(t) = m + 1 /\ t[m + 1] = d[i] /\ \A j \in 1 .. m : t[j] = s[j]
      BY <1>1, <2>1
    <3>2. late(i) = late(i - 1) \cup {i}
      BY <2>1, <2>4
    <3>3. /\ f \in [1 .. m -> late(i - 1)]
          /\ \A k \in late(i - 1) : \E j \in 1 .. m : f[j] = k
          /\ \A j, k \in 1 .. m : f[j] = f[k] => j = k
          /\ \A j \in 1 .. m : s[j] = d[f[j]]
      BY <2>2 DEF Selection
    <3>4. \A k \in late(i - 1) : k \in Nat /\ k < i
      BY <2>1
    <3> HIDE DEF t, m, late
    <3>5. /\ \A j \in 1 .. m : g[j] = f[j] /\ f[j] \in late(i - 1) /\ f[j] \in Nat /\ f[j] < i
          /\ g[m + 1] = i
          /\ \A j \in 1 .. m + 1 : j = m + 1 \/ j \in 1 .. m
          /\ \A j \in 1 .. m : j \in 1 .. m + 1 /\ j # m + 1
          /\ m + 1 \in 1 .. m + 1
          /\ DOMAIN g = 1 .. m + 1
      BY <2>1, <3>3, <3>4
    <3>6. g \in [1 .. m + 1 -> late(i)]
      BY <3>2, <3>5
    <3> HIDE DEF g
    <3>7. \A k \in late(i) : \E j \in 1 .. m + 1 : g[j] = k
      <4> SUFFICES ASSUME NEW k \in late(i) PROVE \E j \in 1 .. m + 1 : g[j] = k
        OBVIOUS
      <4>1. CASE k = i
        BY <3>5, <4>1
      <4>2. CASE k \in late(i - 1)
        <5>1. PICK j \in 1 .. m : f[j] = k
          BY <3>3, <4>2
        <5> QED
          BY <3>5, <5>1
      <4> QED
        BY <3>2, <4>1, <4>2
    <3>8. \A j, k \in 1 .. m + 1 : g[j] = g[k] => j = k
      <4> SUFFICES ASSUME NEW j \in 1 .. m + 1, NEW k \in 1 .. m + 1, g[j] = g[k] PROVE j = k
        OBVIOUS
      <4>1. CASE j \in 1 .. m /\ k \in 1 .. m
        BY <3>3, <3>5, <4>1
      <4>2. CASE j \in 1 .. m /\ k = m + 1
        BY <2>1, <3>5, <4>2
      <4>3. CASE j = m + 1 /\ k \in 1 .. m
        BY <2>1, <3>5, <4>3
      <4> QED
        BY <3>5, <4>1, <4>2, <4>3
    <3>9. \A j \in 1 .. m + 1 : t[j] = d[g[j]]
      BY <3>1, <3>3, <3>5
    <3>10. Rising(g)
      <4> SUFFICES ASSUME NEW j \in 1 .. m + 1, NEW k \in 1 .. m + 1, j < k PROVE g[j] < g[k]
        BY <3>5 DEF Rising
      <4>0. m \in Nat
        BY <2>1 DEF m
      <4>1. j \in 1 .. m
        BY <4>0
      <4>2. CASE k \in 1 .. m
        BY <2>2, <3>3, <3>5, <4>1, <4>2 DEF Rising
      <4>3. CASE k = m + 1
        BY <3>5, <4>1, <4>3
      <4> QED
        BY <3>5, <4>2, <4>3
    <3>11. Selection(t, d, g, late(i))
      BY <3>1, <3>6, <3>7, <3>8, <3>9 DEF Selection
    <3>12. u[i] = t
      BY <2>3, <2>4 DEF t
    <3> QED
      BY <2>1, <3>1, <3>10, <3>11, <3>12
  <2>5. CASE ~(d[i].at >= least)
    <3>1. late(i) = late(i - 1)
      BY <2>1, <2>5
    <3> HIDE DEF late
    <3> QED
      BY <2>1, <2>2, <2>3, <2>5, <3>1
  <2> QED
    BY <2>4, <2>5
<1>4. n \in G
  <2> HIDE DEF G
  <2>1. \A i \in 0 .. n : i \in G
    BY <1>1, <1>2, <1>3, Reached
  <2> QED
    BY <1>1, <2>1
<1>5. late(n) = {k \in DOMAIN d : d[k].at >= least}
  BY <1>1
<1> HIDE DEF late
<1> QED
  BY <1>4, <1>5, SiftSteps

(* What filter_ge keeps. *)
LEMMA SiftKeeps ==
  ASSUME NEW S, NEW d \in Seq(S), NEW least, NEW u, u = Window!AtLeast(d, least)
  PROVE  /\ u \in Seq(S)
         /\ Elements(u) = {r \in Elements(d) : r.at >= least}
         /\ Single(d) => Single(u)
         /\ Apart(d) => Apart(u)
         /\ InOrder(d) => InOrder(u)
<1> DEFINE K == {k \in DOMAIN d : d[k].at >= least}
<1>1. u \in Seq(S)
  BY SiftSelects
<1>2. PICK f : Selection(u, d, f, K) /\ Rising(f)
  BY SiftSelects
<1>3. {d[k] : k \in K} = {r \in Elements(d) : r.at >= least}
  BY DEF Elements
<1>4. K \subseteq DOMAIN d
  OBVIOUS
<1> HIDE DEF K
<1>5. /\ Elements(u) = {d[k] : k \in K}
      /\ Single(d) => Single(u)
      /\ Apart(d) => Apart(u)
      /\ Rising(f) /\ InOrder(d) => InOrder(u)
  BY <1>1, <1>2, <1>4, SelectionKeeps
<1> QED
  BY <1>1, <1>2, <1>3, <1>5

(* What tail keeps. *)
LEMMA LastKeeps ==
  ASSUME NEW S, NEW d \in Seq(S), NEW m \in Nat, NEW u, u = Window!LastRows(d, m)
  PROVE  /\ u \in Seq(S)
         /\ Elements(u) \subseteq Elements(d)
         /\ Single(d) => Single(u)
         /\ Apart(d) => Apart(u)
         /\ InOrder(d) => InOrder(u)
<1>1. CASE Len(d) > m
  <2> DEFINE n == Len(d)
             K == n - m + 1 .. n
             f == [i \in 1 .. m |-> n - m + i]
  <2>1. u = SubSeq(d, n - m + 1, n) /\ n \in Nat /\ n - m \in Nat
    BY <1>1 DEF Window!LastRows
  <2>2. u \in Seq(S) /\ Len(u) = m /\ \A i \in 1 .. m : u[i] = d[n - m + i]
    BY <1>1, <2>1
  <2>3. K \subseteq DOMAIN d /\ DOMAIN d = 1 .. n
    BY <1>1, <2>1
  <2> HIDE DEF n
  <2>4. Selection(u, d, f, K)
    <3>1. f \in [1 .. m -> K]
      BY <2>1
    <3>2. ASSUME NEW k \in K PROVE \E i \in 1 .. m : f[i] = k
      <4>1. k - (n - m) \in 1 .. m /\ n - m + (k - (n - m)) = k
        BY <2>1
      <4> QED
        BY <4>1
    <3>3. \A i, j \in 1 .. m : f[i] = f[j] => i = j
      BY <2>1
    <3>4. \A i \in 1 .. m : u[i] = d[f[i]]
      BY <2>2
    <3> HIDE DEF f, K
    <3> QED
      BY <2>2, <3>1, <3>2, <3>3, <3>4 DEF Selection
  <2>5. Rising(f)
    BY <2>1 DEF Rising
  <2> HIDE DEF f, K
  <2>6. /\ Elements(u) \subseteq Elements(d)
        /\ Single(d) => Single(u)
        /\ Apart(d) => Apart(u)
        /\ Rising(f) /\ InOrder(d) => InOrder(u)
    BY <2>2, <2>3, <2>4, SelectionKeeps
  <2> QED
    BY <1>1, <2>2, <2>5, <2>6
<1>2. CASE ~(Len(d) > m)
  BY <1>2 DEF Window!LastRows
<1> QED
  BY <1>1, <1>2

(* A frame that is read has the rows of the answer, none twice, and in order. *)
LEMMA FramesHoldAnswers ==
  ASSUME window \in Windows, ~window.closed, day \in 0 .. WindowEnd, NEW s \in Int, NEW e \in Int, NEW d \in Window!Frames(s, e)
  PROVE  /\ d \in Seq(Window!Row)
         /\ Elements(d) = Window!Answer(Window!Cut(s), Window!Cut(e))
         /\ Single(d)
         /\ InOrder(d)
         /\ window.buckets => Apart(d)
<1> DEFINE given == Window!Answer(Window!Cut(s), Window!Cut(e))
           n == Cardinality(given)
<1>2. \A r \in given : r \in Genuine
  <2>1. Window!Cut(s) \in Int /\ Window!Cut(e) \in Int
    BY Rendered
  <2> QED
    BY <2>1, AnswerIsGenuine
<1>3. IsFiniteSet(given) /\ n \in Nat
  <2>1. given \subseteq Genuine
    BY <1>2
  <2> HIDE DEF given
  <2> QED
    BY <2>1, GenuineRows, FS_Subset, FS_CardinalityType
<1>4. d \in Window!SetToSeqs(given) /\ InOrder(d)
  BY DEF Window!Frames, InOrder
<1> HIDE DEF given
<1>5. d \in [1 .. n -> given] /\ (\A i, j \in 1 .. n : i # j => d[i] # d[j])
  BY <1>4, WindowNumberOf DEF Window!SetToSeqs
<1>6. d \in Seq(given) /\ DOMAIN d = 1 .. n /\ Single(d)
  BY <1>3, <1>5 DEF Single
<1>7. d \in Injection(1 .. n, given)
  BY <1>5 DEF Injection, IsInjective
<1>8. Cardinality(1 .. n) = n
  BY <1>3, FS_Interval
<1>9. d \in Surjection(1 .. n, given)
  BY <1>3, <1>7, <1>8, FS_Injection
<1>10. \A r \in given : \E i \in 1 .. n : d[i] = r
  BY <1>9 DEF Surjection
<1>11. \A i \in 1 .. n : d[i] \in given
  BY <1>5
<1> HIDE DEF n
<1>12. Elements(d) = given
  BY <1>6, <1>10, <1>11 DEF Elements
<1>13. d \in Seq(Window!Row)
  <2>1. \A i \in 1 .. n : d[i] \in Window!Row
    BY <1>2, <1>11, GenuineRows
  <2> QED
    BY <1>3, <1>6, <2>1
<1>14. ASSUME window.buckets PROVE Apart(d)
  <2>1. \A i, j \in DOMAIN d : d[i].at = d[j].at => d[i] = d[j]
    BY <1>2, <1>6, <1>11, <1>14, GenuineRows
  <2> QED
    BY <1>6, <2>1 DEF Apart, Single
<1> QED
  BY <1>4, <1>6, <1>12, <1>13, <1>14 DEF given

(* A frame of distinct rows has as many as its length. *)
LEMMA SizeOfFrame ==
  ASSUME NEW S, NEW d \in Seq(S), Single(d)
  PROVE  IsFiniteSet(Elements(d)) /\ Cardinality(Elements(d)) = Len(d)
<1>1. Len(d) \in Nat /\ DOMAIN d = 1 .. Len(d)
  OBVIOUS
<1>2. d \in [1 .. Len(d) -> Elements(d)]
  BY DEF Elements
<1>3. d \in Surjection(1 .. Len(d), Elements(d)) /\ d \in Injection(1 .. Len(d), Elements(d))
  BY <1>1, <1>2 DEF Surjection, Injection, IsInjective, Single, Elements
<1>4. IsFiniteSet(1 .. Len(d)) /\ Cardinality(1 .. Len(d)) = Len(d)
  BY <1>1, FS_Interval
<1> QED
  BY <1>1, <1>3, <1>4, FS_Surjection

-----------------------------------------------------------------------------
(* Retention.                                                               *)

(* Rows that are newer are so for any older row. *)
LEMMA BeforeIsOrder ==
  /\ \A q, r, s \in Window!Row : Window!Before(q, r) /\ Window!Before(r, s) => Window!Before(q, s)
  /\ \A q, r \in Window!Row : q.at < r.at => Window!Before(q, r)
  /\ \A q, r \in Window!Row : Window!Before(q, r) => q.at <= r.at /\ ~Window!Before(r, q)
  /\ \A r \in Window!Row : r.at \in Nat /\ r.n \in Nat
<1>1. WindowEnd \in Nat
  BY Assumptions DEF Window!WindowedQueryAssumption
<1>2. \A r \in Window!Row : r.at \in Nat /\ r.n \in Nat
  BY <1>1 DEF Window!Row
<1> QED
  BY <1>2 DEF Window!Before

(* max of the column of time: a row has it, and none is past it. *)
LEMMA NewestRow ==
  ASSUME NEW d \in Seq(Window!Row), d # <<>>
  PROVE  \E s \in Elements(d) : s.at = Window!Newest(d) /\ \A r \in Elements(d) : r.at <= s.at
<1> DEFINE T == {r.at : r \in Elements(d)}
           U == {WindowEnd - t : t \in T}
<1>1. WindowEnd \in Nat
  BY Assumptions DEF Window!WindowedQueryAssumption
<1>2. \A r \in Elements(d) : r.at \in 0 .. WindowEnd
  <2>1. \A r \in Elements(d) : r \in Window!Row
    BY DEF Elements
  <2>2. \A r \in Window!Row : r.at \in 0 .. WindowEnd
    BY DEF Window!Row
  <2> QED
    BY <2>1, <2>2
<1>3. \A t \in T : t \in 0 .. WindowEnd
  BY <1>2
<1>4. U \subseteq Nat
  <2>1. \A t \in T : WindowEnd - t \in Nat
    BY <1>1, <1>3
  <2> HIDE DEF T
  <2> QED
    BY <2>1
<1>5. T # {}
  <2>1. 1 \in DOMAIN d
    OBVIOUS
  <2> QED
    BY <2>1 DEF Elements
<1> HIDE DEF T
<1>6. PICK x \in U : \A y \in U : x <= y
  <2>1. U # {}
    BY <1>5
  <2> HIDE DEF U
  <2> QED
    BY <1>4, <2>1, LeastNumber
<1>7. PICK t \in T : x = WindowEnd - t
  OBVIOUS
<1>8. \A y \in T : t >= y
  <2> SUFFICES ASSUME NEW y \in T PROVE t >= y
    OBVIOUS
  <2>1. x <= WindowEnd - y
    BY <1>6
  <2> QED
    BY <1>1, <1>3, <1>7, <2>1
<1>9. Window!Max(T) \in T /\ \A y \in T : Window!Max(T) >= y
  BY <1>7, <1>8 DEF Window!Max
<1>10. Window!Newest(d) = Window!Max(T)
  BY DEF Window!Newest, Window!ToSet, T, Elements
<1>11. PICK s \in Elements(d) : s.at = Window!Newest(d)
  BY <1>9, <1>10 DEF T
<1>12. \A r \in Elements(d) : r.at <= s.at
  <2> SUFFICES ASSUME NEW r \in Elements(d) PROVE r.at <= s.at
    OBVIOUS
  <2>1. s.at >= r.at
    BY <1>9, <1>10, <1>11 DEF T
  <2> QED
    BY <1>1, <1>2, <2>1
<1> QED
  BY <1>11, <1>12

\* apply_retention, by the age
Young(d) ==
  IF window.maxAge # None /\ d # <<>>
  THEN Window!AtLeast(d, Window!Cut(Window!Cut(Window!Newest(d)) - window.maxAge))
  ELSE d

(* Of the rows of a frame retention by age keeps the newest, from which the *)
(* rows that it drops are too far.                                          *)
LEMMA AgeKeeps ==
  ASSUME window \in Windows, NEW d \in Seq(Window!Row), NEW u, u = Young(d)
  PROVE  /\ u \in Seq(Window!Row)
         /\ Elements(u) \subseteq Elements(d)
         /\ Single(d) => Single(u)
         /\ Apart(d) => Apart(u)
         /\ InOrder(d) => InOrder(u)
         /\ d # <<>> =>
              \E s \in Elements(u) :
                /\ \A r \in Elements(d) : r.at <= s.at
                /\ \A r \in Elements(d) \ Elements(u) :
                     window.maxAge # None /\ s.at - r.at > window.maxAge
<1>1. CASE window.maxAge # None /\ d # <<>>
  <2> DEFINE least == Window!Cut(Window!Cut(Window!Newest(d)) - window.maxAge)
  <2>1. u = Window!AtLeast(d, least)
    BY <1>1 DEF Young
  <2>2. PICK s \in Elements(d) : s.at = Window!Newest(d) /\ \A r \in Elements(d) : r.at <= s.at
    BY <1>1, NewestRow
  <2>3. \A r \in Elements(d) : r \in Window!Row /\ r.at \in Nat
    BY BeforeIsOrder DEF Elements
  <2>4. window.maxAge \in Nat \ {0}
    BY <1>1, WindowLimits
  <2>5. least \in Int /\ least <= s.at - window.maxAge
    <3>1. s.at \in Int /\ Window!Cut(s.at) \in Int /\ Window!Cut(s.at) <= s.at
      BY <2>3, Rendered
    <3>2. Window!Cut(s.at) - window.maxAge \in Int
      BY <2>4, <3>1
    <3>3. least \in Int /\ least <= Window!Cut(s.at) - window.maxAge
      BY <2>2, <3>2, Rendered
    <3> HIDE DEF least
    <3> QED
      BY <2>4, <3>1, <3>3
  <2> HIDE DEF least
  <2>6. /\ u \in Seq(Window!Row)
        /\ Elements(u) = {r \in Elements(d) : r.at >= least}
        /\ Single(d) => Single(u)
        /\ Apart(d) => Apart(u)
        /\ InOrder(d) => InOrder(u)
    BY <2>1, SiftKeeps
  <2>7. s \in Elements(u)
    BY <2>2, <2>3, <2>4, <2>5, <2>6
  <2>8. ASSUME NEW r \in Elements(d) \ Elements(u) PROVE s.at - r.at > window.maxAge
    BY <2>2, <2>3, <2>4, <2>5, <2>6
  <2> QED
    BY <1>1, <2>2, <2>6, <2>7, <2>8
<1>2. CASE ~(window.maxAge # None /\ d # <<>>)
  <2>1. u = d
    BY <1>2 DEF Young
  <2>2. d # <<>> => \E s \in Elements(d) : \A r \in Elements(d) : r.at <= s.at
    BY NewestRow
  <2> QED
    BY <2>1, <2>2
<1> QED
  BY <1>1, <1>2

LEMMA RetentionKeeps ==
  ASSUME window \in Windows, NEW d \in Seq(Window!Row), NEW u, u = Window!Retained(d)
  PROVE  /\ u \in Seq(Window!Row)
         /\ Elements(u) \subseteq Elements(d)
         /\ Single(d) => Single(u)
         /\ Apart(d) => Apart(u)
         /\ InOrder(d) => InOrder(u)
<1> DEFINE young == Young(d)
<1>1. u = IF window.maxRows # None THEN Window!LastRows(young, window.maxRows) ELSE young
  BY DEF Window!Retained, Young
<1>2. /\ young \in Seq(Window!Row)
      /\ Elements(young) \subseteq Elements(d)
      /\ Single(d) => Single(young)
      /\ Apart(d) => Apart(young)
      /\ InOrder(d) => InOrder(young)
  BY AgeKeeps
<1> HIDE DEF young
<1>3. CASE window.maxRows # None
  <2>1. window.maxRows \in Nat /\ u = Window!LastRows(young, window.maxRows)
    BY <1>1, <1>3, WindowLimits
  <2>2. /\ u \in Seq(Window!Row)
        /\ Elements(u) \subseteq Elements(young)
        /\ Single(young) => Single(u)
        /\ Apart(young) => Apart(u)
        /\ InOrder(young) => InOrder(u)
    BY <1>2, <2>1, LastKeeps
  <2> QED
    BY <1>2, <2>2
<1>4. CASE window.maxRows = None
  BY <1>1, <1>2, <1>4
<1> QED
  BY <1>3, <1>4

(* Of rows in order tail keeps as many as it is to, and those that it drops  *)
(* are before all that it keeps; as is a row that has as many newer ones.    *)
LEMMA TailOusts ==
  ASSUME NEW d \in Seq(Window!Row), Single(d), InOrder(d), NEW m \in Nat \ {0}, Len(d) > m,
         NEW u, u = Window!LastRows(d, m)
  PROVE  /\ Cardinality(Elements(u)) = m
         /\ \A r \in Elements(d) \ Elements(u), s \in Elements(u) : Window!Before(r, s)
         /\ \A r \in Window!Row :
              Cardinality({s \in Elements(d) : Window!Before(r, s)}) >= m =>
                \A s \in Elements(u) : Window!Before(r, s)
<1> DEFINE k == Len(d) - m
<1>1. /\ u \in Seq(Window!Row) /\ Single(u) /\ InOrder(u) /\ Elements(u) \subseteq Elements(d)
      /\ Len(u) = m /\ DOMAIN u = 1 .. m
      /\ \A i \in 1 .. m : k + i \in DOMAIN d /\ u[i] = d[k + i]
  <2>1. m \in Nat
    OBVIOUS
  <2>2. PICK S : S = Window!Row
    OBVIOUS
  <2>3. d \in Seq(S)
    BY <2>2
  <2>4. /\ u \in Seq(S)
        /\ Elements(u) \subseteq Elements(d)
        /\ Single(d) => Single(u)
        /\ InOrder(d) => InOrder(u)
    BY <2>1, <2>3, LastKeeps
  <2>5. u = SubSeq(d, Len(d) - m + 1, Len(d))
    BY DEF Window!LastRows
  <2>6. Len(u) = m /\ \A i \in 1 .. m : Len(d) - m + i \in DOMAIN d /\ u[i] = d[Len(d) - m + i]
    BY <2>3, <2>5
  <2> QED
    BY <2>2, <2>4, <2>6
<1>2. /\ Len(d) \in Nat /\ DOMAIN d = 1 .. Len(d) /\ k \in Nat /\ k + m = Len(d)
      /\ \A i \in DOMAIN d : d[i] \in Window!Row
  OBVIOUS
<1> HIDE DEF k
<1>3. Cardinality(Elements(u)) = m /\ IsFiniteSet(Elements(u))
  BY <1>1, SizeOfFrame
<1>4. \A s \in Elements(u) : \E i \in 1 .. m : s = u[i] /\ s = d[k + i]
  BY <1>1 DEF Elements
<1>5. \A i \in DOMAIN d : i > k => d[i] \in Elements(u)
  <2> SUFFICES ASSUME NEW i \in DOMAIN d, i > k PROVE d[i] \in Elements(u)
    OBVIOUS
  <2>1. i - k \in 1 .. m /\ k + (i - k) = i
    BY <1>2
  <2>2. u[i - k] = d[i]
    BY <1>1, <2>1
  <2> QED
    BY <1>1, <2>1, <2>2 DEF Elements
<1>6. ASSUME NEW r \in Elements(d) \ Elements(u), NEW s \in Elements(u) PROVE Window!Before(r, s)
  <2>1. PICK j \in DOMAIN d : r = d[j]
    BY DEF Elements
  <2>2. j <= k
    BY <1>2, <1>5, <2>1
  <2>3. PICK i \in 1 .. m : s = d[k + i]
    BY <1>4
  <2>4. k + i \in DOMAIN d /\ j < k + i
    BY <1>1, <1>2, <2>2
  <2> QED
    BY <2>1, <2>3, <2>4 DEF InOrder
<1>7. ASSUME NEW r \in Window!Row,
             Cardinality({s \in Elements(d) : Window!Before(r, s)}) >= m,
             NEW q \in Elements(u)
      PROVE  Window!Before(r, q)
  <2> DEFINE N == {s \in Elements(d) : Window!Before(r, s)}
  <2> SUFFICES ASSUME ~Window!Before(r, q) PROVE FALSE
    OBVIOUS
  <2>1. PICK i \in 1 .. m : q = d[k + i]
    BY <1>4
  <2>2. k + i \in DOMAIN d /\ k + i > k /\ q \in Window!Row
    BY <1>1, <1>2, <2>1
  <2>3. ASSUME NEW s \in N PROVE s \in Elements(u) \ {q}
    <3>1. s # q
      OBVIOUS
    <3>2. PICK j \in DOMAIN d : s = d[j]
      BY DEF Elements
    <3>3. ~(j < k + i)
      <4> SUFFICES ASSUME j < k + i PROVE FALSE
        OBVIOUS
      <4>1. Window!Before(s, q)
        BY <2>1, <2>2, <3>2 DEF InOrder
      <4>2. s \in Window!Row
        BY <1>2, <3>2
      <4> QED
        BY <2>2, <4>1, <4>2, BeforeIsOrder
    <3>4. j > k
      BY <1>2, <2>2, <3>3
    <3> QED
      BY <1>5, <3>1, <3>2, <3>4
  <2>4. N \in SUBSET (Elements(u) \ {q})
    BY <2>3
  <2> HIDE DEF N
  <2>5. IsFiniteSet(Elements(u) \ {q}) /\ Cardinality(Elements(u) \ {q}) = m - 1
    BY <1>3, FS_RemoveElement
  <2>6. Cardinality(N) <= m - 1 /\ Cardinality(N) \in Nat
    <3>1. IsFiniteSet(N) /\ Cardinality(N) <= Cardinality(Elements(u) \ {q})
      BY <2>4, <2>5, FS_Subset
    <3> QED
      BY <2>5, <3>1, FS_CardinalityType
  <2>7. Cardinality(N) >= m
    BY <1>7 DEF N
  <2> QED
    BY <2>6, <2>7
<1> QED
  BY <1>3, <1>6, <1>7

(* What retention drops was ousted by what it keeps, and so is what had been. *)
LEMMA RetentionOusts ==
  ASSUME window \in Windows, NEW d \in Seq(Window!Row), Single(d), Orderly => InOrder(d),
         NEW u, u = Window!Retained(d)
  PROVE  /\ \A r \in Elements(d) \ Elements(u) : Ousted(Elements(u), r)
         /\ \A r \in Window!Row : Ousted(Elements(d), r) => Ousted(Elements(u), r)
<1> DEFINE young == Young(d)
           m == window.maxRows
<1>1. /\ u = IF m # None THEN Window!LastRows(young, m) ELSE young
      /\ m # None => m \in Nat \ {0} /\ Orderly
      /\ window.maxAge # None => window.maxAge \in Nat \ {0}
  BY WindowLimits DEF Window!Retained, Young
<1>2. /\ young \in Seq(Window!Row)
      /\ Elements(young) \subseteq Elements(d)
      /\ Single(young)
      /\ InOrder(d) => InOrder(young)
      /\ d # <<>> =>
           \E s \in Elements(young) :
             /\ \A r \in Elements(d) : r.at <= s.at
             /\ \A r \in Elements(d) \ Elements(young) :
                  window.maxAge # None /\ s.at - r.at > window.maxAge
  BY AgeKeeps
<1>3. u \in Seq(Window!Row) /\ Elements(u) \subseteq Elements(d)
  BY RetentionKeeps
<1>4. \A r \in Elements(d) : r \in Window!Row /\ r.at \in Nat
  BY BeforeIsOrder DEF Elements
<1> HIDE DEF young
<1>5. CASE d = <<>>
  <2>1. Elements(d) = {}
    BY <1>5 DEF Elements
  <2>2. Elements(u) = Elements(d)
    BY <1>3, <2>1
  <2> QED
    BY <2>1, <2>2
<1>6. CASE d # <<>>
  <2>1. PICK top \in Elements(young) :
          /\ \A r \in Elements(d) : r.at <= top.at
          /\ \A r \in Elements(d) \ Elements(young) :
               window.maxAge # None /\ top.at - r.at > window.maxAge
    BY <1>2, <1>6
  <2>2. /\ \E t \in Elements(u) : top.at <= t.at
        /\ \A r \in Elements(young) \ Elements(u) : Ousted(Elements(u), r)
        /\ \A r \in Window!Row :
             m # None /\ Cardinality({s \in Elements(young) : Window!Before(r, s)}) >= m =>
               Ousted(Elements(u), r)
    <3>1. CASE m # None /\ Len(young) > m
      <4>1. u = Window!LastRows(young, m) /\ m \in Nat \ {0} /\ InOrder(young)
        BY <1>1, <1>2, <3>1
      <4> HIDE DEF m
      <4>2. /\ Cardinality(Elements(u)) = m
            /\ \A r \in Elements(young) \ Elements(u), s \in Elements(u) : Window!Before(r, s)
            /\ \A r \in Window!Row :
                 Cardinality({s \in Elements(young) : Window!Before(r, s)}) >= m =>
                   \A s \in Elements(u) : Window!Before(r, s)
        BY <1>2, <3>1, <4>1, TailOusts
      <4>3. PICK s \in Elements(u) : TRUE
        <5>1. Elements(u) # {}
          BY <4>1, <4>2, FS_EmptySet
        <5> QED
          BY <5>1
      <4>4. \E t \in Elements(u) : top.at <= t.at
        <5>1. CASE top \in Elements(u)
          BY <1>2, <1>4, <5>1
        <5>2. CASE top \notin Elements(u)
          <6>1. Window!Before(top, s)
            BY <4>2, <4>3, <5>2
          <6>2. top \in Window!Row /\ s \in Window!Row
            BY <1>2, <1>3, <1>4, <4>3
          <6> QED
            BY <4>3, <6>1, <6>2, BeforeIsOrder
        <5> QED
          BY <5>1, <5>2
      <4>5. ASSUME NEW r \in Window!Row, \A q \in Elements(u) : Window!Before(r, q)
            PROVE  Ousted(Elements(u), r)
        <5> DEFINE newer == {q \in Elements(u) : Window!Before(r, q)}
        <5>1. newer = Elements(u)
          BY <4>5
        <5> HIDE DEF newer
        <5>2. Cardinality(newer) >= m /\ m # None
          BY <3>1, <4>1, <4>2, <5>1
        <5> QED
          BY <5>2 DEF Ousted, m, newer
      <4>6. ASSUME NEW r \in Elements(young) \ Elements(u) PROVE Ousted(Elements(u), r)
        <5>1. r \in Window!Row
          BY <1>2, <1>4
        <5> QED
          BY <4>2, <4>5, <5>1
      <4> QED
        BY <4>2, <4>4, <4>5, <4>6
    <3>2. CASE ~(m # None /\ Len(young) > m)
      <4>1. u = young
        BY <1>1, <3>2 DEF Window!LastRows
      <4>2. top.at <= top.at
        BY <1>2, <1>4
      <4> QED
        BY <2>1, <4>1, <4>2 DEF Ousted
    <3> QED
      BY <3>1, <3>2
  <2>3. PICK t \in Elements(u) : top.at <= t.at
    BY <2>2
  <2>4. ASSUME NEW r \in Window!Row, NEW s \in Elements(d), r.at <= s.at, window.maxAge # None,
               s.at - r.at > window.maxAge \/ top.at - s.at > window.maxAge
        PROVE  Ousted(Elements(u), r)
    <3>1. /\ r.at \in Nat /\ s.at \in Nat /\ top.at \in Nat /\ t.at \in Nat /\ t \in Window!Row
          /\ s.at <= top.at /\ top.at <= t.at /\ window.maxAge \in Nat \ {0}
      BY <1>1, <1>2, <1>3, <1>4, <2>1, <2>3, <2>4, BeforeIsOrder
    <3>2. t.at - r.at > window.maxAge /\ r.at < t.at
      BY <2>4, <3>1
    <3>3. Window!Before(r, t)
      BY <3>1, <3>2, BeforeIsOrder
    <3> QED
      BY <2>3, <2>4, <3>2, <3>3 DEF Ousted
  <2>5. ASSUME NEW r \in Elements(d) \ Elements(u) PROVE Ousted(Elements(u), r)
    <3>1. r \in Window!Row /\ r.at <= r.at
      BY <1>4
    <3>2. CASE r \in Elements(young)
      BY <2>2, <3>2
    <3>3. CASE r \notin Elements(young)
      BY <2>1, <2>4, <3>1, <3>3
    <3> QED
      BY <3>2, <3>3
  <2>6. ASSUME NEW r \in Window!Row, Ousted(Elements(d), r) PROVE Ousted(Elements(u), r)
    <3>1. \A s \in Elements(d) : Window!Before(r, s) => r.at <= s.at
      BY <1>4, BeforeIsOrder
    <3>2. CASE window.maxAge # None /\ \E s \in Elements(d) : Window!Before(r, s) /\ s.at - r.at > window.maxAge
      BY <2>4, <3>1, <3>2
    <3>3. CASE m # None /\ Cardinality({s \in Elements(d) : Window!Before(r, s)}) >= m
      <4>1. CASE \E s \in Elements(d) \ Elements(young) : Window!Before(r, s)
        BY <2>1, <2>4, <3>1, <4>1
      <4>2. CASE ~\E s \in Elements(d) \ Elements(young) : Window!Before(r, s)
        <5>1. {s \in Elements(young) : Window!Before(r, s)} = {s \in Elements(d) : Window!Before(r, s)}
          BY <1>2, <4>2
        <5> HIDE DEF m
        <5>2. m # None /\ Cardinality({s \in Elements(young) : Window!Before(r, s)}) >= m
          BY <3>3, <5>1
        <5> QED
          BY <2>2, <5>2
      <4> QED
        BY <4>1, <4>2
    <3> QED
      BY <2>6, <3>2, <3>3 DEF Ousted
  <2> QED
    BY <2>5, <2>6
<1> QED
  BY <1>5, <1>6

-----------------------------------------------------------------------------
(* An update.                                                               *)

(* drop_duplicates: the last row of each bucket, in order if it was kept. *)
LEMMA LastOfEachKeeps ==
  ASSUME NEW d \in Seq(Window!Row), NEW u \in Window!LastOfEach(d)
  PROVE  /\ u \in Seq(Window!Row)
         /\ Apart(u)
         /\ Single(u)
         /\ \A r : r \in Elements(u) <=>
              \E i \in DOMAIN d : r = d[i] /\ \A j \in DOMAIN d : i < j => d[j].at # d[i].at
         /\ window.keepsOrder /\ (\A i, j \in DOMAIN d : i < j => d[i].at <= d[j].at) => InOrder(u)
<1> DEFINE K == {i \in DOMAIN d : \A j \in DOMAIN d : i < j => d[j].at # d[i].at}
           n == Cardinality(K)
<1>1. PICK o \in Window!SetToSeqs(K) :
        /\ window.keepsOrder => \A i, j \in DOMAIN o : i < j => o[i] < o[j]
        /\ u = [i \in DOMAIN o |-> d[o[i]]]
  BY DEF Window!LastOfEach
<1>2. DOMAIN d = 1 .. Len(d) /\ Len(d) \in Nat /\ K \subseteq DOMAIN d
  OBVIOUS
<1>3. \A i \in K, j \in DOMAIN d : i < j => d[j].at # d[i].at
  OBVIOUS
<1>4. \A r : (\E i \in DOMAIN d : r = d[i] /\ \A j \in DOMAIN d : i < j => d[j].at # d[i].at) <=> r \in {d[k] : k \in K}
  OBVIOUS
<1> HIDE DEF K
<1>5. IsFiniteSet(K) /\ n \in Nat
  <2>1. IsFiniteSet(1 .. Len(d))
    BY <1>2, FS_Interval
  <2> QED
    BY <1>2, <2>1, FS_Subset, FS_CardinalityType
<1>6. o \in [1 .. n -> K] /\ (\A i, j \in 1 .. n : i # j => o[i] # o[j])
  BY WindowNumberOf DEF Window!SetToSeqs
<1>7. \A k \in K : \E i \in 1 .. n : o[i] = k
  <2>1. o \in Injection(1 .. n, K)
    BY <1>6 DEF Injection, IsInjective
  <2>2. Cardinality(1 .. n) = n
    BY <1>5, FS_Interval
  <2>3. o \in Surjection(1 .. n, K)
    BY <1>5, <2>1, <2>2, FS_Injection
  <2> QED
    BY <2>3 DEF Surjection
<1> HIDE DEF n
<1>8. /\ u \in Seq(Window!Row) /\ Len(u) = n /\ DOMAIN u = 1 .. n
      /\ \A i \in 1 .. n : o[i] \in K /\ o[i] \in DOMAIN d /\ o[i] \in Nat /\ u[i] = d[o[i]] /\ d[o[i]] \in Window!Row
  <2>1. \A i \in 1 .. n : o[i] \in K /\ o[i] \in DOMAIN d /\ o[i] \in Nat /\ d[o[i]] \in Window!Row
    BY <1>2, <1>6
  <2>2. u = [i \in 1 .. n |-> d[o[i]]]
    BY <1>1, <1>6
  <2>3. u \in [1 .. n -> Window!Row]
    BY <2>1, <2>2
  <2> QED
    BY <1>5, <2>1, <2>2, <2>3
<1>9. Selection(u, d, o, K)
  BY <1>6, <1>7, <1>8 DEF Selection
<1>10. Elements(u) = {d[k] : k \in K}
  BY <1>2, <1>8, <1>9, SelectionKeeps
<1>11. Apart(u)
  <2> SUFFICES ASSUME NEW i \in 1 .. n, NEW j \in 1 .. n, u[i].at = u[j].at PROVE i = j
    BY <1>8 DEF Apart
  <2>1. ~(o[i] < o[j]) /\ ~(o[j] < o[i])
    BY <1>3, <1>8
  <2>2. o[i] = o[j]
    BY <1>8, <2>1
  <2> QED
    BY <1>6, <2>2
<1>12. Single(u)
  BY <1>11 DEF Apart, Single
<1>13. ASSUME window.keepsOrder, \A i, j \in DOMAIN d : i < j => d[i].at <= d[j].at
       PROVE  InOrder(u)
  <2> SUFFICES ASSUME NEW i \in 1 .. n, NEW j \in 1 .. n, i < j PROVE Window!Before(u[i], u[j])
    BY <1>8 DEF InOrder
  <2>1. o[i] < o[j]
    BY <1>1, <1>6, <1>13
  <2>2. u[i].at <= u[j].at /\ u[i].at # u[j].at
    BY <1>3, <1>8, <1>13, <2>1
  <2>3. u[i] \in Window!Row /\ u[j] \in Window!Row
    BY <1>8
  <2> QED
    BY <2>2, <2>3, BeforeIsOrder
<1> QED
  BY <1>4, <1>8, <1>10, <1>11, <1>12, <1>13

(* A window that slides drops the rows that are before its next start. *)
LEMMA RolledRows ==
  ASSUME WindowInv
  PROVE  /\ Window!Rolled \in Seq(Window!Row)
         /\ Single(Window!Rolled)
         /\ window.buckets => Apart(Window!Rolled)
         /\ InOrder(frame) => InOrder(Window!Rolled)
         /\ Elements(Window!Rolled) \subseteq Elements(frame)
         /\ \A r \in Elements(frame) : r.at >= Window!Cut(Window!NextStart) => r \in Elements(Window!Rolled)
         /\ Window!NextStart \in Nat /\ start <= Window!NextStart /\ Window!NextStart <= day
<1>1. /\ window \in Windows /\ frame \in Seq(Window!Row)
      /\ day \in Nat /\ start \in Nat /\ end \in Nat /\ start <= end /\ end <= day
  BY WindowTypes DEF WindowInv
<1>2. Single(frame) /\ (window.buckets => Apart(frame))
  BY DEF WindowInv
<1>3. Window!NextStart \in Nat /\ start <= Window!NextStart /\ Window!NextStart <= day
  BY <1>1 DEF Window!NextStart
<1>4. CASE window.rolling
  <2> DEFINE least == Window!Cut(Window!NextStart)
  <2>1. Window!Rolled = Window!AtLeast(frame, least)
    BY <1>4 DEF Window!Rolled
  <2> HIDE DEF least
  <2>2. /\ Window!Rolled \in Seq(Window!Row)
        /\ Elements(Window!Rolled) = {r \in Elements(frame) : r.at >= least}
        /\ Single(frame) => Single(Window!Rolled)
        /\ Apart(frame) => Apart(Window!Rolled)
        /\ InOrder(frame) => InOrder(Window!Rolled)
    BY <1>1, <2>1, SiftKeeps
  <2> QED
    BY <1>2, <1>3, <2>2 DEF least
<1>5. CASE ~window.rolling
  <2>1. Window!Rolled = frame
    BY <1>5 DEF Window!Rolled
  <2> QED
    BY <1>1, <1>2, <1>3, <2>1
<1> QED
  BY <1>4, <1>5

\* What an update should leave but for retention: the rows of the frame, and
\* those that were fetched in place of the bucket that was open.
Joined ==
  {r \in Elements(Window!Rolled) : r.at < Window!Cut(end)}
    \cup Window!Answer(Window!Cut(end), Window!Cut(day))

(* Rows that are kept are at most in the bucket that the window ended in, *)
(* from which rows are fetched.                                           *)
LEMMA MeetAtTheEnd ==
  ASSUME WindowInv
  PROVE  /\ Window!Cut(end) \in Int /\ Window!Cut(day) \in Int /\ Window!Cut(end) <= Window!Cut(day)
         /\ \A r \in Elements(Window!Rolled) :
              /\ r \in Window!Row /\ r.at \in Nat
              /\ r.at < Window!Cut(end) \/ (window.buckets /\ r.at = Window!Cut(end))
              /\ ~escaped /\ r.at = Window!Cut(end) =>
                   \E s \in Window!Answer(Window!Cut(end), Window!Cut(day)) : s.at = r.at
         /\ \A r \in Window!Answer(Window!Cut(end), Window!Cut(day)) :
              /\ r \in Window!Row /\ r.at \in Nat /\ r \in Genuine
              /\ Window!Cut(end) <= r.at
              /\ r.at < Window!Cut(day) \/ (window.buckets /\ r.at = Window!Cut(day))
<1>1. /\ window \in Windows /\ ~window.closed /\ frame \in Seq(Window!Row) /\ day \in 0 .. WindowEnd
      /\ day \in Nat /\ end \in Nat /\ end <= day
  BY WindowTypes DEF WindowInv
<1>2. Window!Cut(end) \in Int /\ Window!Cut(day) \in Int /\ Window!Cut(end) <= Window!Cut(day)
  BY <1>1, Rendered
<1>3. \A r : r \in Window!Answer(Window!Cut(end), Window!Cut(day)) <=>
         /\ r \in Genuine
         /\ Window!Cut(end) <= r.at
         /\ r.at < Window!Cut(day) \/ (window.buckets /\ r.at = Window!Cut(day))
  BY <1>1, <1>2, AnswerIsGenuine
<1>4. \A r \in Genuine : r \in Window!Row /\ r.at \in Nat
  BY <1>1, GenuineRows, BeforeIsOrder
<1>5. ASSUME NEW r \in Elements(Window!Rolled)
      PROVE  /\ r \in Window!Row /\ r.at \in Nat
             /\ r \in Elements(frame)
             /\ r.at < Window!Cut(end) \/ (window.buckets /\ r.at = Window!Cut(end))
  <2>1. r \in Elements(frame)
    BY RolledRows
  <2>2. r \in Window!Row
    BY <1>1, <2>1 DEF Elements
  <2> QED
    BY <2>1, <2>2, BeforeIsOrder DEF WindowInv, Bounded
<1>6. ASSUME NEW r \in Elements(Window!Rolled), ~escaped, r.at = Window!Cut(end)
      PROVE  \E s \in Window!Answer(Window!Cut(end), Window!Cut(day)) : s.at = r.at
  <2>1. window.buckets /\ Window!Bucket(r.at) # {}
    BY <1>2, <1>5, <1>6 DEF WindowInv, Complete
  <2> DEFINE s == [at |-> r.at, n |-> Cardinality(Window!Bucket(r.at))]
  <2>2. s \in Genuine
    BY <1>5, <2>1 DEF Genuine
  <2>3. s.at = r.at
    OBVIOUS
  <2> HIDE DEF s
  <2> QED
    BY <1>2, <1>3, <1>6, <2>1, <2>2, <2>3
<1> QED
  BY <1>2, <1>3, <1>4, <1>5, <1>6

(* concat and drop_duplicates: the rows that are kept, and for the bucket that *)
(* was open the one that was fetched.                                          *)
LEMMA JoinedRows ==
  ASSUME WindowInv, NEW delta \in Window!Frames(end, day),
         NEW d \in IF window.deduplicate THEN Window!LastOfEach(Window!Rolled \o delta)
                   ELSE {Window!Rolled \o delta}
  PROVE  /\ d \in Seq(Window!Row)
         /\ Single(d)
         /\ window.buckets => Apart(d)
         /\ Elements(d) \subseteq Elements(Window!Rolled) \cup Window!Answer(Window!Cut(end), Window!Cut(day))
         /\ ~escaped => Elements(d) = Joined /\ (Orderly => InOrder(d))
<1> DEFINE e == Window!Rolled \o delta
           k == Window!Rolled
           m == Len(k)
           n == Len(delta)
           C == Window!Cut(end)
           new == Window!Answer(C, Window!Cut(day))
<1>1. /\ window \in Windows /\ ~window.closed /\ day \in 0 .. WindowEnd /\ day \in Int /\ end \in Int
      /\ window.deduplicate = window.buckets /\ window.buckets \in BOOLEAN
  BY WindowTypes, WindowLimits DEF WindowInv
<1>2. /\ delta \in Seq(Window!Row) /\ Elements(delta) = new /\ Single(delta) /\ InOrder(delta)
      /\ window.buckets => Apart(delta)
  BY <1>1, FramesHoldAnswers
<1>3. /\ k \in Seq(Window!Row) /\ Single(k) /\ (window.buckets => Apart(k))
      /\ InOrder(frame) => InOrder(k)
  BY RolledRows
<1>4. /\ C \in Int
      /\ \A r \in Elements(k) :
           /\ r \in Window!Row /\ r.at \in Nat
           /\ r.at < C \/ (window.buckets /\ r.at = C)
           /\ ~escaped /\ r.at = C => \E s \in new : s.at = r.at
      /\ \A r \in new : r \in Window!Row /\ r.at \in Nat /\ C <= r.at
  BY MeetAtTheEnd
<1>5. ~escaped /\ Orderly => InOrder(frame)
  BY DEF WindowInv, Complete
<1>6. /\ e \in Seq(Window!Row) /\ m \in Nat /\ n \in Nat /\ DOMAIN e = 1 .. m + n
      /\ DOMAIN k = 1 .. m /\ DOMAIN delta = 1 .. n
      /\ \A i \in 1 .. m : e[i] = k[i]
      /\ \A i \in 1 .. n : m + i \in 1 .. m + n /\ e[m + i] = delta[i]
  BY <1>2, <1>3
<1>7. Joined = {r \in Elements(k) : r.at < C} \cup new
  BY DEF Joined
<1> HIDE DEF e, k, m, n, C, new
<1>8. ASSUME NEW i \in 1 .. m
      PROVE  /\ i \in 1 .. m + n /\ e[i] = k[i] /\ e[i] \in Elements(k)
             /\ e[i] \in Window!Row /\ e[i].at \in Nat /\ e[i].at <= C
             /\ ~window.buckets => e[i].at < C
  <2>1. i \in 1 .. m + n /\ e[i] = k[i] /\ e[i] \in Elements(k)
    BY <1>6 DEF Elements
  <2> QED
    BY <1>4, <2>1
<1>8a. ASSUME NEW i \in 1 .. m + n, i \notin 1 .. m
       PROVE  /\ i - m \in 1 .. n /\ e[i] = delta[i - m] /\ e[i] \in new
              /\ e[i] \in Window!Row /\ e[i].at \in Nat /\ C <= e[i].at
  <2>1. i - m \in 1 .. n /\ m + (i - m) = i
    BY <1>6, <1>8a
  <2>2. e[i] = delta[i - m]
    BY <1>6, <2>1
  <2>3. e[i] \in new
    BY <1>2, <1>6, <2>1, <2>2 DEF Elements
  <2> QED
    BY <1>4, <2>1, <2>2, <2>3
<1>9. \A r \in new : \E j \in 1 .. n : r = delta[j] /\ r = e[m + j] /\ m + j \in 1 .. m + n
  BY <1>2, <1>6 DEF Elements
<1>10. \A r \in Elements(k) : \E j \in 1 .. m : r = k[j] /\ r = e[j] /\ j \in 1 .. m + n
  BY <1>6 DEF Elements
<1>11. CASE ~window.buckets
  <2>1. d = e
    BY <1>1, <1>11 DEF e, k
  <2>2. Single(e)
    <3> SUFFICES ASSUME NEW i \in 1 .. m + n, NEW j \in 1 .. m + n, e[i] = e[j] PROVE i = j
      BY <1>6 DEF Single
    <3>1. CASE i \in 1 .. m /\ j \in 1 .. m
      BY <1>3, <1>6, <3>1 DEF Single
    <3>2. CASE i \notin 1 .. m /\ j \notin 1 .. m
      <4>1. i - m \in 1 .. n /\ j - m \in 1 .. n /\ delta[i - m] = delta[j - m]
        BY <1>8a, <3>2
      <4>2. i - m = j - m
        BY <1>2, <1>6, <4>1 DEF Single
      <4> QED
        BY <1>6, <4>2
    <3>3. CASE (i \in 1 .. m /\ j \notin 1 .. m) \/ (i \notin 1 .. m /\ j \in 1 .. m)
      <4>1. CASE i \in 1 .. m /\ j \notin 1 .. m
        <5>1. e[i].at < C /\ C <= e[j].at /\ e[i].at \in Nat
          BY <1>8, <1>8a, <1>11, <4>1
        <5> QED
          BY <1>4, <5>1
      <4>2. CASE i \notin 1 .. m /\ j \in 1 .. m
        <5>1. e[j].at < C /\ C <= e[i].at /\ e[j].at \in Nat
          BY <1>8, <1>8a, <1>11, <4>2
        <5> QED
          BY <1>4, <5>1
      <4> QED
        BY <3>3, <4>1, <4>2
    <3> QED
      BY <3>1, <3>2, <3>3
  <2>3. Elements(e) = Elements(k) \cup new
    <3>1. \A i \in 1 .. m + n : e[i] \in Elements(k) \cup new
      BY <1>8, <1>8a
    <3> QED
      BY <1>6, <1>9, <1>10, <3>1 DEF Elements
  <2>4. Joined = Elements(k) \cup new
    BY <1>4, <1>7, <1>11
  <2>5. ASSUME ~escaped, Orderly PROVE InOrder(e)
    <3>1. InOrder(k)
      BY <1>3, <1>5, <2>5
    <3> SUFFICES ASSUME NEW i \in 1 .. m + n, NEW j \in 1 .. m + n, i < j PROVE Window!Before(e[i], e[j])
      BY <1>6 DEF InOrder
    <3>2. CASE i \in 1 .. m /\ j \in 1 .. m
      BY <1>6, <3>1, <3>2 DEF InOrder
    <3>3. CASE i \notin 1 .. m /\ j \notin 1 .. m
      <4>1. /\ i - m \in DOMAIN delta /\ j - m \in DOMAIN delta /\ i - m < j - m
            /\ e[i] = delta[i - m] /\ e[j] = delta[j - m]
        BY <1>6, <1>8a, <3>3
      <4> QED
        BY <1>2, <4>1 DEF InOrder
    <3>4. CASE i \in 1 .. m /\ j \notin 1 .. m
      <4>1. e[i].at < C /\ e[i] \in Window!Row /\ e[i].at \in Nat
        BY <1>8, <1>11, <3>4
      <4>2. C <= e[j].at /\ e[j] \in Window!Row /\ e[j].at \in Nat
        BY <1>8a, <3>4
      <4>3. e[i].at < e[j].at
        BY <1>4, <4>1, <4>2
      <4> QED
        BY <4>1, <4>2, <4>3, BeforeIsOrder
    <3>5. CASE i \notin 1 .. m /\ j \in 1 .. m
      BY <1>6, <3>5
    <3> QED
      BY <3>2, <3>3, <3>4, <3>5
  <2> QED
    BY <1>6, <1>11, <2>1, <2>2, <2>3, <2>4, <2>5 DEF k, new, C
<1>12. CASE window.buckets
  <2>1. d \in Window!LastOfEach(e)
    BY <1>1, <1>12 DEF e, k
  <2>2. /\ d \in Seq(Window!Row)
        /\ Apart(d)
        /\ Single(d)
        /\ \A r : r \in Elements(d) <=>
             \E i \in DOMAIN e : r = e[i] /\ \A j \in DOMAIN e : i < j => e[j].at # e[i].at
        /\ window.keepsOrder /\ (\A i, j \in DOMAIN e : i < j => e[i].at <= e[j].at) => InOrder(d)
    BY <1>6, <2>1, LastOfEachKeeps
  <2>3. Elements(d) \subseteq Elements(k) \cup new
    BY <1>6, <1>8, <1>8a, <2>2
  <2>4. ASSUME ~escaped, NEW r \in Elements(d) PROVE r \in Joined
    <3>1. PICK i \in 1 .. m + n : r = e[i] /\ \A j \in 1 .. m + n : i < j => e[j].at # e[i].at
      BY <1>6, <2>2, <2>4
    <3>2. CASE i \in 1 .. m /\ r.at = C
      <4>1. r \in Elements(k)
        BY <1>8, <3>1, <3>2
      <4>2. PICK s \in new : s.at = r.at
        BY <1>4, <2>4, <3>2, <4>1
      <4>3. PICK j \in 1 .. n : s = e[m + j] /\ m + j \in 1 .. m + n
        BY <1>9, <4>2
      <4>4. i < m + j
        BY <1>6, <3>2
      <4> QED
        BY <3>1, <4>2, <4>3, <4>4
    <3>3. CASE i \in 1 .. m /\ r.at # C
      <4>1. r \in Elements(k) /\ r.at < C
        BY <1>4, <1>8, <3>1, <3>3
      <4> QED
        BY <1>7, <4>1
    <3>4. CASE i \notin 1 .. m
      BY <1>7, <1>8a, <3>1, <3>4
    <3> QED
      BY <3>2, <3>3, <3>4
  <2>5. ASSUME NEW r \in Joined PROVE r \in Elements(d)
    <3>1. CASE r \in Elements(k) /\ r.at < C
      <4>1. PICK i \in 1 .. m : r = k[i] /\ r = e[i] /\ i \in 1 .. m + n
        BY <1>10, <3>1
      <4>2. ASSUME NEW j \in 1 .. m + n, i < j PROVE e[j].at # e[i].at
        <5>1. CASE j \in 1 .. m
          <6>1. \A x, y \in 1 .. m : k[x].at = k[y].at => x = y
            BY <1>3, <1>6, <1>12 DEF Apart
          <6>2. e[j] = k[j] /\ e[i] = k[i] /\ i # j
            BY <1>6, <1>8, <4>2, <5>1
          <6> QED
            BY <5>1, <6>1, <6>2
        <5>2. CASE j \notin 1 .. m
          <6>1. C <= e[j].at /\ e[j].at \in Nat /\ e[i].at \in Nat /\ e[i].at < C
            BY <1>8, <1>8a, <3>1, <4>1, <5>2
          <6> QED
            BY <1>4, <6>1
        <5> QED
          BY <5>1, <5>2
      <4> QED
        BY <1>6, <2>2, <4>1, <4>2
    <3>2. CASE r \in new
      <4>1. PICK i \in 1 .. n : r = delta[i] /\ r = e[m + i] /\ m + i \in 1 .. m + n
        BY <1>9, <3>2
      <4>2. ASSUME NEW j \in 1 .. m + n, m + i < j PROVE e[j].at # e[m + i].at
        <5>0. j \notin 1 .. m
          BY <1>6, <4>2
        <5>1. j - m \in 1 .. n /\ e[j] = delta[j - m] /\ j - m # i
          BY <1>6, <1>8a, <4>2, <5>0
        <5>2. \A x, y \in 1 .. n : delta[x].at = delta[y].at => x = y
          BY <1>2, <1>6, <1>12 DEF Apart
        <5>3. delta[j - m].at # delta[i].at
          BY <5>1, <5>2
        <5> QED
          BY <4>1, <5>1, <5>3
      <4>3. m + i \in DOMAIN e /\ DOMAIN e = 1 .. m + n
        BY <1>6, <4>1
      <4> QED
        BY <2>2, <4>1, <4>2, <4>3
    <3> QED
      BY <1>7, <3>1, <3>2
  <2>6. ASSUME ~escaped, Orderly PROVE InOrder(d)
    <3>1. InOrder(k) /\ window.keepsOrder
      BY <1>1, <1>3, <1>5, <1>12, <2>6 DEF Orderly
    <3>2. ASSUME NEW i \in 1 .. m + n, NEW j \in 1 .. m + n, i < j PROVE e[i].at <= e[j].at
      <4>1. CASE i \in 1 .. m /\ j \in 1 .. m
        <5>1. Window!Before(k[i], k[j])
          BY <1>6, <3>1, <3>2, <4>1 DEF InOrder
        <5>2. k[i] \in Window!Row /\ k[j] \in Window!Row /\ e[i] = k[i] /\ e[j] = k[j]
          BY <1>8, <4>1
        <5> QED
          BY <5>1, <5>2, BeforeIsOrder
      <4>2. CASE i \notin 1 .. m /\ j \notin 1 .. m
        <5>1. /\ i - m \in DOMAIN delta /\ j - m \in DOMAIN delta /\ i - m < j - m
              /\ e[i] = delta[i - m] /\ e[j] = delta[j - m]
              /\ e[i] \in Window!Row /\ e[j] \in Window!Row
          BY <1>6, <1>8a, <3>2, <4>2
        <5>2. Window!Before(e[i], e[j])
          BY <1>2, <5>1 DEF InOrder
        <5> QED
          BY <5>1, <5>2, BeforeIsOrder
      <4>3. CASE i \in 1 .. m /\ j \notin 1 .. m
        <5>1. e[i].at <= C /\ e[i].at \in Nat
          BY <1>8, <4>3
        <5>2. C <= e[j].at /\ e[j].at \in Nat
          BY <1>8a, <4>3
        <5> QED
          BY <1>4, <5>1, <5>2
      <4>4. CASE i \notin 1 .. m /\ j \in 1 .. m
        BY <1>6, <3>2, <4>4
      <4> QED
        BY <4>1, <4>2, <4>3, <4>4
    <3> QED
      BY <1>6, <2>2, <3>1, <3>2
  <2> QED
    BY <2>2, <2>3, <2>4, <2>5, <2>6 DEF k, new, C
<1> QED
  BY <1>1, <1>11, <1>12

(* What an update leaves in the frame. *)
LEMMA GrownRows ==
  ASSUME WindowInv, NEW delta \in Window!Frames(end, day), NEW u \in Window!Grown(delta)
  PROVE  /\ u \in Seq(Window!Row)
         /\ Single(u)
         /\ window.buckets => Apart(u)
         /\ Elements(u) \subseteq Elements(Window!Rolled) \cup Window!Answer(Window!Cut(end), Window!Cut(day))
         /\ ~escaped =>
              /\ Orderly => InOrder(u)
              /\ Elements(u) \subseteq Joined
              /\ \A r \in Joined \ Elements(u) : Ousted(Elements(u), r)
              /\ \A r \in Window!Row : Ousted(Joined, r) => Ousted(Elements(u), r)
<1>1. /\ window \in Windows /\ ~window.closed /\ day \in 0 .. WindowEnd /\ day \in Int /\ end \in Int
  BY WindowTypes DEF WindowInv
<1>2. CASE delta = <<>>
  <2>1. u = Window!Rolled
    BY <1>2 DEF Window!Grown
  <2>2. Window!Answer(Window!Cut(end), Window!Cut(day)) = {}
    <3>1. Elements(delta) = Window!Answer(Window!Cut(end), Window!Cut(day))
      BY <1>1, FramesHoldAnswers
    <3>2. Elements(delta) = {}
      BY <1>2 DEF Elements
    <3> QED
      BY <3>1, <3>2
  <2>3. ASSUME ~escaped PROVE Joined = Elements(u)
    <3>1. \A r \in Elements(u) : r.at < Window!Cut(end)
      BY <2>1, <2>2, <2>3, MeetAtTheEnd
    <3> QED
      BY <2>1, <2>2, <3>1 DEF Joined
  <2>4. ASSUME ~escaped, Orderly PROVE InOrder(u)
    BY <2>1, <2>4, RolledRows DEF WindowInv, Complete
  <2> QED
    BY <2>1, <2>3, <2>4, RolledRows
<1>3. CASE delta # <<>>
  <2>1. PICK d \in IF window.deduplicate THEN Window!LastOfEach(Window!Rolled \o delta)
                   ELSE {Window!Rolled \o delta} : u = Window!Retained(d)
    BY <1>3 DEF Window!Grown
  <2>2. /\ d \in Seq(Window!Row)
        /\ Single(d)
        /\ window.buckets => Apart(d)
        /\ Elements(d) \subseteq Elements(Window!Rolled) \cup Window!Answer(Window!Cut(end), Window!Cut(day))
        /\ ~escaped => Elements(d) = Joined /\ (Orderly => InOrder(d))
    BY JoinedRows
  <2>3. /\ u \in Seq(Window!Row)
        /\ Elements(u) \subseteq Elements(d)
        /\ Single(d) => Single(u)
        /\ Apart(d) => Apart(u)
        /\ InOrder(d) => InOrder(u)
    BY <1>1, <2>1, <2>2, RetentionKeeps
  <2>4. ASSUME ~escaped
        PROVE  /\ \A r \in Elements(d) \ Elements(u) : Ousted(Elements(u), r)
               /\ \A r \in Window!Row : Ousted(Elements(d), r) => Ousted(Elements(u), r)
    BY <1>1, <2>1, <2>2, <2>4, RetentionOusts
  <2> QED
    BY <2>2, <2>3, <2>4
<1> QED
  BY <1>2, <1>3

(* The bucket that was open is one bucket still: what is newer than a settled *)
(* row was so before it was fetched again.                                    *)
LEMMA StillOusted ==
  ASSUME WindowInv, ~escaped, NEW r \in Window!Row,
         Window!Cut(Window!NextStart) <= r.at, r.at < Window!Cut(end), Ousted(Elements(frame), r)
  PROVE  Ousted(Joined, r)
<1> DEFINE C == Window!Cut(end)
           new == Window!Answer(C, Window!Cut(day))
           N == {s \in Elements(frame) : Window!Before(r, s)}
           M == {s \in Joined : Window!Before(r, s)}
           fresh == CHOOSE s \in M : s.at = C
           f == [s \in N |-> IF s.at < C THEN s ELSE fresh]
<1>1. /\ C \in Int /\ Window!Cut(Window!NextStart) \in Int /\ r.at \in Nat
      /\ window \in Windows /\ day \in 0 .. WindowEnd
      /\ frame \in Seq(Window!Row)
  <2>1. window \in Windows /\ day \in 0 .. WindowEnd /\ frame \in Seq(Window!Row)
    BY WindowTypes DEF WindowInv
  <2>2. C \in Int /\ Window!NextStart \in Int
    BY MeetAtTheEnd, RolledRows
  <2> HIDE DEF C
  <2> QED
    BY <2>1, <2>2, Rendered, BeforeIsOrder
<1>2. Joined = {s \in Elements(Window!Rolled) : s.at < C} \cup new
  BY DEF Joined
<1>3. IsFiniteSet(M)
  <2>1. IsFiniteSet(Elements(Window!Rolled))
    BY RolledRows, SizeOfFrame
  <2>2. IsFiniteSet(new)
    <3>1. new \subseteq Genuine
      BY MeetAtTheEnd
    <3>2. IsFiniteSet(Genuine)
      BY <1>1, GenuineRows
    <3> HIDE DEF new
    <3> QED
      BY <3>1, <3>2, FS_Subset
  <2> HIDE DEF C, new
  <2>3. IsFiniteSet(Elements(Window!Rolled) \cup new)
    BY <2>1, <2>2, FS_Union
  <2>4. M \subseteq Elements(Window!Rolled) \cup new
    BY <1>2
  <2> HIDE DEF M
  <2> QED
    BY <2>3, <2>4, FS_Subset
<1>4. ASSUME NEW s \in N
      PROVE  /\ s \in Window!Row /\ s.at \in Nat /\ s \in Elements(frame)
             /\ s.at < C => s \in M
             /\ ~(s.at < C) => s.at = C /\ window.buckets /\ \E t \in M : t.at = C
  <2>1. s \in Elements(frame) /\ s \in Window!Row /\ Window!Before(r, s)
    BY <1>1 DEF Elements
  <2>2. s.at \in Nat /\ s.at >= Window!Cut(Window!NextStart)
    BY <1>1, <2>1, BeforeIsOrder
  <2>3. s \in Elements(Window!Rolled)
    BY <2>1, <2>2, RolledRows
  <2>4. ASSUME s.at < C PROVE s \in M
    BY <1>2, <2>1, <2>3, <2>4
  <2>5. ASSUME ~(s.at < C) PROVE s.at = C /\ window.buckets /\ \E t \in M : t.at = C
    <3>1. s.at = C /\ window.buckets
      BY <2>3, <2>5, MeetAtTheEnd
    <3>2. PICK t \in new : t.at = s.at
      BY <2>3, <3>1, MeetAtTheEnd
    <3>3. t \in Window!Row
      BY <3>2, MeetAtTheEnd
    <3>4. Window!Before(r, t)
      BY <3>1, <3>2, <3>3, BeforeIsOrder
    <3> QED
      BY <1>2, <3>1, <3>2, <3>4
  <2> QED
    BY <2>1, <2>2, <2>4, <2>5
<1> HIDE DEF C, new, M
<1>5. ASSUME window.maxRows # None, Cardinality(N) >= window.maxRows
      PROVE  Cardinality(M) >= window.maxRows
  <2>1. ASSUME NEW s \in N
        PROVE  f[s] \in M /\ (s.at < C => f[s] = s) /\ (~(s.at < C) => f[s].at = C)
    BY <1>4
  <2>2. f \in [N -> M]
    BY <2>1
  <2>3. ASSUME NEW s \in N, NEW t \in N, f[s] = f[t] PROVE s = t
    <3>1. CASE s.at < C /\ t.at < C
      BY <2>1, <2>3, <3>1
    <3>2. CASE ~(s.at < C) /\ ~(t.at < C)
      <4>1. s.at = t.at /\ window.buckets /\ s \in Elements(frame) /\ t \in Elements(frame)
        BY <1>4, <3>2
      <4> QED
        BY <4>1 DEF WindowInv, Apart, Elements
    <3>3. CASE (s.at < C /\ ~(t.at < C)) \/ (~(s.at < C) /\ t.at < C)
      <4>1. (s.at < C /\ s.at = C) \/ (t.at < C /\ t.at = C)
        BY <2>1, <2>3, <3>3
      <4> QED
        BY <1>1, <4>1
    <3> QED
      BY <3>1, <3>2, <3>3
  <2> HIDE DEF f, N
  <2>4. f \in Injection(N, M)
    BY <2>2, <2>3 DEF Injection, IsInjective
  <2>5. /\ IsFiniteSet(N) /\ Cardinality(N) <= Cardinality(M)
        /\ Cardinality(N) \in Nat /\ Cardinality(M) \in Nat
    BY <1>3, <2>4, FS_Injection, FS_CardinalityType
  <2>6. window.maxRows \in Nat
    BY <1>1, <1>5, WindowLimits
  <2> QED
    BY <1>5, <2>5, <2>6
<1>6. ASSUME window.maxAge # None, NEW s \in N, s.at - r.at > window.maxAge
      PROVE  \E t \in M : t.at - r.at > window.maxAge
  BY <1>4, <1>6
<1> QED
  BY <1>5, <1>6 DEF Ousted, M

(* A frame that was read for a whole window is complete. *)
LEMMA FreshFrames ==
  ASSUME window \in Windows, ~window.closed, day \in 0 .. WindowEnd, NEW s \in Int, NEW e \in Int,
         NEW d \in Window!Frames(s, e)
  PROVE  /\ d \in Seq(Window!Row)
         /\ Single(d)
         /\ window.buckets => Apart(d)
         /\ InOrder(d)
         /\ \A r \in Elements(d) :
              /\ r \in Genuine
              /\ r.at < Window!Cut(e) \/ (window.buckets /\ r.at = Window!Cut(e))
              /\ window.buckets => Window!Bucket(r.at) # {}
         /\ \A r \in Genuine : Window!Cut(s) <= r.at /\ r.at < Window!Cut(e) => r \in Elements(d)
<1>1. Window!Cut(s) \in Int /\ Window!Cut(e) \in Int
  BY Rendered
<1>2. \A r : r \in Window!Answer(Window!Cut(s), Window!Cut(e)) <=>
         /\ r \in Genuine
         /\ Window!Cut(s) <= r.at
         /\ r.at < Window!Cut(e) \/ (window.buckets /\ r.at = Window!Cut(e))
  BY <1>1, AnswerIsGenuine
<1> QED
  BY <1>2, FramesHoldAnswers, GenuineRows

(* The source answers from its table and the time. *)
LEMMA SourceStays ==
  ASSUME window' = window, source' = source, day' = day
  PROVE  /\ Genuine' = Genuine
         /\ \A b : (Window!Bucket(b) = {})' <=> Window!Bucket(b) = {}
         /\ \A t : Window!Cut(t)' = Window!Cut(t)
<1>1. Window!Stored' = Window!Stored
  BY DEF Window!Stored
<1> QED
  BY <1>1 DEF Genuine, Window!Bucket, Window!Cut

(* The constructor, and reset, fetch the whole window. *)
LEMMA WindowStarts ==
  ASSUME Window!Init, ~window.closed
  PROVE  WindowInv
<1>1. /\ window \in Windows /\ day = Opened /\ from \in 0 .. Opened /\ start = from /\ end = day
      /\ frame \in Window!Frames(start, end) /\ updated = day /\ met = {} /\ escaped = FALSE /\ outcome = "built"
      /\ source \in [0 .. WindowEnd -> 0 .. Arriving]
  BY DEF Window!Init
<1>2. Opened \in Nat /\ WindowEnd \in Nat /\ Opened <= WindowEnd
  BY <1>1, WindowLimits
<1>3. /\ frame \in Seq(Window!Row)
      /\ Single(frame)
      /\ window.buckets => Apart(frame)
      /\ InOrder(frame)
      /\ \A r \in Elements(frame) :
           /\ r \in Genuine
           /\ r.at < Window!Cut(end) \/ (window.buckets /\ r.at = Window!Cut(end))
           /\ window.buckets => Window!Bucket(r.at) # {}
      /\ \A r \in Genuine :
           Window!Cut(start) <= r.at /\ r.at < Window!Cut(end) => r \in Elements(frame)
  BY <1>1, <1>2, FreshFrames
<1>4. Window!TypeOK
  BY <1>1, <1>2, <1>3 DEF Window!TypeOK
<1>5. Bounded(Elements(frame))
  BY <1>3 DEF Bounded
<1>6. Complete
  BY <1>3 DEF Complete
<1> QED
  BY <1>3, <1>4, <1>5, <1>6 DEF WindowInv

LEMMA WindowUpdates ==
  ASSUME WindowInv, NEW force \in BOOLEAN, Window!Update(force)
  PROVE  WindowInv'
<1> DEFINE u == frame'
           C == Window!Cut(end)
           D == Window!Cut(day)
           S == Window!Cut(Window!NextStart)
<1>1. /\ start' = Window!NextStart /\ end' = day /\ updated' = day /\ outcome' = "updated"
      /\ window' = window /\ source' = source /\ from' = from /\ escaped' = escaped /\ day' = day /\ met' = met
      /\ \E delta \in Window!Frames(end, day) : u \in Window!Grown(delta)
  BY DEF Window!Update, WindowInv
<1>2. PICK delta \in Window!Frames(end, day) : u \in Window!Grown(delta)
  BY <1>1
<1>3. /\ u \in Seq(Window!Row)
      /\ Single(u)
      /\ window.buckets => Apart(u)
      /\ Elements(u) \subseteq Elements(Window!Rolled) \cup Window!Answer(C, D)
      /\ ~escaped =>
           /\ Orderly => InOrder(u)
           /\ Elements(u) \subseteq Joined
           /\ \A r \in Joined \ Elements(u) : Ousted(Elements(u), r)
           /\ \A r \in Window!Row : Ousted(Joined, r) => Ousted(Elements(u), r)
  BY <1>2, GrownRows
<1> HIDE DEF u
<1>4. /\ window \in Windows /\ ~window.closed /\ day \in 0 .. WindowEnd /\ day \in Nat /\ end \in Nat /\ start \in Nat
      /\ start <= end /\ end <= day
  BY WindowTypes DEF WindowInv
<1>5. Window!NextStart \in Nat /\ start <= Window!NextStart /\ Window!NextStart <= day
  BY RolledRows
<1>6. /\ C \in Int /\ D \in Int /\ S \in Int /\ Window!Cut(start) \in Int
      /\ C <= D /\ Window!Cut(start) <= S
  BY <1>4, <1>5, Rendered
<1>7. /\ \A r \in Elements(Window!Rolled) :
           /\ r \in Window!Row /\ r.at \in Nat /\ r \in Elements(frame)
           /\ r.at < C \/ (window.buckets /\ r.at = C)
      /\ \A r \in Window!Answer(C, D) :
           /\ r \in Window!Row /\ r.at \in Nat /\ r \in Genuine
           /\ C <= r.at
           /\ r.at < D \/ (window.buckets /\ r.at = D)
  BY MeetAtTheEnd, RolledRows
<1>8. Joined = {r \in Elements(Window!Rolled) : r.at < C} \cup Window!Answer(C, D)
  BY DEF Joined
<1>9. \A r : r \in Window!Answer(C, D) <=>
         /\ r \in Genuine
         /\ C <= r.at
         /\ r.at < D \/ (window.buckets /\ r.at = D)
  BY <1>4, <1>6, AnswerIsGenuine
<1>10. /\ Genuine' = Genuine
       /\ \A b : (Window!Bucket(b) = {})' <=> Window!Bucket(b) = {}
       /\ Window!Cut(start)' = S /\ Window!Cut(end)' = D
  BY <1>1, SourceStays DEF Window!Cut
<1> HIDE DEF C, D, S
<1>11. Window!TypeOK'
  BY <1>1, <1>3, <1>4, <1>5 DEF WindowInv, Window!TypeOK, u
<1>12. Bounded(Elements(frame))'
  <2> SUFFICES ASSUME NEW r \in Elements(u) PROVE r.at < D \/ (window.buckets /\ r.at = D)
    BY <1>1, <1>10 DEF Bounded, Elements, u
  <2>1. CASE r \in Elements(Window!Rolled)
    BY <1>6, <1>7, <2>1
  <2>2. CASE r \in Window!Answer(C, D)
    BY <1>7, <2>2
  <2> QED
    BY <1>3, <2>1, <2>2
<1>13. ASSUME ~escaped PROVE Complete'
  <2>1. \A r \in Genuine : r \in Window!Row /\ r.at \in Nat /\ (window.buckets => Window!Bucket(r.at) # {})
    BY <1>4, GenuineRows, BeforeIsOrder
  <2>2. /\ window.buckets => \A r \in Elements(frame) : Window!Bucket(r.at) # {}
        /\ \A r \in Elements(frame) : Window!Cut(start) <= r.at /\ r.at < C => r \in Genuine
        /\ \A r \in Genuine :
             Window!Cut(start) <= r.at /\ r.at < C /\ r \notin Elements(frame) => Ousted(Elements(frame), r)
    BY <1>13 DEF WindowInv, Complete, C
  <2>3. ASSUME NEW r \in Elements(u)
        PROVE  /\ window.buckets => Window!Bucket(r.at) # {}
               /\ S <= r.at /\ r.at < D => r \in Genuine
    <3>1. CASE r \in Elements(Window!Rolled) /\ r.at < C
      BY <1>6, <1>7, <2>2, <3>1
    <3>2. CASE r \in Window!Answer(C, D)
      BY <1>7, <2>1, <3>2
    <3> QED
      BY <1>3, <1>8, <1>13, <3>1, <3>2
  <2>4. ASSUME NEW r \in Genuine, S <= r.at, r.at < D, r \notin Elements(u)
        PROVE  Ousted(Elements(u), r)
    <3>1. CASE r \in Joined
      BY <1>3, <1>13, <2>4, <3>1
    <3>2. CASE r \notin Joined
      <4>1. r.at < C
        BY <1>6, <1>8, <1>9, <2>1, <2>4, <3>2
      <4>2. r \notin Elements(frame)
        <5> SUFFICES ASSUME r \in Elements(frame) PROVE FALSE
          OBVIOUS
        <5>1. r \in Elements(Window!Rolled)
          BY <1>6, <2>1, <2>4, RolledRows DEF S
        <5> QED
          BY <1>8, <3>2, <4>1, <5>1
      <4>3. Ousted(Elements(frame), r)
        BY <1>6, <2>1, <2>2, <2>4, <4>1, <4>2
      <4>4. Ousted(Joined, r)
        BY <1>13, <2>1, <2>4, <4>1, <4>3, StillOusted DEF S, C
      <4> QED
        BY <1>3, <1>13, <2>1, <4>4
    <3> QED
      BY <3>1, <3>2
  <2>5. \A r : Ousted(Elements(frame), r)' <=> Ousted(Elements(u), r)
    BY <1>1 DEF Ousted, Elements, Window!Before, u
  <2>6. (Orderly => InOrder(frame))'
    BY <1>1, <1>3, <1>13 DEF Orderly, InOrder, Window!Before, u
  <2>7. Elements(frame)' = Elements(u)
    BY DEF Elements, u
  <2> QED
    BY <1>1, <1>10, <2>3, <2>4, <2>5, <2>6, <2>7 DEF Complete
<1>14. Single(frame)' /\ (window.buckets => Apart(frame))'
  BY <1>1, <1>3 DEF Single, Apart, u
<1> QED
  BY <1>1, <1>11, <1>12, <1>13, <1>14 DEF WindowInv

(* concat raises: the rows that were rolled are gone, and the window moved. *)
LEMMA WindowUpdateRaises ==
  ASSUME WindowInv, NEW force \in BOOLEAN, Window!UpdateRaises(force)
  PROVE  WindowInv'
<1> DEFINE u == frame'
<1>1. /\ u = Window!Rolled /\ start' = Window!NextStart /\ end' = day /\ escaped' = TRUE /\ outcome' = "raised"
      /\ window' = window /\ source' = source /\ from' = from /\ updated' = updated /\ met' = met /\ day' = day
  BY DEF Window!UpdateRaises
<1> HIDE DEF u
<1>2. /\ u \in Seq(Window!Row) /\ Single(u) /\ (window.buckets => Apart(u))
      /\ Window!NextStart \in Nat /\ Window!NextStart <= day
  BY <1>1, RolledRows
<1>3. \A r \in Elements(u) :
        r.at \in Nat /\ (r.at < Window!Cut(end) \/ (window.buckets /\ r.at = Window!Cut(end)))
  BY <1>1, MeetAtTheEnd
<1>4. /\ Window!Cut(end) \in Int /\ Window!Cut(day) \in Int /\ Window!Cut(end) <= Window!Cut(day)
      /\ day \in Nat
  BY MeetAtTheEnd, WindowTypes DEF WindowInv
<1>5. Window!Cut(end)' = Window!Cut(day)
  BY <1>1 DEF Window!Cut
<1>6. Window!TypeOK'
  BY <1>1, <1>2, <1>4 DEF WindowInv, Window!TypeOK, u
<1>7. \A r \in Elements(u) : r.at < Window!Cut(day) \/ (window.buckets /\ r.at = Window!Cut(day))
  BY <1>3, <1>4
<1>8. Bounded(Elements(frame))'
  BY <1>1, <1>5, <1>7 DEF Bounded, Elements, u
<1>9. Single(frame)' /\ (window.buckets => Apart(frame))'
  BY <1>1, <1>2 DEF Single, Apart, u
<1> QED
  BY <1>1, <1>6, <1>8, <1>9 DEF WindowInv

LEMMA WindowResets ==
  ASSUME WindowInv, NEW t \in {from, day}, Window!Reset(t)
  PROVE  WindowInv'
<1> DEFINE u == frame'
<1>1. /\ start' = t /\ end' = day /\ escaped' = FALSE /\ outcome' = "reset" /\ from' = t /\ updated' = day /\ met' = {}
      /\ window' = window /\ source' = source /\ day' = day
      /\ u \in Window!Frames(t, day)
  BY DEF Window!Reset
<1>2. window \in Windows /\ ~window.closed /\ day \in 0 .. WindowEnd /\ day \in Nat /\ t \in 0 .. day /\ t \in Nat
  BY WindowTypes DEF WindowInv
<1>3. /\ u \in Seq(Window!Row)
      /\ Single(u)
      /\ window.buckets => Apart(u)
      /\ InOrder(u)
      /\ \A r \in Elements(u) :
           /\ r \in Genuine
           /\ r.at < Window!Cut(day) \/ (window.buckets /\ r.at = Window!Cut(day))
           /\ window.buckets => Window!Bucket(r.at) # {}
      /\ \A r \in Genuine : Window!Cut(t) <= r.at /\ r.at < Window!Cut(day) => r \in Elements(u)
  BY <1>1, <1>2, FreshFrames
<1> HIDE DEF u
<1>4. /\ Genuine' = Genuine
      /\ \A b : (Window!Bucket(b) = {})' <=> Window!Bucket(b) = {}
      /\ Window!Cut(start)' = Window!Cut(t) /\ Window!Cut(end)' = Window!Cut(day)
  BY <1>1, SourceStays DEF Window!Cut
<1>5. Window!TypeOK'
  <2>1. day \in 0 .. day /\ FALSE \in BOOLEAN
    BY <1>2
  <2>2. source \in [0 .. WindowEnd -> 0 .. Arriving]
    BY WindowTypes DEF WindowInv
  <2> QED
    BY <1>1, <1>2, <1>3, <2>1, <2>2 DEF Window!TypeOK, u
<1>6. Elements(frame)' = Elements(u)
  BY DEF Elements, u
<1>7. Bounded(Elements(frame))'
  BY <1>1, <1>3, <1>4, <1>6 DEF Bounded
<1>8. Single(frame)' /\ (window.buckets => Apart(frame))' /\ InOrder(frame)'
  BY <1>1, <1>3 DEF Single, Apart, InOrder, Window!Before, u
<1>9. Complete'
  BY <1>1, <1>3, <1>4, <1>6, <1>8 DEF Complete
<1> QED
  BY <1>1, <1>5, <1>7, <1>8, <1>9 DEF WindowInv

(* The reader raises in a reset: the frame stays, and the window has moved. *)
LEMMA WindowResetRaises ==
  ASSUME WindowInv, NEW t \in {from, day}, Window!ResetRaises(t)
  PROVE  WindowInv'
<1>1. /\ start' = t /\ end' = day /\ escaped' = TRUE /\ outcome' = "lost" /\ from' = t
      /\ frame' = frame /\ updated' = updated /\ met' = met /\ window' = window /\ source' = source /\ day' = day
  BY DEF Window!ResetRaises
<1>2. /\ window \in Windows /\ day \in Nat /\ end \in Nat /\ end <= day /\ t \in 0 .. day
      /\ frame \in Seq(Window!Row)
  BY WindowTypes DEF WindowInv
<1>3. Window!Cut(end) \in Int /\ Window!Cut(day) \in Int /\ Window!Cut(end) <= Window!Cut(day)
  BY MeetAtTheEnd
<1>4. Window!Cut(end)' = Window!Cut(day)
  BY <1>1 DEF Window!Cut
<1>5. Window!TypeOK'
  BY <1>1, <1>2 DEF WindowInv, Window!TypeOK
<1>6. \A r \in Elements(frame) : r.at < Window!Cut(day) \/ (window.buckets /\ r.at = Window!Cut(day))
  <2> SUFFICES ASSUME NEW r \in Elements(frame)
               PROVE  r.at < Window!Cut(day) \/ (window.buckets /\ r.at = Window!Cut(day))
    OBVIOUS
  <2>1. r.at < Window!Cut(end) \/ (window.buckets /\ r.at = Window!Cut(end))
    BY DEF WindowInv, Bounded
  <2>2. r.at \in Nat
    BY <1>2, BeforeIsOrder DEF Elements
  <2> QED
    BY <1>3, <2>1, <2>2
<1>7. Bounded(Elements(frame))'
  BY <1>1, <1>4, <1>6 DEF Bounded, Elements
<1>8. Single(frame)' /\ (window.buckets => Apart(frame))'
  BY <1>1 DEF WindowInv, Single, Apart
<1> QED
  BY <1>1, <1>5, <1>7, <1>8 DEF WindowInv

(* Rows arrive, and time goes on: what is before the bucket that is open at *)
(* the end of the window does not change.                                   *)
LEMMA SourceGrows ==
  ASSUME WindowInv, window' = window, day' \in Nat, day <= day',
         \A p : p \in Window!Stored => p \in Window!Stored',
         \A p : p \in Window!Stored' /\ p \notin Window!Stored => p[1] \in Nat /\ p[1] >= end
  PROVE  /\ \A r : r \in Genuine' /\ r.at < Window!Cut(end) => r \in Genuine
         /\ \A r : r \in Genuine /\ r.at < Window!Cut(end) => r \in Genuine'
         /\ \A b : Window!Bucket(b) # {} => (Window!Bucket(b) # {})'
<1>1. window \in Windows /\ end \in Nat /\ window.buckets \in BOOLEAN
  BY WindowTypes, WindowLimits DEF WindowInv
<1>2. \A t : Window!Cut(t)' = Window!Cut(t)
  BY DEF Window!Cut
<1>3. \A p : p \in Window!Stored' /\ p \notin Window!Stored => p[1] >= end /\ Window!Cut(p[1]) >= Window!Cut(end)
  BY <1>1, Rendered
<1>4. Window!Cut(end) \in Int /\ \A p : p \in Window!Stored' /\ p \notin Window!Stored => p[1] \in Nat /\ Window!Cut(p[1]) \in Int
  BY <1>1, Rendered
<1>5. /\ \A b : Window!Bucket(b) = {p \in Window!Stored : Window!Cut(p[1]) = b}
      /\ \A b : Window!Bucket(b)' = {p \in Window!Stored' : Window!Cut(p[1]) = b}
  BY <1>2 DEF Window!Bucket
<1>6. \A b \in Int : b < Window!Cut(end) => Window!Bucket(b)' = Window!Bucket(b)
  <2> SUFFICES ASSUME NEW b \in Int, b < Window!Cut(end), NEW p
               PROVE  p \in Window!Bucket(b)' <=> p \in Window!Bucket(b)
    BY <1>5
  <2>1. ~(p \in Window!Stored' /\ p \notin Window!Stored /\ Window!Cut(p[1]) = b)
    BY <1>3, <1>4
  <2> QED
    BY <1>5, <2>1
<1>7. \A b : Window!Bucket(b) # {} => (Window!Bucket(b) # {})'
  BY <1>5
<1>8. CASE window.buckets
  <2> DEFINE row(b) == [at |-> b, n |-> Cardinality(Window!Bucket(b))]
             next(b) == [at |-> b, n |-> Cardinality(Window!Bucket(b)')]
  <2>1. /\ Genuine = {row(b) : b \in {c \in Int : Window!Bucket(c) # {}}}
        /\ Genuine' = {next(b) : b \in {c \in Int : (Window!Bucket(c) # {})'}}
    BY <1>8 DEF Genuine
  <2>2. \A b : row(b).at = b /\ next(b).at = b
    OBVIOUS
  <2>3. \A b \in Int : b < Window!Cut(end) => row(b) = next(b) /\ (Window!Bucket(b) # {} <=> (Window!Bucket(b) # {})')
    BY <1>6
  <2> HIDE DEF row, next
  <2>4. \A r : r \in Genuine' /\ r.at < Window!Cut(end) => r \in Genuine
    BY <2>1, <2>2, <2>3
  <2>5. \A r : r \in Genuine /\ r.at < Window!Cut(end) => r \in Genuine'
    BY <2>1, <2>2, <2>3
  <2> QED
    BY <1>7, <2>4, <2>5
<1>9. CASE ~window.buckets
  <2>1. /\ Genuine = {[at |-> p[1], n |-> p[2]] : p \in Window!Stored}
        /\ Genuine' = {[at |-> p[1], n |-> p[2]] : p \in Window!Stored'}
    BY <1>9 DEF Genuine
  <2>2. Window!Cut(end) <= end
    BY <1>1, Rendered
  <2>3. ASSUME NEW r \in Genuine', r.at < Window!Cut(end) PROVE r \in Genuine
    <3>1. PICK p \in Window!Stored' : r = [at |-> p[1], n |-> p[2]]
      BY <2>1
    <3>2. p \in Window!Stored
      BY <1>1, <1>4, <2>2, <2>3, <3>1
    <3> QED
      BY <2>1, <3>1, <3>2
  <2>4. \A r : r \in Genuine => r \in Genuine'
    BY <2>1
  <2> QED
    BY <1>7, <2>3, <2>4
<1> QED
  BY <1>1, <1>8, <1>9

(* The steps that leave the frame and its window alone. *)
LEMMA WindowWaits ==
  ASSUME WindowInv,
         \/ UNCHANGED windowVars
         \/ Window!Skip
         \/ \E force \in BOOLEAN : Window!UpdateFails(force)
         \/ Window!Insert \/ Window!Tick
  PROVE  WindowInv'
<1>1. /\ window' = window /\ frame' = frame /\ start' = start /\ end' = end /\ from' = from
      /\ updated' = updated /\ escaped' = escaped /\ met' = met
      /\ outcome' \in {outcome, "skipped", "logged"}
      /\ \/ source' = source /\ day' = day
         \/ Window!Insert \/ Window!Tick
  BY DEF windowVars, Window!Skip, Window!UpdateFails, Window!Insert, Window!Tick
<1>2. /\ window \in Windows /\ day \in Nat /\ end \in Nat /\ end <= day /\ day \in 0 .. WindowEnd
      /\ source \in [0 .. WindowEnd -> 0 .. Arriving] /\ WindowEnd \in Nat /\ Arriving \in Nat
  BY WindowTypes, WindowLimits DEF WindowInv
<1>3. /\ Window!TypeOK'
      /\ day' \in Nat /\ day <= day'
      /\ \A p : p \in Window!Stored => p \in Window!Stored'
      /\ \A p : p \in Window!Stored' /\ p \notin Window!Stored => p[1] \in Nat /\ p[1] >= end
  <2>1. CASE source' = source /\ day' = day
    BY <1>1, <1>2, <2>1 DEF WindowInv, Window!TypeOK, Window!Stored
  <2>2. CASE Window!Insert
    <3>1. source[day] < Arriving /\ source' = [source EXCEPT ![day] = @ + 1] /\ day' = day /\ outcome' = outcome
      BY <2>2 DEF Window!Insert
    <3>2. /\ source' \in [0 .. WindowEnd -> 0 .. Arriving]
          /\ \A t \in 0 .. WindowEnd : source[t] <= source'[t] /\ source[t] \in Nat /\ source'[t] \in Nat
          /\ \A t \in 0 .. WindowEnd : t # day => source'[t] = source[t]
      BY <1>2, <3>1
    <3>3. \A t \in 0 .. day : t \in 0 .. WindowEnd
      BY <1>2
    <3>4. ASSUME NEW p \in (0 .. day) \X (1 .. Arriving)
          PROVE  /\ p[2] <= source[p[1]] => p[2] <= source'[p[1]]
                 /\ p[2] <= source'[p[1]] /\ ~(p[2] <= source[p[1]]) => p[1] \in Nat /\ p[1] >= end
      <4>1. p[1] \in 0 .. WindowEnd /\ p[1] \in Nat /\ p[2] \in Nat
        BY <1>2, <3>3
      <4>2. source[p[1]] \in Nat /\ source'[p[1]] \in Nat /\ source[p[1]] <= source'[p[1]]
        BY <3>2, <4>1
      <4>3. p[1] = day \/ source'[p[1]] = source[p[1]]
        BY <3>2, <4>1
      <4>4. p[2] <= source[p[1]] => p[2] <= source'[p[1]]
        BY <4>1, <4>2
      <4> QED
        BY <1>2, <4>1, <4>3, <4>4
    <3>5. Window!TypeOK'
      BY <1>1, <3>1, <3>2 DEF WindowInv, Window!TypeOK
    <3>6. /\ Window!Stored = {p \in (0 .. day) \X (1 .. Arriving) : p[2] <= source[p[1]]}
          /\ Window!Stored' = {p \in (0 .. day) \X (1 .. Arriving) : p[2] <= source'[p[1]]}
      BY <3>1 DEF Window!Stored
    <3>7. \A p : p \in Window!Stored => p \in Window!Stored'
      BY <3>4, <3>6
    <3>8. \A p : p \in Window!Stored' /\ p \notin Window!Stored => p[1] \in Nat /\ p[1] >= end
      BY <3>4, <3>6
    <3> QED
      BY <1>2, <3>1, <3>5, <3>7, <3>8
  <2>3. CASE Window!Tick
    <3>1. day < WindowEnd /\ day' = day + 1 /\ source' = source /\ outcome' = outcome
      BY <2>3 DEF Window!Tick
    <3>2. Window!TypeOK'
      BY <1>1, <1>2, <3>1 DEF WindowInv, Window!TypeOK
    <3>3. /\ Window!Stored = {p \in (0 .. day) \X (1 .. Arriving) : p[2] <= source[p[1]]}
          /\ Window!Stored' = {p \in (0 .. day + 1) \X (1 .. Arriving) : p[2] <= source[p[1]]}
      BY <3>1 DEF Window!Stored
    <3>4. /\ \A t \in 0 .. day : t \in 0 .. day + 1
          /\ \A t \in 0 .. day + 1 : t \notin 0 .. day => t \in Nat /\ t >= end
      BY <1>2
    <3> QED
      BY <1>2, <3>1, <3>2, <3>3, <3>4
  <2> QED
    BY <1>1, <2>1, <2>2, <2>3
<1>4. /\ \A r : r \in Genuine' /\ r.at < Window!Cut(end) => r \in Genuine
      /\ \A b : Window!Bucket(b) # {} => (Window!Bucket(b) # {})'
      /\ \A r : r \in Genuine /\ r.at < Window!Cut(end) => r \in Genuine'
  BY <1>1, <1>3, SourceGrows
<1>5. /\ Elements(frame)' = Elements(frame)
      /\ Window!Cut(start)' = Window!Cut(start) /\ Window!Cut(end)' = Window!Cut(end)
      /\ \A r : Ousted(Elements(frame), r)' <=> Ousted(Elements(frame), r)
      /\ (Orderly => InOrder(frame))' <=> (Orderly => InOrder(frame))
  BY <1>1 DEF Elements, Window!Cut, Ousted, Window!Before, Orderly, InOrder
<1>6. ~escaped => Complete'
  <2> SUFFICES ASSUME Complete PROVE Complete'
    BY DEF WindowInv
  <2> QED
    BY <1>1, <1>4, <1>5 DEF Complete
<1>7. Bounded(Elements(frame))' /\ Single(frame)' /\ (window.buckets => Apart(frame))'
  BY <1>1, <1>5 DEF WindowInv, Bounded, Single, Apart
<1> QED
  BY <1>1, <1>3, <1>6, <1>7 DEF WindowInv

(* The invariant holds of the windowed query when it is the part that runs. *)
THEOREM WindowHolds == PartsSpec => [](part = "window" /\ ~window.closed => WindowInv)
<1> DEFINE Inv == part = "window" /\ ~window.closed => WindowInv
<1>1. PartsInit => Inv
  BY WindowStarts DEF PartsInit
<1>2. ASSUME Inv, [PartsNext]_partsVars PROVE Inv'
  <2> SUFFICES ASSUME part' = "window", ~window'.closed PROVE WindowInv'
    OBVIOUS
  <2>0. part = "window" /\ (window' = window \/ ~Window!Next)
    BY <1>2 DEF PartsNext, partsVars, Window!Next, Window!Skip, Window!Update, Window!UpdateFails,
      Window!UpdateRaises, Window!Reset, Window!ResetRaises, Window!Insert, Window!Tick
  <2>1. WindowInv
    BY <1>2, <2>0 DEF PartsNext, partsVars, windowVars
  <2>2. CASE Window!Next
    BY <2>1, <2>2, WindowUpdates, WindowUpdateRaises, WindowResets, WindowResetRaises, WindowWaits
    DEF Window!Next
  <2>3. CASE UNCHANGED windowVars
    BY <2>1, <2>3, WindowWaits
  <2> QED
    BY <1>2, <2>1, <2>2, <2>3 DEF PartsNext, partsVars
<1> QED
  BY <1>1, <1>2, PTL DEF PartsSpec

(* "only the delta since the previous window end is fetched" and           *)
(* "re-fetched open buckets" (live.py, WindowedQuery): for any window and  *)
(* limits, any template that is no BETWEEN over raw rows, and any sequence *)
(* of updates, failures, resets and new rows, the frame is what the source *)
(* has from the start to the end of the window, but for what the limits    *)
(* dropped, and has no row or bucket twice.                                *)
THEOREM WindowsHoldEachOnce == PartsSpec => []((part = "window" /\ window.closed) \/ WindowIsHeldOnce)
<1>1. ASSUME WindowInv PROVE Window!TypeOK /\ Window!HoldsWindow /\ Window!SeenOnce
  <2>1. /\ window \in Windows /\ day \in 0 .. WindowEnd /\ start \in Nat /\ end \in Nat /\ start <= end
        /\ Window!TypeOK /\ ~window.closed
    BY <1>1, WindowTypes DEF WindowInv
  <2>2. Window!Cut(start) \in Int /\ Window!Cut(end) \in Int
    BY <2>1, Rendered
  <2>3. Window!ToSet(frame) = Elements(frame)
    BY DEF Window!ToSet, Elements
  <2>4. \A r : r \in Window!Settled(Window!Answer(Window!Cut(start), Window!Cut(end))) <=>
          r \in Genuine /\ Window!Cut(start) <= r.at /\ r.at < Window!Cut(end)
    BY <2>1, <2>2, AnswerIsGenuine DEF Window!Settled
  <2>5. Window!HoldsWindow
    <3> SUFFICES ASSUME Complete
                 PROVE  LET given == Window!Settled(Window!Answer(Window!Cut(start), Window!Cut(end))) IN
                        /\ Window!Settled(Elements(frame)) \subseteq given
                        /\ \A r \in given \ Elements(frame) :
                             \/ window.maxRows # None /\ Cardinality(Window!Newer(r)) >= window.maxRows
                             \/ window.maxAge # None /\ \E i \in Window!Newer(r) : frame[i].at - r.at > window.maxAge
      BY <1>1, <2>3, WindowNumberOf DEF Window!HoldsWindow, WindowInv
    <3>1. ASSUME NEW r
          PROVE  Cardinality({s \in Elements(frame) : Window!Before(r, s)}) <= Cardinality(Window!Newer(r))
      <4> DEFINE S == Window!Newer(r)
                 T == {s \in Elements(frame) : Window!Before(r, s)}
                 f == [i \in S |-> frame[i]]
      <4>1. frame \in Seq(Window!Row)
        BY <2>1, WindowTypes
      <4>2. IsFiniteSet(S)
        <5>1. S \subseteq 1 .. Len(frame) /\ Len(frame) \in Nat
          BY <4>1 DEF Window!Newer
        <5> HIDE DEF S
        <5>2. IsFiniteSet(1 .. Len(frame))
          BY <5>1, FS_Interval
        <5> QED
          BY <5>1, <5>2, FS_Subset
      <4>3. f \in Surjection(S, T)
        BY DEF Surjection, Elements, Window!Newer
      <4> QED
        BY <4>2, <4>3, FS_Surjection
    <3>2. ASSUME NEW r, Ousted(Elements(frame), r)
          PROVE  \/ window.maxRows # None /\ Cardinality(Window!Newer(r)) >= window.maxRows
                 \/ window.maxAge # None /\ \E i \in Window!Newer(r) : frame[i].at - r.at > window.maxAge
      <4>1. CASE window.maxRows # None /\ Cardinality({s \in Elements(frame) : Window!Before(r, s)}) >= window.maxRows
        <5>1. frame \in Seq(Window!Row) /\ window.maxRows \in Nat
          BY <2>1, <4>1, WindowTypes, WindowLimits
        <5>2. /\ Cardinality({s \in Elements(frame) : Window!Before(r, s)}) \in Nat
              /\ Cardinality(Window!Newer(r)) \in Nat
          <6>1. /\ Window!Newer(r) \subseteq 1 .. Len(frame) /\ Len(frame) \in Nat
                /\ {s \in Elements(frame) : Window!Before(r, s)} \subseteq Elements(frame)
            BY <5>1 DEF Window!Newer
          <6>2. IsFiniteSet(Elements(frame)) /\ IsFiniteSet(1 .. Len(frame))
            BY <1>1, <5>1, <6>1, SizeOfFrame, FS_Interval DEF WindowInv
          <6> QED
            BY <6>1, <6>2, FS_Subset, FS_CardinalityType
        <5> QED
          BY <3>1, <4>1, <5>1, <5>2
      <4>2. CASE window.maxAge # None /\ \E s \in Elements(frame) : Window!Before(r, s) /\ s.at - r.at > window.maxAge
        BY <4>2 DEF Elements, Window!Newer
      <4> QED
        BY <3>2, <4>1, <4>2 DEF Ousted
    <3> QED
      BY <2>4, <3>2 DEF Complete, Window!Settled
  <2>6. Window!SeenOnce
    BY <1>1 DEF WindowInv, Single, Apart, Window!SeenOnce, Window!IsInjective
  <2> QED
    BY <2>1, <2>5, <2>6
<1>2. (part = "window" /\ ~window.closed => WindowInv) =>
        (part = "window" /\ window.closed) \/ WindowIsHeldOnce
  BY <1>1 DEF WindowIsHeldOnce
<1> QED
  BY <1>2, WindowHolds, PTL

=============================================================================
