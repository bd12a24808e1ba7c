------------------------- MODULE MemoryStoreProofs -------------------------
(***************************************************************************)
(* Proofs about MemoryStore for every set of keys, values, lifetimes,      *)
(* bounds and files.  The inductive invariant is that the variables have   *)
(* their types and that the entries and the pickled files are dictionaries *)
(* (no key twice): without the second a lookup of a key is not the value   *)
(* of its last put.                                                        *)
(***************************************************************************)
EXTENDS MemoryStore, OrderedDictLemmas

Inv == TypeOK /\ UniqueKeys

(* The entry that put builds is an entry. *)
LEMMA NewEntryType ==
  ASSUME TypeOK, NEW k \in Key, NEW v \in Value
  PROVE  [key |-> k, expires |-> Expiry(ttl), value |-> v] \in Entry
BY ConfigAssumption DEF TypeOK, Expiry, Entry, Deadline

(* What the trim at the end of put leaves. *)
LEMMA TrimmedProperties ==
  ASSUME TypeOK, NEW d \in Seq(Entry), Unique(d)
  PROVE  /\ Trimmed(d) \in Seq(Entry)
         /\ Unique(Trimmed(d))
         /\ maxsize # None => Len(Trimmed(d)) <= maxsize
         /\ maxsize = None => Trimmed(d) = d
         /\ Keys(Trimmed(d)) \subseteq Keys(d)
         /\ \A j \in Keys(Trimmed(d)) : Lookup(Trimmed(d), j) = Lookup(d, j)
<1>1. CASE maxsize = None
  BY <1>1 DEF Trimmed
<1>2. CASE maxsize # None
  <2>1. maxsize \in Nat
    BY <1>2, ConfigAssumption DEF TypeOK
  <2>2. Trimmed(d) = KeepNewest(d, maxsize)
    BY <1>2 DEF Trimmed
  <2>3. Len(d) \in Nat
    BY LenProperties
  <2> QED
    BY <1>2, <2>1, <2>2, <2>3, KeepNewestProperties
<1> QED
  BY <1>1, <1>2

(* An entry of the store is an entry. *)
LEMMA LookupType ==
  ASSUME TypeOK, NEW k \in Keys(store)
  PROVE  /\ Lookup(store, k) \in Entry
         /\ Lookup(store, k).value \in Value
         /\ Lookup(store, k).key = k
<1>1. Lookup(store, k) \in Entry /\ Lookup(store, k).key = k
  BY PositionOfKey, ElementOfSeq, LenProperties DEF TypeOK
<1> QED
  BY <1>1 DEF Entry

LEMMA EmptyStore == <<>> \in Seq(Entry) /\ Unique(<<>>) /\ Keys(<<>>) = {} /\ Len(<<>>) = 0
BY DEF Unique, Keys

LEMMA InitInv == Init => Inv
BY EmptyStore, ConfigAssumption DEF Init, Inv, TypeOK, UniqueKeys, Result

(* Every operation keeps the types, and the keys unique. *)
LEMMA NextInv == Inv /\ [Next]_vars => Inv'
<1> SUFFICES ASSUME Inv, [Next]_vars
             PROVE  Inv'
  OBVIOUS
<1> USE DEF Inv
<1>1. ASSUME NEW k \in Key, GetAbsent(k)
      PROVE  Inv'
  BY <1>1 DEF GetAbsent, TypeOK, UniqueKeys, Answer, Result
<1>2. ASSUME NEW k \in Key, GetExpired(k)
      PROVE  Inv'
  <2>1. store' \in Seq(Entry) /\ Unique(store')
    BY <1>2, DelItemProperties DEF GetExpired, TypeOK, UniqueKeys
  <2> QED
    BY <1>2, <2>1 DEF GetExpired, TypeOK, UniqueKeys, Answer, Result
<1>3. ASSUME NEW k \in Key, GetHit(k)
      PROVE  Inv'
  <2>1. store' \in Seq(Entry) /\ Unique(store')
    BY <1>3, MoveToEndProperties DEF GetHit, TypeOK, UniqueKeys
  <2>2. Lookup(store, k).value \in Value
    BY <1>3, LookupType DEF GetHit
  <2> QED
    BY <1>3, <2>1, <2>2 DEF GetHit, TypeOK, UniqueKeys, Answer, Result
<1>4. ASSUME NEW k \in Key, Delete(k)
      PROVE  Inv'
  <2>1. store' \in Seq(Entry) /\ Unique(store')
    BY <1>4, DelItemProperties DEF Delete, TypeOK, UniqueKeys
  <2> QED
    BY <1>4, <2>1 DEF Delete, TypeOK, UniqueKeys, Answer, Result
<1>5. ASSUME NEW k \in Key, NEW v \in Value, Put(k, v)
      PROVE  Inv'
  <2> DEFINE x == [key |-> k, expires |-> Expiry(ttl), value |-> v]
  <2>1. x \in Entry
    BY NewEntryType
  <2>2. Assign(store, x) \in Seq(Entry) /\ Unique(Assign(store, x))
    BY <2>1, AssignProperties DEF TypeOK, UniqueKeys
  <2>3. store' \in Seq(Entry) /\ Unique(store')
    BY <1>5, <2>2, TrimmedProperties DEF Put
  <2> QED
    BY <1>5, <2>3 DEF Put, TypeOK, UniqueKeys, Answer, Result
<1>6. ASSUME NEW p \in Path, Save(p)
      PROVE  Inv'
  BY <1>6 DEF Save, TypeOK, UniqueKeys, Answer, Result
<1>7. ASSUME NEW p \in Path, Load(p)
      PROVE  Inv'
  BY <1>7, EmptyStore DEF Load, TypeOK, UniqueKeys, Answer, Result
<1>8. CASE Clear
  BY <1>8, EmptyStore DEF Clear, TypeOK, UniqueKeys, Answer, Result
<1>9. CASE Tick
  BY <1>9 DEF Tick, TypeOK, UniqueKeys
<1>10. CASE UNCHANGED vars
  BY <1>10 DEF vars, TypeOK, UniqueKeys
<1> QED
  BY <1>1, <1>2, <1>3, <1>4, <1>5, <1>6, <1>7, <1>8, <1>9, <1>10 DEF Next

LEMMA SpecInv == Spec => []Inv
BY InitInv, NextInv, PTL DEF Spec

(* The variables of the store always have their types. *)
THEOREM TypeCorrect == Spec => []TypeOK
<1>1. Inv => TypeOK
  BY DEF Inv
<1> QED
  BY <1>1, SpecInv, PTL

(* No sequence of gets, puts, deletes, saves and loads leaves two entries  *)
(* for one key, in the store or in a pickled file.                         *)
THEOREM KeysStayUnique == Spec => []UniqueKeys
<1>1. Inv => UniqueKeys
  BY DEF Inv
<1> QED
  BY <1>1, SpecInv, PTL

-----------------------------------------------------------------------------
(* A put ends within the bound, whatever the store held before.             *)
LEMMA PutFits ==
  ASSUME Inv, NEW k \in Key, NEW v \in Value, Put(k, v)
  PROVE  WithinBound'
<1> USE DEF Inv
<1> DEFINE x == [key |-> k, expires |-> Expiry(ttl), value |-> v]
<1>1. Assign(store, x) \in Seq(Entry) /\ Unique(Assign(store, x))
  BY NewEntryType, AssignProperties DEF TypeOK, UniqueKeys
<1>2. maxsize # None => Len(store') <= maxsize
  BY <1>1, TrimmedProperties DEF Put
<1> QED
  BY <1>2 DEF Put, WithinBound

(* No operation but load grows a store out of its bound.                    *)
LEMMA StepFits ==
  ASSUME Inv, WithinBound, [Next]_vars
  PROVE  WithinBound' \/ answer'.op = "load"
<1> USE DEF Inv
<1>1. /\ store \in Seq(Entry)
      /\ Unique(store)
      /\ Len(store) \in Nat
      /\ maxsize # None => maxsize \in Nat
  BY LenProperties, ConfigAssumption DEF TypeOK, UniqueKeys
<1>2. ASSUME maxsize' = maxsize, Len(store') <= Len(store), Len(store') \in Nat
      PROVE  WithinBound'
  BY <1>1, <1>2 DEF WithinBound
<1>3. ASSUME NEW k \in Key, GetAbsent(k) \/ GetExpired(k) \/ GetHit(k) \/ Delete(k)
      PROVE  WithinBound'
  <2>1. CASE GetAbsent(k)
    BY <1>1, <1>2, <2>1 DEF GetAbsent
  <2>2. CASE GetExpired(k)
    <3>1. Len(store') = Len(store) - 1 /\ store' \in Seq(Entry)
      BY <1>1, <2>2, DelItemProperties DEF GetExpired
    <3> QED
      BY <1>1, <1>2, <2>2, <3>1, LenProperties DEF GetExpired
  <2>3. CASE GetHit(k)
    <3>1. Len(store') = Len(store)
      BY <1>1, <2>3, MoveToEndProperties DEF GetHit
    <3> QED
      BY <1>1, <1>2, <2>3, <3>1 DEF GetHit
  <2>4. CASE Delete(k)
    <3>1. CASE k \in Keys(store)
      <4>1. Len(store') = Len(store) - 1 /\ store' \in Seq(Entry)
        BY <1>1, <2>4, <3>1, DelItemProperties DEF Delete
      <4> QED
        BY <1>1, <1>2, <2>4, <4>1, LenProperties DEF Delete
    <3>2. CASE k \notin Keys(store)
      BY <1>1, <1>2, <2>4, <3>2 DEF Delete
    <3> QED
      BY <3>1, <3>2
  <2> QED
    BY <1>3, <2>1, <2>2, <2>3, <2>4
<1>4. ASSUME NEW k \in Key, NEW v \in Value, Put(k, v)
      PROVE  WithinBound'
  BY <1>4, PutFits
<1>5. CASE Clear
  BY <1>1, <1>2, <1>5, EmptyStore DEF Clear
<1>6. CASE Tick \/ UNCHANGED vars
  BY <1>6 DEF Tick, vars, WithinBound
<1>7. ASSUME NEW p \in Path, Save(p) \/ Load(p)
      PROVE  WithinBound' \/ answer'.op = "load"
  BY <1>7 DEF Save, Load, Answer, WithinBound
<1> QED
  BY <1>3, <1>4, <1>5, <1>6, <1>7 DEF Next

(* Only load takes a store over its bound, and every put takes it back.     *)
THEOREM BoundKept == Spec => OnlyLoadOverfills
<1>1. Inv /\ [Next]_vars =>
        [ /\ WithinBound => WithinBound' \/ answer'.op = "load"
          /\ (\E k \in Key, v \in Value : Put(k, v)) => WithinBound' ]_vars
  BY StepFits, PutFits
<1> QED
  BY <1>1, SpecInv, PTL DEF Spec, OnlyLoadOverfills

-----------------------------------------------------------------------------
\* The deadline does not lie beyond the lifetime that the store has.
InTime(expires) == expires # None /\ expires <= now + ttl

(* LifetimeIsTTL by the keys of the store instead of the indices.           *)
LEMMA LifetimeByKey ==
  ASSUME NEW d, Unique(d)
  PROVE  (\A i \in DOMAIN d : InTime(d[i].expires)) <=>
         (\A k \in Keys(d) : InTime(Lookup(d, k).expires))
<1>1. ASSUME \A i \in DOMAIN d : InTime(d[i].expires), NEW k \in Keys(d)
      PROVE  InTime(Lookup(d, k).expires)
  BY <1>1, PositionOfKey
<1>2. ASSUME \A k \in Keys(d) : InTime(Lookup(d, k).expires), NEW i \in DOMAIN d
      PROVE  InTime(d[i].expires)
  <2>1. d[i].key \in Keys(d) /\ Lookup(d, d[i].key) = d[i]
    BY LookupAtIndex
  <2> QED
    BY <1>2, <2>1
<1> QED
  BY <1>1, <1>2

(* An entry that put builds ends with the lifetime; the others keep theirs. *)
LEMMA PutInTime ==
  ASSUME Inv, ttl # None, NEW k \in Key, NEW v \in Value, Put(k, v),
         \A j \in Keys(store) : InTime(Lookup(store, j).expires)
  PROVE  Unique(store') /\ \A j \in Keys(store') : InTime(Lookup(store', j).expires)
<1> USE DEF Inv
<1> DEFINE x == [key |-> k, expires |-> Expiry(ttl), value |-> v]
           d == Assign(store, x)
<1>1. x \in Entry /\ x.key = k /\ x.expires = now + ttl
  BY NewEntryType DEF Expiry
<1>2. InTime(x.expires)
  BY <1>1, ConfigAssumption DEF InTime, TypeOK
<1> HIDE DEF x
<1>3. /\ d \in Seq(Entry)
      /\ Unique(d)
      /\ Keys(d) = Keys(store) \cup {k}
      /\ Lookup(d, k) = x
      /\ \A j \in Keys(d) \ {k} : Lookup(d, j) = Lookup(store, j)
  BY <1>1, AssignProperties DEF TypeOK, UniqueKeys
<1>4. \A j \in Keys(d) : InTime(Lookup(d, j).expires)
  <2> SUFFICES ASSUME NEW j \in Keys(d)
               PROVE  InTime(Lookup(d, j).expires)
    OBVIOUS
  <2>1. CASE j = k
    BY <1>2, <1>3, <2>1
  <2>2. CASE j # k
    BY <1>3, <2>2
  <2> QED
    BY <2>1, <2>2
<1> HIDE DEF d
<1>5. store' = Trimmed(d)
  BY DEF Put, d, x
<1> QED
  BY <1>3, <1>4, <1>5, TrimmedProperties

(* Gets and deletes keep entries as they are, or drop them.                 *)
LEMMA LookupInTime ==
  ASSUME Inv, NEW k \in Key, GetAbsent(k) \/ GetExpired(k) \/ GetHit(k) \/ Delete(k),
         \A j \in Keys(store) : InTime(Lookup(store, j).expires)
  PROVE  /\ Unique(store')
         /\ ttl' = ttl /\ now' = now
         /\ \A j \in Keys(store') : InTime(Lookup(store', j).expires)
<1> USE DEF Inv
<1>1. store \in Seq(Entry) /\ Unique(store)
  BY DEF TypeOK, UniqueKeys
<1>2. CASE store' = store
  BY <1>1, <1>2 DEF GetAbsent, GetExpired, GetHit, Delete
<1>3. CASE k \in Keys(store) /\ store' = DelItem(store, k)
  BY <1>1, <1>3, DelItemProperties DEF GetAbsent, GetExpired, GetHit, Delete
<1>4. CASE k \in Keys(store) /\ store' = MoveToEnd(store, k)
  BY <1>1, <1>4, MoveToEndProperties DEF GetAbsent, GetExpired, GetHit, Delete
<1> QED
  BY <1>2, <1>3, <1>4 DEF GetAbsent, GetExpired, GetHit, Delete

(* No operation but load leaves an entry with a deadline beyond the         *)
(* lifetime.                                                                *)
LEMMA StepInTime ==
  ASSUME Inv, Inv', LifetimeIsTTL, [Next]_vars
  PROVE  LifetimeIsTTL' \/ answer'.op = "load"
<1> USE DEF Inv
<1> SUFFICES ASSUME ttl' # None, answer'.op # "load"
             PROVE  \A i \in DOMAIN store' : /\ store'[i].expires # None
                                             /\ store'[i].expires <= now' + ttl'
  BY DEF LifetimeIsTTL
<1>1. ttl' = ttl \/ \E p \in Path : Load(p)
  BY DEF Next, vars, GetAbsent, GetExpired, GetHit, Delete, Put, Save, Clear, Tick
<1>2. ttl' = ttl /\ ttl # None
  BY <1>1 DEF Load, Answer
<1>3. \A k \in Keys(store) : InTime(Lookup(store, k).expires)
  <2>1. \A i \in DOMAIN store : InTime(store[i].expires)
    BY <1>2 DEF LifetimeIsTTL, InTime
  <2> QED
    BY <2>1, LifetimeByKey DEF UniqueKeys
<1>4. ASSUME now' = now, Unique(store'), \A k \in Keys(store') : InTime(Lookup(store', k).expires)
      PROVE  \A i \in DOMAIN store' : store'[i].expires # None /\ store'[i].expires <= now' + ttl'
  <2>1. \A i \in DOMAIN store' : InTime(store'[i].expires)
    BY <1>4, LifetimeByKey
  <2> QED
    BY <1>2, <1>4, <2>1 DEF InTime
<1>5. CASE \E k \in Key : GetAbsent(k) \/ GetExpired(k) \/ GetHit(k) \/ Delete(k)
  BY <1>3, <1>4, <1>5, LookupInTime
<1>6. CASE \E k \in Key, v \in Value : Put(k, v)
  <2>1. now' = now
    BY <1>6 DEF Put
  <2> QED
    BY <1>2, <1>3, <1>4, <1>6, <2>1, PutInTime
<1>7. CASE Clear \/ \E p \in Path : Save(p)
  <2>1. now' = now /\ (store' = <<>> \/ store' = store)
    BY <1>7 DEF Clear, Save
  <2>2. Unique(store') /\ \A k \in Keys(store') : InTime(Lookup(store', k).expires)
    BY <1>3, <2>1, EmptyStore DEF UniqueKeys
  <2> QED
    BY <1>4, <2>1, <2>2
<1>8. CASE Tick \/ UNCHANGED vars
  <2>1. store' = store /\ now \in Nat /\ now' \in Nat /\ now <= now' /\ ttl \in Int
    BY <1>2, <1>8, ConfigAssumption DEF Tick, vars, TypeOK
  <2>2. \A i \in DOMAIN store : store[i].expires # None /\ store[i].expires <= now + ttl
    BY <1>2 DEF LifetimeIsTTL
  <2>3. \A i \in DOMAIN store : store[i].expires \in Int
    <3>1. \A i \in DOMAIN store : store[i] \in Entry
      BY ElementOfSeq, LenProperties DEF TypeOK
    <3> QED
      BY <2>2, <3>1 DEF Entry, Deadline
  <2> QED
    BY <1>2, <2>1, <2>2, <2>3
<1>9. ~ \E p \in Path : Load(p)
  BY DEF Load, Answer
<1> QED
  BY <1>5, <1>6, <1>7, <1>8, <1>9 DEF Next

(* Only load gives a store an entry that lives longer than its lifetime.    *)
THEOREM LifetimeKept == Spec => OnlyLoadOutlives
<1>1. Inv /\ Inv' /\ [Next]_vars => [ LifetimeIsTTL => LifetimeIsTTL' \/ answer'.op = "load" ]_vars
  BY StepInTime
<1> QED
  BY <1>1, SpecInv, PTL DEF Spec, OnlyLoadOutlives

(* A store that has never loaded a file of another store stays within both *)
(* of its bounds, whatever is called (memory.py, MemoryStore).             *)
THEOREM BoundsKept == Spec => StoreKeepsItsBounds
<1>1. Spec => OnlyLoadOverfills
  BY BoundKept
<1>2. Spec => OnlyLoadOutlives
  BY LifetimeKept
<1> QED
  BY <1>1, <1>2, PTL DEF StoreKeepsItsBounds

-----------------------------------------------------------------------------
(* MemoryStore implements the CacheStore protocol: the initial states map  *)
(* to initial states and every step maps to a step of CacheStore or to a   *)
(* stutter.                                                                *)

\* What a lookup of k in the entries d is answered with at time t.
ValueAt(d, k, t) ==
  IF k \in Keys(d) /\ ~(Lookup(d, k).expires # None /\ Lookup(d, k).expires <= t)
  THEN Lookup(d, k).value ELSE Missing

Held == [k \in Key |-> ValueAt(store, k, now)]

Saved == [p \in Path |-> [k \in Key |-> ValueAt(disk[p], k, now)]]

(* The state of the protocol that a state of the store stands for. *)
LEMMA Mapping ==
  /\ LiveContents(store) = Held
  /\ LiveContents(store)' = Held'
  /\ [p \in Path |-> LiveContents(disk[p])] = Saved
  /\ [p \in Path |-> LiveContents(disk[p])]' = Saved'
BY DEF LiveContents, IsExpired, Held, Saved, ValueAt

(* The protocol's answer to an operation is one of ours. *)
LEMMA HeldType ==
  ASSUME Inv, NEW k \in Key
  PROVE  Held[k] \in Value \cup {Missing}
BY LookupType DEF Held, ValueAt, Inv

(* As time passes a value is kept or becomes Missing. *)
LEMMA TimeOnlyExpires ==
  ASSUME NEW d \in Seq(Entry), NEW k, NEW t \in Int, NEW u \in Int, t <= u
  PROVE  ValueAt(d, k, u) = ValueAt(d, k, t) \/ ValueAt(d, k, u) = Missing
<1>1. CASE k \in Keys(d)
  <2>1. Lookup(d, k).expires \in Int \cup {None}
    <3>1. Lookup(d, k) \in Entry
      BY <1>1, PositionOfKey, ElementOfSeq, LenProperties
    <3> QED
      BY <3>1 DEF Entry, Deadline
  <2> QED
    BY <2>1, ConfigAssumption DEF ValueAt
<1>2. CASE k \notin Keys(d)
  BY <1>2 DEF ValueAt
<1> QED
  BY <1>1, <1>2

LEMMA InitImplements == Init => Contract!Init
<1> SUFFICES ASSUME Init PROVE Contract!Init
  OBVIOUS
<1>1. Held = [k \in Key |-> Missing]
  BY EmptyStore DEF Init, Held, ValueAt
<1>2. Saved = [p \in Path |-> [k \in Key |-> Missing]]
  BY EmptyStore DEF Init, Saved, ValueAt
<1> QED
  BY <1>1, <1>2, Mapping DEF Contract!Init, Contract!Nothing, Init

(* A lookup answers what the protocol holds, and keeps what it holds. *)
LEMMA GetImplements ==
  ASSUME Inv, NEW k \in Key, GetAbsent(k) \/ GetExpired(k) \/ GetHit(k)
  PROVE  Contract!Get(k)
<1> USE DEF Inv
<1>1. store \in Seq(Entry) /\ Unique(store)
  BY DEF TypeOK, UniqueKeys
<1>2. /\ Saved' = Saved
      /\ now' = now
      /\ maxsize' = maxsize
  BY DEF GetAbsent, GetExpired, GetHit, Saved
<1>3. CASE GetAbsent(k)
  <2>1. Held' = Held
    BY <1>3 DEF GetAbsent, Held
  <2>2. answer' = [op |-> "get", result |-> Held[k]]
    BY <1>3 DEF GetAbsent, Held, ValueAt, Answer
  <2> QED
    BY <1>2, <2>1, <2>2, Mapping DEF Contract!Get
<1>4. CASE GetExpired(k)
  <2>1. \A j \in Key : ValueAt(store', j, now) = ValueAt(store, j, now)
    BY <1>1, <1>4, DelItemProperties DEF GetExpired, IsExpired, ValueAt
  <2>2. Held' = Held
    BY <1>2, <2>1 DEF Held
  <2>3. answer' = [op |-> "get", result |-> Held[k]]
    BY <1>4 DEF GetExpired, IsExpired, Held, ValueAt, Answer
  <2> QED
    BY <1>2, <2>2, <2>3, Mapping DEF Contract!Get
<1>5. CASE GetHit(k)
  <2>1. \A j \in Key : ValueAt(store', j, now) = ValueAt(store, j, now)
    BY <1>1, <1>5, MoveToEndProperties DEF GetHit, ValueAt
  <2>2. Held' = Held
    BY <1>2, <2>1 DEF Held
  <2>3. answer' = [op |-> "get", result |-> Held[k]]
    BY <1>5 DEF GetHit, IsExpired, Held, ValueAt, Answer
  <2> QED
    BY <1>2, <2>2, <2>3, Mapping DEF Contract!Get
<1> QED
  BY <1>3, <1>4, <1>5

(* A put holds its value, unless its lifetime is over at once or the bound *)
(* has no room for it; other entries go only from a bounded store.         *)
LEMMA PutImplements ==
  ASSUME Inv, NEW k \in Key, NEW v \in Value, Put(k, v)
  PROVE  Contract!Put(k, v) \/ Contract!PutExpired(k)
<1> USE DEF Inv
<1> DEFINE x == [key |-> k, expires |-> Expiry(ttl), value |-> v]
           d == Assign(store, x)
           lost == {j \in Key : j \in Keys(d) /\ j \notin Keys(store')}
<1>1. store \in Seq(Entry) /\ Unique(store)
  BY DEF TypeOK, UniqueKeys
<1>2. /\ Saved' = Saved
      /\ now' = now
      /\ maxsize' = maxsize
      /\ answer' = [op |-> "put", result |-> None]
      /\ store' = Trimmed(d)
  BY DEF Put, Saved, Answer
<1>3. /\ d \in Seq(Entry)
      /\ Unique(d)
      /\ Keys(d) = Keys(store) \cup {k}
      /\ Lookup(d, k) = x
      /\ \A j \in Keys(store) \ {k} : Lookup(d, j) = Lookup(store, j)
  BY <1>1, NewEntryType, AssignProperties
<1> HIDE DEF d
<1>4. /\ Keys(store') \subseteq Keys(d)
      /\ \A j \in Keys(store') : Lookup(store', j) = Lookup(d, j)
      /\ maxsize = None => store' = d
  BY <1>2, <1>3, TrimmedProperties
<1>5. lost # {} => maxsize # None
  BY <1>4
<1>6. ASSUME NEW j \in Key \ {k}
      PROVE  ValueAt(store', j, now) = IF j \in lost THEN Missing ELSE ValueAt(store, j, now)
  BY <1>3, <1>4 DEF ValueAt
<1>9. lost \in SUBSET Key
  OBVIOUS
<1> HIDE DEF lost
<1>7. CASE IsExpired(Expiry(ttl))
  <2>1. ValueAt(store', k, now) = Missing
    BY <1>3, <1>4, <1>7 DEF ValueAt, IsExpired
  <2>2. Held' = [j \in Key |-> IF j \in lost THEN Missing
                               ELSE [Held EXCEPT ![k] = Missing][j]]
    BY <1>2, <1>6, <2>1 DEF Held
  <2>3. \E gone \in SUBSET Key :
          /\ gone # {} => maxsize # None
          /\ Held' = [j \in Key |-> IF j \in gone THEN Missing
                                    ELSE [Held EXCEPT ![k] = Missing][j]]
    BY <1>5, <1>9, <2>2
  <2>4. Contract!PutExpired(k)
    BY <1>2, <2>3, Mapping DEF Contract!PutExpired, Contract!Without
  <2> QED
    BY <2>4
<1>8. CASE ~IsExpired(Expiry(ttl))
  <2>1. ValueAt(store', k, now) = IF k \in lost THEN Missing ELSE v
    BY <1>3, <1>4, <1>8 DEF ValueAt, IsExpired, lost
  <2>2. Held' = [j \in Key |-> IF j \in lost THEN Missing
                               ELSE [Held EXCEPT ![k] = v][j]]
    BY <1>2, <1>6, <2>1 DEF Held
  <2>3. \E gone \in SUBSET Key :
          /\ gone # {} => maxsize # None
          /\ Held' = [j \in Key |-> IF j \in gone THEN Missing
                                    ELSE [Held EXCEPT ![k] = v][j]]
    BY <1>5, <1>9, <2>2
  <2>4. Contract!Put(k, v)
    BY <1>2, <2>3, Mapping DEF Contract!Put, Contract!Without
  <2> QED
    BY <2>4
<1> QED
  BY <1>7, <1>8

LEMMA DeleteImplements ==
  ASSUME Inv, NEW k \in Key, Delete(k)
  PROVE  Contract!Delete(k)
<1> USE DEF Inv
<1>1. store \in Seq(Entry) /\ Unique(store)
  BY DEF TypeOK, UniqueKeys
<1>2. /\ Saved' = Saved
      /\ now' = now
      /\ maxsize' = maxsize
      /\ answer' = [op |-> "delete", result |-> k \in Keys(store)]
  BY DEF Delete, Saved, Answer
<1>3. \A j \in Key : ValueAt(store', j, now) = IF j = k THEN Missing ELSE ValueAt(store, j, now)
  BY <1>1, DelItemProperties DEF Delete, ValueAt
<1>4. Held' = [Held EXCEPT ![k] = Missing]
  BY <1>2, <1>3 DEF Held
<1>5. (k \in Keys(store)) \in BOOLEAN /\ (Held[k] # Missing => k \in Keys(store))
  BY DEF Held, ValueAt
<1> QED
  BY <1>2, <1>4, <1>5, Mapping DEF Contract!Delete

LEMMA FilesImplement ==
  ASSUME Inv, NEW p \in Path, Save(p) \/ Load(p)
  PROVE  Contract!Save(p) \/ Contract!Load(p)
<1> USE DEF Inv
<1>1. CASE Save(p)
  <2>1. Held' = Held /\ maxsize' = maxsize /\ answer' = [op |-> "save", result |-> None]
    BY <1>1 DEF Save, Held, Answer
  <2>3. \A q \in Path : disk'[q] = IF q = p THEN store ELSE disk[q]
    BY <1>1 DEF Save, TypeOK
  <2>4. Saved' = [Saved EXCEPT ![p] = Held]
    <3>1. Saved' = [q \in Path |-> [k \in Key |-> ValueAt(disk'[q], k, now)]]
      BY <1>1 DEF Save, Saved
    <3> QED
      BY <2>3, <3>1 DEF Saved, Held
  <2> QED
    BY <2>1, <2>4, Mapping DEF Contract!Save
<1>2. CASE Load(p)
  <2>1. Saved' = Saved /\ answer' = [op |-> "load", result |-> None] /\ now' = now
    BY <1>2 DEF Load, Saved, Answer
  <2>2. Held' = Saved[p]
    BY <1>2 DEF Load, Held, Saved
  <2>3. (maxsize' # None) \in BOOLEAN
    OBVIOUS
  <2> QED
    BY <2>1, <2>2, <2>3, Mapping DEF Contract!Load
<1> QED
  BY <1>1, <1>2

LEMMA ClearImplements ==
  ASSUME Clear
  PROVE  Contract!Clear
<1>1. Held' = [k \in Key |-> Missing]
  BY EmptyStore DEF Clear, Held, ValueAt
<1>2. Saved' = Saved /\ maxsize' = maxsize /\ answer' = [op |-> "clear", result |-> None]
  BY DEF Clear, Saved, Answer
<1> QED
  BY <1>1, <1>2, Mapping DEF Contract!Clear, Contract!Nothing

LEMMA TickImplements ==
  ASSUME Inv, Tick
  PROVE  Contract!Expire
<1> USE DEF Inv
<1> DEFINE lost == {k \in Key : Held'[k] # Held[k]}
           lostIn == [p \in Path |-> {k \in Key : Saved'[p][k] # Saved[p][k]}]
<1>1. /\ store' = store /\ disk' = disk /\ maxsize' = maxsize /\ answer' = answer
      /\ now \in Int /\ now' \in Int /\ now <= now'
  BY DEF Tick, TypeOK
<1>2. \A k \in Key : Held'[k] = Held[k] \/ Held'[k] = Missing
  BY <1>1, TimeOnlyExpires DEF Held, TypeOK
<1>3. \A p \in Path, k \in Key : Saved'[p][k] = Saved[p][k] \/ Saved'[p][k] = Missing
  <2>1. \A p \in Path : disk[p] \in Seq(Entry)
    BY DEF TypeOK
  <2> QED
    BY <1>1, <2>1, TimeOnlyExpires DEF Saved
<1>4. Held' = [k \in Key |-> IF k \in lost THEN Missing ELSE Held[k]]
  BY <1>2 DEF Held
<1>5. Saved' = [p \in Path |-> [k \in Key |-> IF k \in lostIn[p] THEN Missing ELSE Saved[p][k]]]
  BY <1>3 DEF Saved
<1>6. lost \in SUBSET Key /\ lostIn \in [Path -> SUBSET Key]
  OBVIOUS
<1> HIDE DEF lost, lostIn
<1>7. /\ \E gone \in SUBSET Key :
            Held' = [k \in Key |-> IF k \in gone THEN Missing ELSE Held[k]]
      /\ \E gone \in [Path -> SUBSET Key] :
            Saved' = [p \in Path |-> [k \in Key |-> IF k \in gone[p] THEN Missing ELSE Saved[p][k]]]
  BY <1>4, <1>5, <1>6
<1>8. \E gone \in SUBSET Key :
        LiveContents(store)' = Contract!Without(LiveContents(store), gone)
  BY <1>7, Mapping DEF Contract!Without
<1>9. \E gone \in [Path -> SUBSET Key] :
        [p \in Path |-> LiveContents(disk[p])]'
          = [p \in Path |-> Contract!Without([q \in Path |-> LiveContents(disk[q])][p], gone[p])]
  <2> DEFINE M == [q \in Path |-> LiveContents(disk[q])]
  <2>1. M = Saved /\ M' = Saved'
    BY Mapping
  <2> HIDE DEF M
  <2>2. \E gone \in [Path -> SUBSET Key] :
          M' = [p \in Path |-> Contract!Without(M[p], gone[p])]
    BY <1>7, <2>1 DEF Contract!Without
  <2> QED
    BY <2>2 DEF M
<1>10. UNCHANGED <<maxsize # None, answer>>
  BY <1>1
<1> QED
  BY <1>8, <1>9, <1>10 DEF Contract!Expire

LEMMA NextImplements == Inv /\ [Next]_vars => [Contract!Next]_(Contract!vars)
<1> SUFFICES ASSUME Inv, [Next]_vars
             PROVE  [Contract!Next]_(Contract!vars)
  OBVIOUS
<1>1. ASSUME NEW k \in Key, GetAbsent(k) \/ GetExpired(k) \/ GetHit(k)
      PROVE  Contract!Next
  BY <1>1, GetImplements DEF Contract!Next
<1>2. ASSUME NEW k \in Key, NEW v \in Value, Put(k, v)
      PROVE  Contract!Next
  BY <1>2, PutImplements DEF Contract!Next
<1>3. ASSUME NEW k \in Key, Delete(k)
      PROVE  Contract!Next
  BY <1>3, DeleteImplements DEF Contract!Next
<1>4. ASSUME NEW p \in Path, Save(p) \/ Load(p)
      PROVE  Contract!Next
  BY <1>4, FilesImplement DEF Contract!Next
<1>5. CASE Clear
  BY <1>5, ClearImplements DEF Contract!Next
<1>6. CASE Tick
  BY <1>6, TickImplements DEF Contract!Next
<1>7. CASE UNCHANGED vars
  BY <1>7 DEF vars, Contract!vars, LiveContents, IsExpired
<1> QED
  BY <1>1, <1>2, <1>3, <1>4, <1>5, <1>6, <1>7 DEF Next

(* Every behaviour of the store, with any keys, values, lifetimes, bounds  *)
(* and files, is one the CacheStore protocol allows.                       *)
THEOREM StoreKeepsContract == Spec => KeepsContract
BY SpecInv, InitImplements, NextImplements, PTL DEF Spec, KeepsContract
=============================================================================
