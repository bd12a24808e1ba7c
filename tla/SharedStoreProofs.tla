------------------------- MODULE SharedStoreProofs -------------------------
(***************************************************************************)
(* Proofs about SharedStore, and about ReadQueries composed with it, for   *)
(* any number of threads, keys, calls, stores and queries, any lifetime    *)
(* and any bound.                                                          *)
(***************************************************************************)
EXTENDS ReadQueries, OrderedDictLemmas, FiniteSetTheorems

\* What TypeOK says of a thread at location l with locals f and n stores.
FrameOK(l, f, n) ==
  /\ l \in Location
  /\ f \in Frame
  /\ f.store \in 0 .. n
  /\ l \notin {"idle", "resolve", "create"} \cup Ended => f.store # 0
  /\ l # "idle" => f.key \in Key
  /\ l \in {"check", "drop", "touch"} => f.entry \in Entry
  /\ l \in {"store", "trim", "pop", "returned"} => f.value \in Value

Inv == TypeOK /\ StoresAreDictionaries

LEMMA FrameOfThread ==
  ASSUME TypeOK, NEW t \in Thread
  PROVE  FrameOK(pc[t], frame[t], Len(dicts))
BY DEF TypeOK, FrameOK

(* What a thread at a location where a store is bound knows of that store. *)
LEMMA BoundStore ==
  ASSUME Inv, NEW t \in Thread, frame[t].store # 0
  PROVE  /\ frame[t].store \in DOMAIN dicts
         /\ Dict(t) \in Seq(Entry)
         /\ Unique(Dict(t))
         /\ Len(Dict(t)) \in Nat
<1>1. frame[t].store \in 1 .. Len(dicts) /\ DOMAIN dicts = 1 .. Len(dicts)
  BY LenProperties, FrameOfThread DEF FrameOK, Inv, TypeOK
<1>2. Dict(t) \in Seq(Entry)
  BY <1>1, ElementOfSeq DEF Dict, Inv, TypeOK
<1> QED
  BY <1>1, <1>2, LenProperties DEF Inv, StoresAreDictionaries, Dict

(* Writing one store leaves the others alone. *)
LEMMA SetDictProperties ==
  ASSUME Inv, NEW t \in Thread, frame[t].store # 0,
         NEW d \in Seq(Entry), SetDict(t, d)
  PROVE  /\ dicts' \in Seq(Seq(Entry))
         /\ Len(dicts') = Len(dicts)
         /\ DOMAIN dicts' = DOMAIN dicts
         /\ \A s \in DOMAIN dicts : dicts'[s] = IF s = frame[t].store THEN d ELSE dicts[s]
<1>1. frame[t].store \in 1 .. Len(dicts) /\ DOMAIN dicts = 1 .. Len(dicts)
  BY BoundStore, LenProperties DEF Inv, TypeOK
<1>2. dicts' = [dicts EXCEPT ![frame[t].store] = d]
  BY DEF SetDict
<1> QED
  BY <1>1, <1>2, ExceptSeq, LenProperties DEF Inv, TypeOK

(* A step of one thread keeps the types if what it changes has its type. *)
LEMMA StepType ==
  ASSUME TypeOK, NEW t \in Thread,
         dicts' \in Seq(Seq(Entry)), Len(dicts') >= Len(dicts),
         registry' \in 0 .. Len(dicts'),
         now' \in Nat, clears' \in Nat, calls' \in Nat,
         NEW l, pc' = [pc EXCEPT ![t] = l],
         NEW f, frame' = [frame EXCEPT ![t] = f],
         FrameOK(l, f, Len(dicts'))
  PROVE  TypeOK'
<1>1. Len(dicts) \in Nat /\ Len(dicts') \in Nat
  BY LenProperties DEF TypeOK
<1>2. \A u \in Thread : FrameOK(pc[u], frame[u], Len(dicts))
  BY FrameOfThread
<1>3. /\ pc' \in [Thread -> Location]
      /\ frame' \in [Thread -> Frame]
      /\ pc'[t] = l /\ frame'[t] = f
      /\ \A u \in Thread \ {t} : pc'[u] = pc[u] /\ frame'[u] = frame[u]
  BY DEF TypeOK, FrameOK
<1>4. \A u \in Thread : FrameOK(pc'[u], frame'[u], Len(dicts'))
  <2> SUFFICES ASSUME NEW u \in Thread
               PROVE  FrameOK(pc'[u], frame'[u], Len(dicts'))
    OBVIOUS
  <2>1. CASE u = t
    BY <1>3, <2>1
  <2>2. CASE u # t
    BY <1>1, <1>2, <1>3, <2>2 DEF FrameOK
  <2> QED
    BY <2>1, <2>2
<1> QED
  BY <1>3, <1>4 DEF TypeOK, FrameOK

-----------------------------------------------------------------------------
LEMMA InitInv == Init => Inv
<1> SUFFICES ASSUME Init PROVE Inv
  OBVIOUS
<1>1. dicts \in Seq(Seq(Entry)) /\ Len(dicts) = 0 /\ DOMAIN dicts = {}
  BY DEF Init
<1>2. IdleFrame \in Frame /\ IdleFrame.store = 0
  BY DEF IdleFrame, Frame, NoEntry, Unset
<1>3. TypeOK
  BY <1>1, <1>2 DEF Init, TypeOK, Location
<1> QED
  BY <1>1, <1>3 DEF Inv, StoresAreDictionaries

(* Assigning one local variable of a call leaves the others alone. *)
LEMMA StoreAssigned ==
  ASSUME NEW f \in Frame, NEW n \in Nat, NEW g, g = [f EXCEPT !.store = n]
  PROVE  g \in Frame /\ g.store = n /\ g.key = f.key
BY DEF Frame

LEMMA EntryAssigned ==
  ASSUME NEW f \in Frame, NEW e \in Entry \cup {NoEntry}, NEW g, g = [f EXCEPT !.entry = e]
  PROVE  g \in Frame /\ g.entry = e /\ g.key = f.key /\ g.store = f.store
BY DEF Frame

LEMMA ValueAssigned ==
  ASSUME NEW f \in Frame, NEW v \in Value \cup {Unset}, NEW g, g = [f EXCEPT !.value = v]
  PROVE  g \in Frame /\ g.value = v /\ g.key = f.key /\ g.store = f.store
BY DEF Frame

LEMMA HitAssigned ==
  ASSUME NEW f \in Frame, NEW v \in Value \cup {Unset},
         NEW g, g = [f EXCEPT !.value = v, !.hit = TRUE]
  PROVE  g \in Frame /\ g.value = v /\ g.key = f.key /\ g.store = f.store
BY DEF Frame

LEMMA IdleFrameType == IdleFrame \in Frame /\ IdleFrame.store = 0
BY DEF IdleFrame, Frame, NoEntry, Unset

(* A call starts with its key and the time. *)
LEMMA FirstFrame ==
  ASSUME NEW k \in Key, NEW u \in Nat,
         NEW g, g = [IdleFrame EXCEPT !.key = k, !.since = u]
  PROVE  g \in Frame /\ g.key = k /\ g.store = 0
BY DEF IdleFrame, Frame, NoEntry, Unset

(* The steps that leave the stores alone. *)
LEMMA LocalStepInv ==
  ASSUME Inv, NEW t \in Thread,
         \/ Resolve(t) \/ LookUp(t) \/ Check(t) \/ GetRaises(t) \/ Compute(t)
         \/ ComputeFails(t) \/ Trim(t) \/ PopRaises(t) \/ Leave(t)
         \/ \E k \in Key : Call(t, k)
  PROVE  Inv'
<1> USE DEF Inv
<1> DEFINE f == frame[t]
<1>1. /\ dicts' = dicts
      /\ dicts' \in Seq(Seq(Entry)) /\ Len(dicts') \in Nat /\ Len(dicts') >= Len(dicts)
      /\ registry' \in 0 .. Len(dicts')
      /\ now \in Nat /\ now' \in Nat /\ clears' \in Nat /\ calls' \in Nat
      /\ registry \in Nat
  <2>1. /\ UNCHANGED <<registry, dicts, now, clears>>
        /\ calls' = calls \/ calls' = calls + 1
    BY DEF Resolve, LookUp, Check, GetRaises, Compute, ComputeFails, Trim, PopRaises, Leave, Call
  <2> QED
    BY <2>1, LenProperties DEF TypeOK
<1>2. FrameOK(pc[t], f, Len(dicts'))
  BY <1>1, FrameOfThread
<1>3. StoresAreDictionaries'
  BY <1>1 DEF StoresAreDictionaries
<1>4. frame = [frame EXCEPT ![t] = f]
  BY DEF TypeOK
<1> HIDE DEF f
<1>5. ASSUME NEW l, pc' = [pc EXCEPT ![t] = l],
             NEW g, frame' = [frame EXCEPT ![t] = g],
             FrameOK(l, g, Len(dicts'))
      PROVE  Inv'
  BY <1>1, <1>3, <1>5, StepType
<1>6. ASSUME NEW k \in Key, Call(t, k)
      PROVE  Inv'
  <2> DEFINE g == [IdleFrame EXCEPT !.key = k, !.since = now]
  <2>1. g \in Frame /\ g.key = k /\ g.store = 0
    BY <1>1, FirstFrame
  <2>2. frame' = [frame EXCEPT ![t] = g] /\ pc' = [pc EXCEPT ![t] = "resolve"]
    BY <1>6 DEF Call, Goto
  <2> HIDE DEF g
  <2>3. FrameOK("resolve", g, Len(dicts'))
    BY <1>1, <2>1 DEF FrameOK, Location, Ended
  <2> QED
    BY <1>5, <2>2, <2>3
<1>7. CASE Resolve(t)
  <2> DEFINE g == [f EXCEPT !.store = registry]
             l == IF registry = 0 THEN "create" ELSE "lookup"
  <2>1. g \in Frame /\ g.store = registry /\ g.key = f.key
    BY <1>1, <1>2, StoreAssigned DEF FrameOK
  <2>2. frame' = [frame EXCEPT ![t] = g] /\ pc' = [pc EXCEPT ![t] = l] /\ pc[t] = "resolve"
    BY <1>7 DEF Resolve, Goto, f
  <2>3. registry \in 0 .. Len(dicts')
    BY <1>1 DEF TypeOK
  <2> HIDE DEF g
  <2>4. FrameOK(l, g, Len(dicts'))
    BY <1>2, <2>1, <2>2, <2>3 DEF FrameOK, Location, Ended
  <2> QED
    BY <1>5, <2>2, <2>4
<1>8. CASE LookUp(t)
  <2> DEFINE e == IF f.key \in Keys(Dict(t)) THEN Lookup(Dict(t), f.key) ELSE NoEntry
             l == IF f.key \in Keys(Dict(t)) THEN "check" ELSE "compute"
             g == [f EXCEPT !.entry = e]
  <2>1. pc[t] = "lookup"
    BY <1>8 DEF LookUp, Goto
  <2>2. f.store # 0
    BY <1>2, <2>1 DEF FrameOK, Ended
  <2>3. Dict(t) \in Seq(Entry)
    BY <2>2, BoundStore DEF f
  <2>4. f.key \in Keys(Dict(t)) => Lookup(Dict(t), f.key) \in Entry
    BY <2>3, PositionOfKey, ElementOfSeq, LenProperties
  <2>5. e \in Entry \cup {NoEntry} /\ (l = "check" => e \in Entry)
    BY <2>4
  <2>6. frame' = [frame EXCEPT ![t] = g] /\ pc' = [pc EXCEPT ![t] = l]
    BY <1>8 DEF LookUp, Goto, f
  <2>7. l \in {"check", "compute"}
    OBVIOUS
  <2> HIDE DEF e, l
  <2>8. g \in Frame /\ g.entry = e /\ g.key = f.key /\ g.store = f.store
    BY <1>2, <2>5, EntryAssigned DEF FrameOK
  <2> HIDE DEF g
  <2>9. FrameOK(l, g, Len(dicts'))
    BY <1>2, <2>1, <2>2, <2>5, <2>7, <2>8 DEF FrameOK, Location, Ended
  <2> QED
    BY <1>5, <2>6, <2>9
<1>9. CASE Check(t)
  <2> DEFINE l == IF IsExpired(f.entry.expires) THEN "drop" ELSE "touch"
  <2>1. pc[t] = "check" /\ pc' = [pc EXCEPT ![t] = l] /\ frame' = frame
    BY <1>9 DEF Check, Goto, f
  <2>2. FrameOK(l, f, Len(dicts'))
    BY <1>2, <2>1 DEF FrameOK, Location, Ended
  <2> HIDE DEF l
  <2> QED
    BY <1>4, <1>5, <2>1, <2>2
<1>10. CASE GetRaises(t) \/ PopRaises(t)
  <2>1. /\ pc[t] \in {"drop", "touch", "pop"}
        /\ pc' = [pc EXCEPT ![t] = "raised"] /\ frame' = frame
    BY <1>10 DEF GetRaises, PopRaises, Goto
  <2>2. FrameOK("raised", f, Len(dicts'))
    BY <1>2, <2>1 DEF FrameOK, Location, Ended
  <2> QED
    BY <1>4, <1>5, <2>1, <2>2
<1>11. CASE Compute(t)
  <2> DEFINE v == [key |-> f.key, at |-> now]
             g == [f EXCEPT !.value = v]
  <2>1. pc[t] = "compute" /\ pc' = [pc EXCEPT ![t] = "store"] /\ frame' = [frame EXCEPT ![t] = g]
    BY <1>11 DEF Compute, Goto, f
  <2>2. v \in Value
    BY <1>1, <1>2, <2>1 DEF FrameOK, Value
  <2> HIDE DEF v
  <2>3. g \in Frame /\ g.value = v /\ g.key = f.key /\ g.store = f.store
    BY <1>2, <2>2, ValueAssigned DEF FrameOK
  <2> HIDE DEF g
  <2>4. FrameOK("store", g, Len(dicts'))
    BY <1>2, <2>1, <2>2, <2>3 DEF FrameOK, Location, Ended
  <2> QED
    BY <1>5, <2>1, <2>4
<1>12. CASE ComputeFails(t)
  <2>1. pc[t] = "compute" /\ pc' = [pc EXCEPT ![t] = "failed"] /\ frame' = frame
    BY <1>12 DEF ComputeFails, Goto
  <2>2. FrameOK("failed", f, Len(dicts'))
    BY <1>2, <2>1 DEF FrameOK, Location, Ended
  <2> QED
    BY <1>4, <1>5, <2>1, <2>2
<1>13. CASE Trim(t)
  <2> DEFINE l == IF MaxSize # None /\ Len(Dict(t)) > MaxSize THEN "pop" ELSE "returned"
  <2>1. pc[t] = "trim" /\ pc' = [pc EXCEPT ![t] = l] /\ frame' = frame
    BY <1>13 DEF Trim, Goto
  <2>2. l \in {"pop", "returned"}
    OBVIOUS
  <2> HIDE DEF l
  <2>3. FrameOK(l, f, Len(dicts'))
    BY <1>2, <2>1, <2>2 DEF FrameOK, Location, Ended
  <2> QED
    BY <1>4, <1>5, <2>1, <2>3
<1>14. CASE Leave(t)
  <2>1. pc[t] \in Ended /\ pc' = [pc EXCEPT ![t] = "idle"] /\ frame' = [frame EXCEPT ![t] = IdleFrame]
    BY <1>14 DEF Leave
  <2>2. FrameOK("idle", IdleFrame, Len(dicts'))
    BY <1>1, IdleFrameType DEF FrameOK, Location, Ended
  <2> QED
    BY <1>5, <2>1, <2>2
<1> QED
  BY <1>6, <1>7, <1>8, <1>9, <1>10, <1>11, <1>12, <1>13, <1>14

(* The steps that write a store. *)
LEMMA StoreStepInv ==
  ASSUME Inv, NEW t \in Thread,
         Create(t) \/ Drop(t) \/ Touch(t) \/ Store(t) \/ Pop(t)
  PROVE  Inv'
<1> USE DEF Inv
<1> DEFINE f == frame[t]
           n == Len(dicts)
<1>1. /\ now' \in Nat /\ clears' \in Nat /\ calls' \in Nat
      /\ n \in Nat /\ registry \in 0 .. n
  BY LenProperties DEF Create, Drop, Touch, Store, Pop, TypeOK
<1>2. FrameOK(pc[t], f, n)
  BY FrameOfThread
<1>3. frame = [frame EXCEPT ![t] = f]
  BY DEF TypeOK
<1>4. CASE Create(t)
  <2> DEFINE g == [f EXCEPT !.store = n + 1]
  <2>1. /\ dicts' = Append(dicts, <<>>)
        /\ <<>> \in Seq(Entry) /\ Unique(<<>>)
    BY <1>4 DEF Create, Unique
  <2>2. /\ dicts' \in Seq(Seq(Entry))
        /\ Len(dicts') = n + 1
        /\ \A s \in 1 .. n : dicts'[s] = dicts[s]
        /\ dicts'[n + 1] = <<>>
    BY <2>1, AppendProperties DEF TypeOK
  <2>3. StoresAreDictionaries'
    BY <1>1, <2>1, <2>2, LenProperties DEF StoresAreDictionaries, TypeOK
  <2>4. /\ frame' = [frame EXCEPT ![t] = g]
        /\ pc[t] = "create"
        /\ pc' = [pc EXCEPT ![t] = "lookup"]
        /\ registry' = n + 1
    BY <1>4 DEF Create, Goto
  <2>5. n + 1 \in Nat /\ n + 1 # 0 /\ registry' \in 0 .. Len(dicts') /\ Len(dicts') >= Len(dicts)
    BY <1>1, <2>2, <2>4
  <2> HIDE DEF f
  <2>6. g \in Frame /\ g.store = n + 1 /\ g.key = f.key
    BY <1>2, <2>5, StoreAssigned DEF FrameOK
  <2> HIDE DEF g
  <2>7. FrameOK("lookup", g, Len(dicts'))
    BY <1>2, <2>2, <2>4, <2>5, <2>6 DEF FrameOK, Location, Ended
  <2>8. TypeOK'
    BY <1>1, <2>2, <2>4, <2>5, <2>7, StepType
  <2> QED
    BY <2>3, <2>8
<1>5. ASSUME NEW d \in Seq(Entry), Unique(d), SetDict(t, d), f.store # 0,
             registry' = registry,
             NEW l, pc' = [pc EXCEPT ![t] = l],
             NEW g, frame' = [frame EXCEPT ![t] = g],
             FrameOK(l, g, n)
      PROVE  Inv'
  <2>1. /\ dicts' \in Seq(Seq(Entry))
        /\ Len(dicts') = n
        /\ DOMAIN dicts' = DOMAIN dicts
        /\ \A s \in DOMAIN dicts : dicts'[s] = IF s = f.store THEN d ELSE dicts[s]
    BY <1>5, SetDictProperties
  <2>2. StoresAreDictionaries'
    BY <1>5, <2>1 DEF StoresAreDictionaries
  <2>3. TypeOK'
    <3>1. /\ registry' \in 0 .. Len(dicts') /\ Len(dicts') >= Len(dicts)
          /\ FrameOK(l, g, Len(dicts'))
      BY <1>1, <1>5, <2>1
    <3> QED
      BY <1>1, <1>5, <2>1, <3>1, StepType
  <2> QED
    BY <2>2, <2>3
<1>6. CASE Drop(t)
  <2>1. f.store # 0 /\ f.key \in Keys(Dict(t)) /\ FrameOK("compute", f, n)
    BY <1>2, <1>6 DEF Drop, Goto, FrameOK, Location, Ended
  <2>2. DelItem(Dict(t), f.key) \in Seq(Entry) /\ Unique(DelItem(Dict(t), f.key))
    BY <2>1, BoundStore, DelItemProperties
  <2> QED
    BY <1>3, <1>5, <1>6, <2>1, <2>2 DEF Drop, Goto
<1>7. CASE Touch(t)
  <2> DEFINE g == [f EXCEPT !.value = f.entry.value, !.hit = TRUE]
  <2>1. /\ pc[t] = "touch" /\ f.key \in Keys(Dict(t))
        /\ pc' = [pc EXCEPT ![t] = "returned"]
        /\ frame' = [frame EXCEPT ![t] = g]
        /\ SetDict(t, MoveToEnd(Dict(t), f.key)) /\ registry' = registry
    BY <1>7 DEF Touch, Goto, TypeOK
  <2>2. f.store # 0 /\ f.entry \in Entry /\ f.entry.value \in Value
    BY <1>2, <2>1 DEF FrameOK, Ended, Entry
  <2>3. MoveToEnd(Dict(t), f.key) \in Seq(Entry) /\ Unique(MoveToEnd(Dict(t), f.key))
    BY <2>1, <2>2, BoundStore, MoveToEndProperties
  <2> HIDE DEF f
  <2>4. g \in Frame /\ g.value = f.entry.value /\ g.key = f.key /\ g.store = f.store
    BY <1>2, <2>2, HitAssigned DEF FrameOK
  <2> HIDE DEF g
  <2>5. FrameOK("returned", g, n)
    BY <1>2, <2>1, <2>2, <2>4 DEF FrameOK, Location, Ended
  <2> QED
    BY <1>5, <2>1, <2>2, <2>3, <2>5
<1>8. CASE Store(t)
  <2> DEFINE x == [key |-> f.key, expires |-> Expiry, value |-> f.value]
  <2>1. f.store # 0 /\ f.key \in Key /\ f.value \in Value /\ FrameOK("trim", f, n)
    BY <1>2, <1>8 DEF Store, Goto, FrameOK, Location, Ended
  <2>2. x \in Entry
    BY <2>1, SharedAssumption DEF Entry, Expiry, TypeOK
  <2>3. Assign(Dict(t), x) \in Seq(Entry) /\ Unique(Assign(Dict(t), x))
    BY <2>1, <2>2, BoundStore, AssignProperties
  <2> QED
    BY <1>3, <1>5, <1>8, <2>1, <2>3 DEF Store, Goto
<1>9. CASE Pop(t)
  <2>1. f.store # 0 /\ FrameOK("trim", f, n) /\ Dict(t) # <<>>
    BY <1>2, <1>9 DEF Pop, Goto, FrameOK, Location, Ended
  <2>2. Tail(Dict(t)) \in Seq(Entry) /\ Unique(Tail(Dict(t)))
    BY <2>1, BoundStore, TailProperties
  <2> QED
    BY <1>3, <1>5, <1>9, <2>1, <2>2 DEF Pop, Goto
<1> QED
  BY <1>4, <1>6, <1>7, <1>8, <1>9

LEMMA NextInv == Inv /\ [Next]_vars => Inv'
<1> SUFFICES ASSUME Inv, [Next]_vars
             PROVE  Inv'
  OBVIOUS
<1>1. ASSUME NEW t \in Thread, Step(t) \/ Leave(t) \/ \E k \in Key : Call(t, k)
      PROVE  Inv'
  BY <1>1, LocalStepInv, StoreStepInv DEF Step
<1>2. CASE ClearRegistry \/ Tick \/ UNCHANGED vars
  BY <1>2, LenProperties DEF ClearRegistry, Tick, vars, Inv, TypeOK, StoresAreDictionaries
<1> QED
  BY <1>1, <1>2 DEF Next

LEMMA SpecInv == Spec => []Inv
BY InitInv, NextInv, PTL DEF Spec

(* The registry, the stores and the locals of every thread keep their types. *)
THEOREM TypeCorrect == Spec => []TypeOK
<1>1. Inv => TypeOK
  BY DEF Inv
<1> QED
  BY <1>1, SpecInv, PTL

(* However the steps of the threads interleave, no store ever has two      *)
(* entries for a key.                                                      *)
THEOREM StoresStayDictionaries == Spec => []StoresAreDictionaries
<1>1. Inv => StoresAreDictionaries
  BY DEF Inv
<1> QED
  BY <1>1, SpecInv, PTL

-----------------------------------------------------------------------------
\* OverfullOnlyByPendingPuts, for one store.
Overfull(s) == Len(dicts[s]) <= MaxSize + Cardinality(Trimming(s))

LEMMA TrimmingFinite ==
  ASSUME NEW s
  PROVE  IsFiniteSet(Trimming(s)) /\ Cardinality(Trimming(s)) \in Nat
<1>1. Trimming(s) \in SUBSET Thread
  BY DEF Trimming
<1> QED
  BY <1>1, FS_Subset, FS_CardinalityType, SharedAssumption

(* Two sets that agree on t and without it are one. *)
LEMMA SameBut ==
  ASSUME NEW A, NEW B, NEW t, A \ {t} = B \ {t}, t \in A <=> t \in B
  PROVE  A = B
OBVIOUS

(* A step of t in its trim loop, or out of it, disturbs no other thread's. *)
LEMMA TrimmingStep ==
  ASSUME TypeOK, NEW t \in Thread,
         NEW l, pc' = [pc EXCEPT ![t] = l],
         \A u \in Thread \ {t} : frame'[u] = frame[u],
         NEW s
  PROVE  /\ pc'[t] = l
         /\ Trimming(s)' \ {t} = Trimming(s) \ {t}
         /\ t \in Trimming(s)' <=> l \in {"trim", "pop"} /\ frame'[t].store = s
<1>1. /\ pc'[t] = l
      /\ \A u \in Thread \ {t} : pc'[u] = pc[u]
  BY DEF TypeOK
<1> QED
  BY <1>1 DEF Trimming

(* The steps that leave the trim loops and the stores alone, but for a     *)
(* thread that leaves its loop because its store fits.                     *)
LEMMA LocalStepBound ==
  ASSUME Inv, OverfullOnlyByPendingPuts, MaxSize # None, NEW t \in Thread,
         \/ Resolve(t) \/ LookUp(t) \/ Check(t) \/ GetRaises(t) \/ Compute(t)
         \/ ComputeFails(t) \/ Trim(t) \/ PopRaises(t) \/ Leave(t)
         \/ \E k \in Key : Call(t, k),
         NEW s \in DOMAIN dicts
  PROVE  Overfull(s)'
<1> USE DEF Inv
<1>1. /\ dicts' = dicts
      /\ \A u \in Thread \ {t} : frame'[u] = frame[u]
  BY DEF Resolve, LookUp, Check, GetRaises, Compute, ComputeFails, Trim, PopRaises, Leave, Call, TypeOK
<1>2. /\ MaxSize \in Nat
      /\ Cardinality(Trimming(s)) \in Nat
      /\ Cardinality(Trimming(s)') \in Nat
      /\ Len(dicts[s]) \in Nat
      /\ Len(dicts[s]) <= MaxSize + Cardinality(Trimming(s))
  <2>1. IsFiniteSet(Trimming(s)') /\ Cardinality(Trimming(s)') \in Nat
    <3>1. Trimming(s)' \in SUBSET Thread
      BY DEF Trimming
    <3> QED
      BY <3>1, FS_Subset, FS_CardinalityType, SharedAssumption
  <2>2. dicts[s] \in Seq(Entry)
    BY ElementOfSeq, LenProperties DEF TypeOK
  <2> QED
    BY <2>1, <2>2, TrimmingFinite, LenProperties, SharedAssumption DEF OverfullOnlyByPendingPuts
<1>3. ASSUME Trimming(s)' = Trimming(s)
      PROVE  Overfull(s)'
  BY <1>1, <1>2, <1>3 DEF Overfull
<1>4. ASSUME Len(dicts[s]) <= MaxSize
      PROVE  Overfull(s)'
  BY <1>1, <1>2, <1>4 DEF Overfull
<1>5. ASSUME pc[t] \notin {"trim", "pop"},
             NEW l, pc' = [pc EXCEPT ![t] = l], l \notin {"trim", "pop"}
      PROVE  Overfull(s)'
  <2>1. Trimming(s)' \ {t} = Trimming(s) \ {t} /\ t \notin Trimming(s)'
    BY <1>1, <1>5, TrimmingStep
  <2>2. t \notin Trimming(s)
    BY <1>5 DEF Trimming
  <2> QED
    BY <1>3, <2>1, <2>2
<1>6. ASSUME frame[t].store # s,
             NEW l, pc' = [pc EXCEPT ![t] = l], frame' = frame
      PROVE  Overfull(s)'
  <2>1. Trimming(s)' \ {t} = Trimming(s) \ {t} /\ t \notin Trimming(s)'
    BY <1>1, <1>6, TrimmingStep
  <2>2. t \notin Trimming(s)
    BY <1>6 DEF Trimming
  <2> QED
    BY <1>3, <2>1, <2>2
<1>7. CASE Trim(t)
  <2> DEFINE l == IF MaxSize # None /\ Len(Dict(t)) > MaxSize THEN "pop" ELSE "returned"
  <2>1. pc[t] = "trim" /\ pc' = [pc EXCEPT ![t] = l] /\ frame' = frame
    BY <1>7 DEF Trim, Goto
  <2>2. CASE l = "pop"
    <3>1. Trimming(s)' \ {t} = Trimming(s) \ {t}
          /\ (t \in Trimming(s)' <=> frame[t].store = s)
      BY <1>1, <2>1, <2>2, TrimmingStep
    <3>2. t \in Trimming(s) <=> frame[t].store = s
      BY <2>1 DEF Trimming
    <3> QED
      BY <1>3, <3>1, <3>2
  <2>3. CASE l # "pop" /\ frame[t].store = s
    BY <1>2, <1>4, <2>3 DEF Dict
  <2>4. CASE frame[t].store # s
    BY <1>6, <2>1, <2>4
  <2> QED
    BY <2>2, <2>3, <2>4
<1>8. CASE PopRaises(t)
  <2>1. pc' = [pc EXCEPT ![t] = "raised"] /\ frame' = frame /\ Dict(t) = <<>>
    BY <1>8 DEF PopRaises, Goto
  <2>2. CASE frame[t].store = s
    BY <1>2, <1>4, <2>1, <2>2 DEF Dict
  <2> QED
    BY <1>6, <2>1, <2>2
<1>9. CASE Resolve(t) \/ LookUp(t) \/ Check(t) \/ GetRaises(t) \/ Compute(t)
           \/ ComputeFails(t) \/ Leave(t) \/ \E k \in Key : Call(t, k)
  <2>1. /\ pc[t] \notin {"trim", "pop"}
        /\ \E l \in Location \ {"trim", "pop"} : pc' = [pc EXCEPT ![t] = l]
    BY <1>9 DEF Resolve, LookUp, Check, GetRaises, Compute, ComputeFails, Leave, Call, Goto,
       Location, Ended
  <2> QED
    BY <1>5, <2>1
<1> QED
  BY <1>7, <1>8, <1>9

(* The steps that write a store. *)
LEMMA StoreStepBound ==
  ASSUME Inv, OverfullOnlyByPendingPuts, MaxSize # None, NEW t \in Thread,
         Drop(t) \/ Touch(t) \/ Store(t) \/ Pop(t),
         NEW s \in DOMAIN dicts'
  PROVE  Overfull(s)'
<1> USE DEF Inv
<1> DEFINE d == Dict(t)
<1>1. FrameOK(pc[t], frame[t], Len(dicts))
  BY FrameOfThread
<1>2. frame[t].store # 0 /\ frame'[t].store = frame[t].store
  <2>1. pc[t] \in {"drop", "touch", "store", "pop"}
    BY DEF Drop, Touch, Store, Pop, Goto
  <2>2. CASE Touch(t)
    <3> DEFINE f == frame[t]
               v == f.entry.value
               g == [f EXCEPT !.value = v, !.hit = TRUE]
    <3>1. pc[t] = "touch" /\ frame' = [frame EXCEPT ![t] = g]
      BY <2>2 DEF Touch, Goto, TypeOK
    <3>2. f \in Frame /\ v \in Value
      BY <1>1, <3>1 DEF FrameOK, Entry
    <3>3. frame'[t] = g
      BY <3>1 DEF TypeOK
    <3>4. f.store # 0
      BY <1>1, <3>1 DEF FrameOK, Ended
    <3> HIDE DEF f, v
    <3>5. g.store = f.store
      BY <3>2, HitAssigned
    <3> QED
      BY <3>3, <3>4, <3>5 DEF f
  <2> QED
    BY <1>1, <2>1, <2>2 DEF FrameOK, Ended, Drop, Store, Pop
<1>3. d \in Seq(Entry) /\ Unique(d) /\ Len(d) \in Nat /\ frame[t].store \in DOMAIN dicts
  BY <1>2, BoundStore
<1>4. \A u \in Thread \ {t} : frame'[u] = frame[u]
  BY DEF Drop, Touch, Store, Pop, TypeOK
<1>5. MaxSize \in Nat
  BY SharedAssumption
<1>6. /\ IsFiniteSet(Trimming(s))
      /\ Cardinality(Trimming(s)) \in Nat
  BY TrimmingFinite
<1>7. ASSUME NEW e \in Seq(Entry), SetDict(t, e),
             Len(e) <= Len(d) \/ (Len(e) = Len(d) + 1 /\ Store(t))
      PROVE  Overfull(s)'
  <2>1. /\ DOMAIN dicts' = DOMAIN dicts
        /\ dicts'[s] = IF s = frame[t].store THEN e ELSE dicts[s]
        /\ Len(dicts[s]) \in Nat
        /\ Len(dicts[s]) <= MaxSize + Cardinality(Trimming(s))
        /\ Len(e) \in Nat
    <3>1. DOMAIN dicts' = DOMAIN dicts
      BY <1>2, <1>7, SetDictProperties
    <3>2. s \in DOMAIN dicts
      BY <3>1
    <3>3. dicts[s] \in Seq(Entry)
      BY <3>2, ElementOfSeq, LenProperties DEF TypeOK
    <3> QED
      BY <1>2, <1>7, <3>1, <3>2, <3>3, SetDictProperties, LenProperties
      DEF OverfullOnlyByPendingPuts
  <2>2. CASE Store(t)
    <3>1. /\ pc[t] = "store"
          /\ pc' = [pc EXCEPT ![t] = "trim"]
      BY <2>2 DEF Store, Goto
    <3>2. /\ Trimming(s)' \ {t} = Trimming(s) \ {t}
          /\ (t \in Trimming(s)' <=> frame[t].store = s)
      BY <1>2, <1>4, <3>1, TrimmingStep
    <3>3. t \notin Trimming(s)
      BY <3>1 DEF Trimming
    <3>4. CASE frame[t].store = s
      <4>1. Trimming(s)' = Trimming(s) \cup {t}
        BY <3>2, <3>3, <3>4
      <4>2. Cardinality(Trimming(s)') = Cardinality(Trimming(s)) + 1
        BY <1>6, <3>3, <4>1, FS_AddElement
      <4>3. Len(e) <= Len(d) + 1 /\ d = dicts[s]
        BY <1>3, <1>7, <2>1, <3>4 DEF Dict
      <4> QED
        BY <1>3, <1>5, <1>6, <2>1, <3>4, <4>2, <4>3 DEF Overfull
    <3>5. CASE frame[t].store # s
      <4>1. Trimming(s)' = Trimming(s)
        BY <3>2, <3>3, <3>5, SameBut
      <4> QED
        BY <2>1, <3>5, <4>1 DEF Overfull
    <3> QED
      BY <3>4, <3>5
  <2>3. CASE ~Store(t)
    <3>1. \/ pc[t] \in {"drop", "touch"} /\ \E l \in {"compute", "returned"} : pc' = [pc EXCEPT ![t] = l]
          \/ pc[t] = "pop" /\ pc' = [pc EXCEPT ![t] = "trim"]
      BY <2>3 DEF Drop, Touch, Pop, Goto
    <3>2. Trimming(s)' \ {t} = Trimming(s) \ {t} /\ (t \in Trimming(s)' <=> t \in Trimming(s))
      <4>1. CASE pc[t] = "pop" /\ pc' = [pc EXCEPT ![t] = "trim"]
        BY <1>2, <1>4, <4>1, TrimmingStep DEF Trimming
      <4>2. CASE pc[t] \in {"drop", "touch"} /\ \E l \in {"compute", "returned"} : pc' = [pc EXCEPT ![t] = l]
        BY <1>2, <1>4, <4>2, TrimmingStep DEF Trimming
      <4> QED
        BY <3>1, <4>1, <4>2
    <3>3. Trimming(s)' = Trimming(s)
      BY <3>2, SameBut
    <3>4. Len(e) <= Len(d)
      BY <1>7, <2>3
    <3> QED
      BY <1>3, <1>5, <1>6, <2>1, <3>3, <3>4 DEF Overfull, Dict
  <2> QED
    BY <2>2, <2>3
<1>8. CASE Drop(t)
  <2>1. frame[t].key \in Keys(d) /\ SetDict(t, DelItem(d, frame[t].key))
    BY <1>8 DEF Drop
  <2> HIDE DEF d
  <2>2. DelItem(d, frame[t].key) \in Seq(Entry) /\ Len(DelItem(d, frame[t].key)) <= Len(d)
    BY <1>3, <2>1, DelItemProperties
  <2> QED
    BY <1>7, <2>1, <2>2
<1>9. CASE Touch(t)
  <2>1. frame[t].key \in Keys(d) /\ SetDict(t, MoveToEnd(d, frame[t].key))
    BY <1>9 DEF Touch
  <2> HIDE DEF d
  <2>2. MoveToEnd(d, frame[t].key) \in Seq(Entry) /\ Len(MoveToEnd(d, frame[t].key)) <= Len(d)
    BY <1>3, <2>1, MoveToEndProperties
  <2> QED
    BY <1>7, <2>1, <2>2
<1>10. CASE Store(t)
  <2> DEFINE x == [key |-> frame[t].key, expires |-> Expiry, value |-> frame[t].value]
  <2>1. SetDict(t, Assign(d, x))
    BY <1>10 DEF Store
  <2>2. x \in Entry
    BY <1>1, <1>10, SharedAssumption DEF Store, Goto, FrameOK, Entry, Expiry, TypeOK, Ended
  <2> HIDE DEF d, x
  <2>3. /\ Assign(d, x) \in Seq(Entry)
        /\ Len(Assign(d, x)) = IF x.key \in Keys(d) THEN Len(d) ELSE Len(d) + 1
    BY <1>3, <2>2, AssignProperties
  <2> QED
    BY <1>3, <1>7, <1>10, <2>1, <2>3
<1>11. CASE Pop(t)
  <2>1. d # <<>> /\ SetDict(t, Tail(d))
    BY <1>11 DEF Pop
  <2> HIDE DEF d
  <2>2. Tail(d) \in Seq(Entry) /\ Len(Tail(d)) <= Len(d)
    BY <1>3, <2>1, TailProperties
  <2> QED
    BY <1>7, <2>1, <2>2
<1> QED
  BY <1>8, <1>9, <1>10, <1>11

(* A new store is empty. *)
LEMMA CreateBound ==
  ASSUME Inv, OverfullOnlyByPendingPuts, MaxSize # None, NEW t \in Thread, Create(t),
         NEW s \in DOMAIN dicts'
  PROVE  Overfull(s)'
<1> USE DEF Inv
<1>1. /\ pc[t] = "create"
      /\ pc' = [pc EXCEPT ![t] = "lookup"]
      /\ \A u \in Thread \ {t} : frame'[u] = frame[u]
      /\ dicts' = Append(dicts, <<>>)
  BY DEF Create, Goto, TypeOK
<1>2. /\ Trimming(s)' \ {t} = Trimming(s) \ {t}
      /\ t \notin Trimming(s)'
  BY <1>1, TrimmingStep
<1>3. t \notin Trimming(s)
  BY <1>1 DEF Trimming
<1>4. Trimming(s)' = Trimming(s)
  BY <1>2, <1>3
<1>5. MaxSize \in Nat /\ Cardinality(Trimming(s)) \in Nat
  BY TrimmingFinite, SharedAssumption
<1>6. /\ Len(dicts) \in Nat
      /\ dicts' \in Seq(Seq(Entry))
      /\ Len(dicts') = Len(dicts) + 1
      /\ \A i \in 1 .. Len(dicts) : dicts'[i] = dicts[i]
      /\ dicts'[Len(dicts) + 1] = <<>>
      /\ s \in 1 .. Len(dicts) + 1
  BY <1>1, AppendProperties, LenProperties DEF TypeOK
<1>7. CASE s \in 1 .. Len(dicts)
  BY <1>4, <1>6, <1>7, LenProperties DEF OverfullOnlyByPendingPuts, Overfull, TypeOK
<1>8. CASE s = Len(dicts) + 1
  BY <1>4, <1>5, <1>6, <1>8 DEF Overfull
<1> QED
  BY <1>6, <1>7, <1>8

(* Racing puts overfill a store by no more entries than there are threads  *)
(* still trimming it, for any number of threads and any bound; each of     *)
(* them leaves its loop only when the store fits.                          *)
THEOREM BoundSurvivesRaces == Spec => []OverfullOnlyByPendingPuts
<1>1. Init => OverfullOnlyByPendingPuts
  BY DEF Init, OverfullOnlyByPendingPuts
<1>2. ASSUME Inv, OverfullOnlyByPendingPuts, [Next]_vars
      PROVE  OverfullOnlyByPendingPuts'
  <2>1. SUFFICES ASSUME MaxSize # None, NEW s \in DOMAIN dicts'
                 PROVE  Overfull(s)'
    BY DEF OverfullOnlyByPendingPuts, Overfull
  <2>2. ASSUME NEW t \in Thread,
               \/ Resolve(t) \/ LookUp(t) \/ Check(t) \/ GetRaises(t) \/ Compute(t)
               \/ ComputeFails(t) \/ Trim(t) \/ PopRaises(t) \/ Leave(t)
               \/ \E k \in Key : Call(t, k)
        PROVE  Overfull(s)'
    <3>1. dicts' = dicts
      BY <2>2 DEF Resolve, LookUp, Check, GetRaises, Compute, ComputeFails, Trim, PopRaises,
         Leave, Call
    <3> QED
      BY <1>2, <2>1, <2>2, <3>1, LocalStepBound
  <2>3. ASSUME NEW t \in Thread, Drop(t) \/ Touch(t) \/ Store(t) \/ Pop(t)
        PROVE  Overfull(s)'
    BY <1>2, <2>1, <2>3, StoreStepBound
  <2>4. ASSUME NEW t \in Thread, Create(t)
        PROVE  Overfull(s)'
    BY <1>2, <2>1, <2>4, CreateBound
  <2>5. CASE ClearRegistry \/ Tick \/ UNCHANGED vars
    <3>1. UNCHANGED <<dicts, pc, frame>>
      BY <2>5 DEF ClearRegistry, Tick, vars
    <3>2. Trimming(s)' = Trimming(s)
      BY <3>1 DEF Trimming
    <3> QED
      BY <1>2, <2>1, <3>1, <3>2 DEF OverfullOnlyByPendingPuts, Overfull
  <2> QED
    BY <1>2, <2>2, <2>3, <2>4, <2>5 DEF Next, Step
<1> QED
  BY <1>1, <1>2, SpecInv, PTL DEF Spec

(* A shared store stays a bounded dictionary, however the threads of the   *)
(* process interleave (memory.py, get_shared_store).                       *)
THEOREM SoundInRaces == Spec => []StoresStaySound
<1>1. TypeOK /\ StoresAreDictionaries /\ OverfullOnlyByPendingPuts => StoresStaySound
  BY DEF StoresStaySound
<1> QED
  BY <1>1, TypeCorrect, StoresStayDictionaries, BoundSurvivesRaces, PTL

-----------------------------------------------------------------------------
(* What the calls return, and what the stores hold.                        *)

\* An entry put at some time up to u: its value is its key's, and was computed no
\* later than its lifetime began.
Genuine(e, u) ==
  /\ e.value.key = e.key
  /\ e.value.at <= u
  /\ TTL # None => e.value.at + TTL <= e.expires

\* What a thread at location l with locals f knows at time u: an entry that it has read
\* is its key's, and one that it goes on to serve was live when the call started.
FreshOK(l, f, u) ==
  /\ l # "idle" => f.since <= u
  /\ l # "returned" => ~f.hit
  /\ l \in {"check", "drop", "touch"} => f.entry.key = f.key /\ Genuine(f.entry, u)
  /\ l = "touch" => f.entry.expires = None \/ f.entry.expires > f.since
  /\ l \in {"store", "trim", "pop"} =>
       f.value.key = f.key /\ f.value.at >= f.since /\ f.value.at <= u
  /\ l = "returned" =>
       /\ f.value.key = f.key
       /\ IF f.hit
          THEN f.entry.expires = None \/ f.entry.expires > f.since
          ELSE f.value.at >= f.since

FreshInv ==
  /\ \A s \in DOMAIN dicts : \A i \in DOMAIN dicts[s] : Genuine(dicts[s][i], now)
  /\ \A t \in Thread : FreshOK(pc[t], frame[t], now)

(* A dictionary all of whose items are one of d's or x has no others at any *)
(* index.                                                                   *)
LEMMA ElementsOf ==
  ASSUME NEW d, NEW e, NEW x, Unique(e),
         \A k \in Keys(e) : Lookup(e, k) = x \/ (k \in Keys(d) /\ Lookup(e, k) = Lookup(d, k)),
         NEW u, \A i \in DOMAIN d : Genuine(d[i], u), Genuine(x, u)
  PROVE  \A i \in DOMAIN e : Genuine(e[i], u)
<1> SUFFICES ASSUME NEW i \in DOMAIN e PROVE Genuine(e[i], u)
  OBVIOUS
<1>1. e[i].key \in Keys(e) /\ Lookup(e, e[i].key) = e[i]
  BY LookupAtIndex
<1>2. ASSUME NEW k \in Keys(d) PROVE Genuine(Lookup(d, k), u)
  BY PositionOfKey
<1> QED
  BY <1>1, <1>2

(* A step of one thread that leaves the stores and the time alone. *)
LEMMA LocalFresh ==
  ASSUME Inv, FreshInv, NEW t \in Thread, UNCHANGED <<dicts, now>>,
         NEW l, pc' = [pc EXCEPT ![t] = l],
         NEW f, frame' = [frame EXCEPT ![t] = f],
         FreshOK(l, f, now)
  PROVE  FreshInv'
<1>1. \A u \in Thread : FreshOK(pc'[u], frame'[u], now)
  BY DEF Inv, TypeOK, FreshInv
<1> QED
  BY <1>1 DEF FreshInv

(* A step of one thread that writes its store. *)
LEMMA StoreFresh ==
  ASSUME Inv, FreshInv, NEW t \in Thread, now' = now, frame[t].store # 0,
         NEW d \in Seq(Entry), SetDict(t, d), \A i \in DOMAIN d : Genuine(d[i], now),
         NEW l, pc' = [pc EXCEPT ![t] = l],
         NEW f, frame' = [frame EXCEPT ![t] = f],
         FreshOK(l, f, now)
  PROVE  FreshInv'
<1>1. \A u \in Thread : FreshOK(pc'[u], frame'[u], now)
  BY DEF Inv, TypeOK, FreshInv
<1>2. /\ DOMAIN dicts' = DOMAIN dicts
      /\ \A s \in DOMAIN dicts : dicts'[s] = IF s = frame[t].store THEN d ELSE dicts[s]
  BY SetDictProperties
<1>3. ASSUME NEW s \in DOMAIN dicts', NEW i \in DOMAIN dicts'[s] PROVE Genuine(dicts'[s][i], now)
  <2>1. CASE s = frame[t].store
    BY <1>2, <1>3, <2>1
  <2>2. CASE s # frame[t].store
    BY <1>2, <1>3, <2>2 DEF FreshInv
  <2> QED
    BY <2>1, <2>2
<1> QED
  BY <1>1, <1>3 DEF FreshInv

LEMMA FreshInit == Init => FreshInv
<1> SUFFICES ASSUME Init PROVE FreshInv
  OBVIOUS
<1>1. DOMAIN dicts = {}
  BY DEF Init
<1>2. ASSUME NEW t \in Thread PROVE FreshOK(pc[t], frame[t], now)
  BY DEF Init, FreshOK, IdleFrame
<1> QED
  BY <1>1, <1>2 DEF FreshInv

LEMMA FreshNext == Inv /\ FreshInv /\ [Next]_vars => FreshInv'
<1> SUFFICES ASSUME Inv, FreshInv, [Next]_vars PROVE FreshInv'
  OBVIOUS
<1>1. now \in Nat
  BY DEF Inv, TypeOK
<1>2. ASSUME NEW t \in Thread, Step(t) \/ Leave(t) \/ \E k \in Key : Call(t, k)
      PROVE  FreshInv'
  <2> DEFINE f == frame[t]
  <2>1. /\ FrameOK(pc[t], f, Len(dicts)) /\ f \in Frame /\ FreshOK(pc[t], f, now)
        /\ frame = [frame EXCEPT ![t] = f]
    BY FrameOfThread DEF Inv, TypeOK, FreshInv
  <2>2. f.store # 0 => Dict(t) \in Seq(Entry) /\ Unique(Dict(t)) /\ frame[t].store \in DOMAIN dicts
    BY BoundStore
  <2>3. f.store # 0 => \A i \in DOMAIN Dict(t) : Genuine(Dict(t)[i], now)
    BY <2>2 DEF Dict, FreshInv
  <2> HIDE DEF f
  <2>4. ASSUME NEW k \in Key, Call(t, k) PROVE FreshInv'
    <3> DEFINE g == [IdleFrame EXCEPT !.key = k, !.since = now]
    <3>1. frame' = [frame EXCEPT ![t] = g] /\ pc' = [pc EXCEPT ![t] = "resolve"] /\ UNCHANGED <<dicts, now>>
      BY <2>4 DEF Call, Goto
    <3>2. FreshOK("resolve", g, now)
      BY <1>1 DEF FreshOK, IdleFrame
    <3> HIDE DEF g
    <3> QED
      BY <3>1, <3>2, LocalFresh
  <2>5. CASE Resolve(t)
    <3> DEFINE g == [f EXCEPT !.store = registry]
               l == IF registry = 0 THEN "create" ELSE "lookup"
    <3>1. /\ frame' = [frame EXCEPT ![t] = g] /\ pc' = [pc EXCEPT ![t] = l] /\ pc[t] = "resolve"
          /\ UNCHANGED <<dicts, now>>
      BY <2>5 DEF Resolve, Goto, f
    <3>2. g.since = f.since /\ g.hit = f.hit
      BY <2>1 DEF Frame
    <3> HIDE DEF g
    <3>3. FreshOK(l, g, now)
      BY <2>1, <3>1, <3>2 DEF FreshOK
    <3> HIDE DEF l
    <3> QED
      BY <3>1, <3>3, LocalFresh
  <2>6. CASE Create(t)
    <3> DEFINE g == [f EXCEPT !.store = Len(dicts) + 1]
    <3>1. /\ frame' = [frame EXCEPT ![t] = g] /\ pc' = [pc EXCEPT ![t] = "lookup"] /\ pc[t] = "create"
          /\ dicts' = Append(dicts, <<>>) /\ now' = now
      BY <2>6 DEF Create, Goto, f
    <3>2. g.since = f.since /\ g.hit = f.hit
      BY <2>1 DEF Frame
    <3> HIDE DEF g
    <3>3. FreshOK("lookup", g, now)
      BY <2>1, <3>1, <3>2 DEF FreshOK
    <3>4. \A u \in Thread : FreshOK(pc'[u], frame'[u], now)
      BY <3>1, <3>3 DEF Inv, TypeOK, FreshInv
    <3>5. /\ Len(dicts') = Len(dicts) + 1 /\ DOMAIN dicts' = 1 .. Len(dicts) + 1
          /\ DOMAIN dicts = 1 .. Len(dicts) /\ Len(dicts) \in Nat
          /\ \A s \in 1 .. Len(dicts) : dicts'[s] = dicts[s]
          /\ dicts'[Len(dicts) + 1] = <<>>
      BY <3>1, AppendProperties, LenProperties DEF Inv, TypeOK
    <3>6. ASSUME NEW s \in DOMAIN dicts', NEW i \in DOMAIN dicts'[s] PROVE Genuine(dicts'[s][i], now)
      <4>1. CASE s = Len(dicts) + 1
        BY <3>5, <3>6, <4>1
      <4>2. CASE s # Len(dicts) + 1
        BY <3>5, <3>6, <4>2 DEF FreshInv
      <4> QED
        BY <4>1, <4>2
    <3> QED
      BY <3>1, <3>4, <3>6 DEF FreshInv
  <2>7. CASE LookUp(t)
    <3> DEFINE e == IF f.key \in Keys(Dict(t)) THEN Lookup(Dict(t), f.key) ELSE NoEntry
               l == IF f.key \in Keys(Dict(t)) THEN "check" ELSE "compute"
               g == [f EXCEPT !.entry = e]
    <3>1. /\ frame' = [frame EXCEPT ![t] = g] /\ pc' = [pc EXCEPT ![t] = l] /\ pc[t] = "lookup"
          /\ UNCHANGED <<dicts, now>>
      BY <2>7 DEF LookUp, Goto, f
    <3>2. f.store # 0
      BY <2>1, <3>1 DEF FrameOK, Ended
    <3>3. l = "check" => e.key = f.key /\ Genuine(e, now)
      BY <2>3, <3>2, PositionOfKey
    <3>4. l \in {"check", "compute"}
      OBVIOUS
    <3> HIDE DEF e, l
    <3>5. g.since = f.since /\ g.hit = f.hit /\ g.key = f.key /\ g.entry = e
      BY <2>1 DEF Frame
    <3> HIDE DEF g
    <3>6. FreshOK(l, g, now)
      BY <2>1, <3>1, <3>3, <3>4, <3>5 DEF FreshOK
    <3> QED
      BY <3>1, <3>6, LocalFresh
  <2>8. CASE Check(t)
    <3> DEFINE l == IF IsExpired(f.entry.expires) THEN "drop" ELSE "touch"
    <3>1. pc[t] = "check" /\ pc' = [pc EXCEPT ![t] = l] /\ frame' = frame /\ UNCHANGED <<dicts, now>>
      BY <2>8 DEF Check, Goto, f
    <3>2. f.entry \in Entry /\ f.since \in Nat /\ f.since <= now
      BY <2>1, <3>1 DEF FrameOK, Frame, FreshOK
    <3>3. l = "touch" => f.entry.expires = None \/ f.entry.expires > f.since
      BY <1>1, <3>2 DEF IsExpired, Entry
    <3>4. l \in {"drop", "touch"}
      OBVIOUS
    <3> HIDE DEF l
    <3>5. FreshOK(l, f, now)
      BY <2>1, <3>1, <3>3, <3>4 DEF FreshOK
    <3> QED
      BY <2>1, <3>1, <3>5, LocalFresh
  <2>9. CASE Drop(t)
    <3>1. /\ pc[t] = "drop" /\ pc' = [pc EXCEPT ![t] = "compute"] /\ frame' = frame /\ now' = now
          /\ f.key \in Keys(Dict(t)) /\ SetDict(t, DelItem(Dict(t), f.key))
      BY <2>9 DEF Drop, Goto, f
    <3>2. f.store # 0 /\ FreshOK("compute", f, now)
      BY <2>1, <3>1 DEF FrameOK, Ended, FreshOK
    <3> DEFINE d == DelItem(Dict(t), f.key)
    <3>3. /\ d \in Seq(Entry) /\ Unique(d)
          /\ \A k \in Keys(d) : k \in Keys(Dict(t)) /\ Lookup(d, k) = Lookup(Dict(t), k)
      BY <2>2, <3>1, <3>2, DelItemProperties
    <3> HIDE DEF d
    <3>4. Genuine(Lookup(Dict(t), f.key), now)
      BY <2>3, <3>1, <3>2, PositionOfKey
    <3>5. \A i \in DOMAIN d : Genuine(d[i], now)
      BY <2>3, <3>2, <3>3, <3>4, ElementsOf
    <3> QED
      BY <2>1, <3>1, <3>2, <3>3, <3>5, StoreFresh DEF d, f
  <2>10. CASE Touch(t)
    <3> DEFINE g == [f EXCEPT !.value = f.entry.value, !.hit = TRUE]
               d == MoveToEnd(Dict(t), f.key)
    <3>1. /\ pc[t] = "touch" /\ f.key \in Keys(Dict(t)) /\ now' = now
          /\ pc' = [pc EXCEPT ![t] = "returned"]
          /\ frame' = [frame EXCEPT ![t] = g]
          /\ SetDict(t, d)
      BY <2>10 DEF Touch, Goto, Inv, TypeOK, f
    <3>2. f.store # 0 /\ f.entry \in Entry
      BY <2>1, <3>1 DEF FrameOK, Ended
    <3>3. /\ d \in Seq(Entry) /\ Unique(d)
          /\ \A k \in Keys(d) : k \in Keys(Dict(t)) /\ Lookup(d, k) = Lookup(Dict(t), k)
      BY <2>2, <3>1, <3>2, MoveToEndProperties
    <3> HIDE DEF d
    <3>4. Genuine(Lookup(Dict(t), f.key), now)
      BY <2>3, <3>1, <3>2, PositionOfKey
    <3>5. \A i \in DOMAIN d : Genuine(d[i], now)
      BY <2>3, <3>2, <3>3, <3>4, ElementsOf
    <3>6. g.value = f.entry.value /\ g.hit /\ g.key = f.key /\ g.since = f.since /\ g.entry = f.entry
      BY <2>1 DEF Frame
    <3> HIDE DEF g
    <3>7. FreshOK("returned", g, now)
      BY <2>1, <3>1, <3>6 DEF FreshOK, Genuine
    <3> QED
      BY <3>1, <3>2, <3>3, <3>5, <3>7, StoreFresh DEF f
  <2>11. CASE GetRaises(t) \/ PopRaises(t)
    <3>1. /\ pc[t] \in {"drop", "touch", "pop"} /\ UNCHANGED <<dicts, now>>
          /\ pc' = [pc EXCEPT ![t] = "raised"] /\ frame' = frame
      BY <2>11 DEF GetRaises, PopRaises, Goto
    <3>2. FreshOK("raised", f, now)
      BY <2>1, <3>1 DEF FreshOK
    <3> QED
      BY <2>1, <3>1, <3>2, LocalFresh
  <2>12. CASE Compute(t)
    <3> DEFINE v == [key |-> f.key, at |-> now]
               g == [f EXCEPT !.value = v]
    <3>1. /\ pc[t] = "compute" /\ pc' = [pc EXCEPT ![t] = "store"] /\ frame' = [frame EXCEPT ![t] = g]
          /\ UNCHANGED <<dicts, now>>
      BY <2>12 DEF Compute, Goto, f
    <3>2. g.value.key = f.key /\ g.value.at = now /\ g.hit = f.hit /\ g.key = f.key /\ g.since = f.since
      BY <2>1 DEF Frame
    <3> HIDE DEF g
    <3>3. FreshOK("store", g, now)
      BY <1>1, <2>1, <3>1, <3>2 DEF FreshOK
    <3> QED
      BY <3>1, <3>3, LocalFresh
  <2>13. CASE ComputeFails(t)
    <3>1. /\ pc[t] = "compute" /\ UNCHANGED <<dicts, now>>
          /\ pc' = [pc EXCEPT ![t] = "failed"] /\ frame' = frame
      BY <2>13 DEF ComputeFails, Goto
    <3>2. FreshOK("failed", f, now)
      BY <2>1, <3>1 DEF FreshOK
    <3> QED
      BY <2>1, <3>1, <3>2, LocalFresh
  <2>14. CASE Store(t)
    <3> DEFINE x == [key |-> f.key, expires |-> Expiry, value |-> f.value]
               d == Assign(Dict(t), x)
    <3>1. /\ pc[t] = "store" /\ pc' = [pc EXCEPT ![t] = "trim"] /\ frame' = frame /\ now' = now
          /\ SetDict(t, d)
      BY <2>14 DEF Store, Goto, f
    <3>2. f.store # 0 /\ f.key \in Key /\ f.value \in Value /\ FreshOK("trim", f, now)
      BY <2>1, <3>1 DEF FrameOK, Ended, FreshOK
    <3>3. x \in Entry
      BY <1>1, <3>2, SharedAssumption DEF Entry, Expiry
    <3>4. Genuine(x, now)
      BY <1>1, <3>2, SharedAssumption DEF Genuine, Expiry, FreshOK, Value
    <3>5. /\ d \in Seq(Entry) /\ Unique(d)
          /\ \A k \in Keys(d) : Lookup(d, k) = x \/ (k \in Keys(Dict(t)) /\ Lookup(d, k) = Lookup(Dict(t), k))
      <4> DEFINE D == Dict(t)
      <4>1. D \in Seq(Entry) /\ Unique(D)
        BY <2>2, <3>2
      <4> HIDE DEF x, D
      <4>2. /\ Assign(D, x) \in Seq(Entry) /\ Unique(Assign(D, x))
            /\ Keys(Assign(D, x)) = Keys(D) \cup {x.key}
            /\ Lookup(Assign(D, x), x.key) = x
            /\ \A j \in Keys(D) \ {x.key} : Lookup(Assign(D, x), j) = Lookup(D, j)
        BY <3>3, <4>1, AssignProperties
      <4> QED
        BY <4>2 DEF D
    <3> HIDE DEF d, x
    <3>6. \A i \in DOMAIN d : Genuine(d[i], now)
      BY <2>3, <3>2, <3>4, <3>5, ElementsOf
    <3> QED
      BY <2>1, <3>1, <3>2, <3>5, <3>6, StoreFresh DEF f
  <2>15. CASE Trim(t)
    <3> DEFINE l == IF MaxSize # None /\ Len(Dict(t)) > MaxSize THEN "pop" ELSE "returned"
    <3>1. pc[t] = "trim" /\ pc' = [pc EXCEPT ![t] = l] /\ frame' = frame /\ UNCHANGED <<dicts, now>>
      BY <2>15 DEF Trim, Goto
    <3>2. l \in {"pop", "returned"}
      OBVIOUS
    <3> HIDE DEF l
    <3>3. FreshOK(l, f, now)
      BY <2>1, <3>1, <3>2 DEF FreshOK
    <3> QED
      BY <2>1, <3>1, <3>3, LocalFresh
  <2>16. CASE Pop(t)
    <3> DEFINE d == Tail(Dict(t))
    <3>1. /\ pc[t] = "pop" /\ pc' = [pc EXCEPT ![t] = "trim"] /\ frame' = frame /\ now' = now
          /\ Dict(t) # <<>> /\ SetDict(t, d)
      BY <2>16 DEF Pop, Goto
    <3>2. f.store # 0 /\ FreshOK("trim", f, now)
      BY <2>1, <3>1 DEF FrameOK, Ended, FreshOK
    <3>3. d \in Seq(Entry) /\ \A i \in DOMAIN d : \E j \in DOMAIN Dict(t) : d[i] = Dict(t)[j]
      BY <2>2, <3>1, <3>2, TailProperties
    <3> HIDE DEF d
    <3>4. \A i \in DOMAIN d : Genuine(d[i], now)
      BY <2>3, <3>2, <3>3
    <3> QED
      BY <2>1, <3>1, <3>2, <3>3, <3>4, StoreFresh DEF f
  <2>17. CASE Leave(t)
    <3>1. /\ pc' = [pc EXCEPT ![t] = "idle"] /\ frame' = [frame EXCEPT ![t] = IdleFrame]
          /\ UNCHANGED <<dicts, now>>
      BY <2>17 DEF Leave
    <3>2. FreshOK("idle", IdleFrame, now)
      BY DEF FreshOK, IdleFrame
    <3> QED
      BY <3>1, <3>2, LocalFresh
  <2> QED
    BY <1>2, <2>4, <2>5, <2>6, <2>7, <2>8, <2>9, <2>10, <2>11, <2>12, <2>13, <2>14, <2>15, <2>16,
       <2>17 DEF Step
<1>3. CASE Tick
  <2>1. now' = now + 1 /\ UNCHANGED <<dicts, pc, frame>>
    BY <1>3 DEF Tick
  <2>2. ASSUME NEW e \in Entry, Genuine(e, now) PROVE Genuine(e, now + 1)
    BY <1>1, <2>2 DEF Genuine, Entry, Value
  <2>3. ASSUME NEW s \in DOMAIN dicts, NEW i \in DOMAIN dicts[s] PROVE Genuine(dicts[s][i], now + 1)
    <3>1. dicts[s] \in Seq(Entry)
      BY ElementOfSeq, LenProperties DEF Inv, TypeOK
    <3>2. dicts[s][i] \in Entry
      BY <3>1, ElementOfSeq, LenProperties
    <3> QED
      BY <2>2, <3>2 DEF FreshInv
  <2>4. ASSUME NEW t \in Thread PROVE FreshOK(pc[t], frame[t], now + 1)
    <3> DEFINE f == frame[t]
    <3>1. FrameOK(pc[t], f, Len(dicts)) /\ f \in Frame /\ FreshOK(pc[t], f, now)
      BY FrameOfThread DEF Inv, TypeOK, FreshInv
    <3> HIDE DEF f
    <3>2. pc[t] \in {"check", "drop", "touch"} => f.entry \in Entry
      BY <3>1 DEF FrameOK
    <3>3. pc[t] \in {"store", "trim", "pop"} => f.value.at \in Nat
      BY <3>1 DEF FrameOK, Value
    <3>4. f.since \in Nat
      BY <3>1 DEF Frame
    <3> QED
      BY <1>1, <2>2, <3>1, <3>2, <3>3, <3>4 DEF FreshOK, f
  <2> QED
    BY <2>1, <2>3, <2>4 DEF FreshInv
<1>4. CASE ClearRegistry \/ UNCHANGED vars
  BY <1>4 DEF ClearRegistry, vars, FreshInv
<1> QED
  BY <1>2, <1>3, <1>4 DEF Next

LEMMA SpecFresh == Spec => []FreshInv
BY FreshInit, FreshNext, SpecInv, PTL DEF Spec

(* Whatever the other threads do meanwhile, a call returns a value of its  *)
(* own key: computed during the call, or of an entry that was live when    *)
(* the call started (memory.py, MemoryStore.get).                          *)
THEOREM CallsAreServedFresh == Spec => []ServedFresh
<1>1. FreshInv => ServedFresh
  BY DEF FreshInv, FreshOK, ServedFresh
<1> QED
  BY <1>1, SpecFresh, PTL

(* What a shared store holds for a key was computed for that key, no later *)
(* than its lifetime began (memory.py, MemoryStore.put).                   *)
THEOREM StoresHoldGenuineEntries == Spec => []EntriesAreGenuine
<1>1. FreshInv => EntriesAreGenuine
  BY DEF FreshInv, Genuine, EntriesAreGenuine
<1> QED
  BY <1>1, SpecFresh, PTL

-----------------------------------------------------------------------------
(* The batches of read_queries.                                            *)

\* A thread has a query of the batch to itself, and its call is for that query.
TasksInv ==
  /\ \A t \in Thread : task[t] # 0 =>
       frame[t].key = batch[task[t]] /\ frame[t].since >= started
  /\ \A t, u \in Thread : task[t] # 0 /\ task[t] = task[u] => t = u

\* Without a cache no call is in a store.
UncachedInv ==
  persist = None =>
    \A t \in Thread : pc[t] \in {"idle", "resolve", "failed", "returned"} /\ ~frame[t].hit

\* A future is set once its query is taken and no thread works on it any more.
OutcomesInv ==
  \A i \in DOMAIN batch :
    /\ outcome[i].done \/ i > taken \/ \E t \in Thread : task[t] = i
    /\ outcome[i].done => i <= taken /\ \A t \in Thread : task[t] # i
    /\ Succeeded(i) =>
         outcome[i].value.key = batch[i] /\ (persist = None => outcome[i].value.at >= started)

\* What the caller knows where it is.
CallerInv ==
  /\ started <= now
  /\ \A i \in 1 .. awaited - 1 : Succeeded(i)
  /\ caller # "submitting" => submitted = Len(batch)
  /\ caller = "leaving" => awaited = Len(batch) + 1
  /\ caller = "raising" => awaited <= Len(batch) /\ Failed(awaited)
  /\ caller = "idle" => taken = submitted /\ \A t \in Thread : task[t] = 0

PoolInv == PoolTypeOK /\ TasksInv /\ UncachedInv /\ OutcomesInv /\ CallerInv

\* Inductive: what the calls return rests on the stores they read.
ReadInv == Inv /\ FreshInv /\ PoolInv

-----------------------------------------------------------------------------
(* A step within a call leaves what it was called with. *)
LEMMA StepKeepsCall ==
  ASSUME Inv, NEW t \in Thread, Step(t)
  PROVE  /\ pc[t] \notin {"idle", "returned", "failed", "raised"}
         /\ now' = now
         /\ \E l \in Location \ {"idle"}, f \in Frame :
              /\ pc' = [pc EXCEPT ![t] = l]
              /\ frame' = [frame EXCEPT ![t] = f]
              /\ f.key = frame[t].key /\ f.since = frame[t].since
<1>1. frame[t] \in Frame /\ pc[t] \in Location /\ frame = [frame EXCEPT ![t] = frame[t]]
  BY DEF Inv, TypeOK
<1>2. Inv'
  BY LocalStepInv, StoreStepInv DEF Step
<1>3. frame'[t] \in Frame /\ pc'[t] \in Location
  BY <1>2 DEF Inv, TypeOK
<1>4. now' = now /\ pc[t] \notin {"idle", "returned", "failed", "raised"}
  BY DEF Step, Resolve, Create, LookUp, Check, Drop, Touch, GetRaises, Compute, ComputeFails,
         Store, Trim, Pop, PopRaises, Goto
<1>5. \E l : l # "idle" /\ pc' = [pc EXCEPT ![t] = l]
  BY DEF Step, Resolve, Create, LookUp, Check, Drop, Touch, GetRaises, Compute, ComputeFails,
         Store, Trim, Pop, PopRaises, Goto
<1>6. \E f : frame' = [frame EXCEPT ![t] = f] /\ f.key = frame[t].key /\ f.since = frame[t].since
  <2> DEFINE g == frame[t]
  <2>1. CASE Check(t) \/ Drop(t) \/ GetRaises(t) \/ ComputeFails(t) \/ Store(t)
             \/ Trim(t) \/ Pop(t) \/ PopRaises(t)
    BY <1>1, <2>1 DEF Check, Drop, GetRaises, ComputeFails, Store, Trim, Pop, PopRaises
  <2>2. CASE Resolve(t) \/ Create(t)
    <3>1. PICK n : frame' = [frame EXCEPT ![t].store = n]
      BY <2>2 DEF Resolve, Create
    <3>2. frame' = [frame EXCEPT ![t] = [frame[t] EXCEPT !.store = n]]
      BY <1>1, <3>1
    <3>3. [g EXCEPT !.store = n].key = g.key /\ [g EXCEPT !.store = n].since = g.since
      BY <1>1 DEF Frame
    <3> QED
      BY <3>2, <3>3
  <2>3. CASE LookUp(t)
    <3>1. PICK n : frame' = [frame EXCEPT ![t].entry = n]
      BY <2>3 DEF LookUp
    <3>2. frame' = [frame EXCEPT ![t] = [frame[t] EXCEPT !.entry = n]]
      BY <1>1, <3>1
    <3>3. [g EXCEPT !.entry = n].key = g.key /\ [g EXCEPT !.entry = n].since = g.since
      BY <1>1 DEF Frame
    <3> QED
      BY <3>2, <3>3
  <2>4. CASE Compute(t)
    <3>1. PICK n : frame' = [frame EXCEPT ![t].value = n]
      BY <2>4 DEF Compute
    <3>2. frame' = [frame EXCEPT ![t] = [frame[t] EXCEPT !.value = n]]
      BY <1>1, <3>1
    <3>3. [g EXCEPT !.value = n].key = g.key /\ [g EXCEPT !.value = n].since = g.since
      BY <1>1 DEF Frame
    <3> QED
      BY <3>2, <3>3
  <2>5. CASE Touch(t)
    <3> DEFINE h == [g EXCEPT !.value = g.entry.value, !.hit = TRUE]
    <3>1. frame' = [frame EXCEPT ![t] = h]
      BY <1>1, <2>5 DEF Touch
    <3>2. h.key = g.key /\ h.since = g.since
      BY <1>1 DEF Frame
    <3> QED
      BY <3>1, <3>2
  <2> QED
    BY <2>1, <2>2, <2>3, <2>4, <2>5 DEF Step
<1>7. PICK l : l # "idle" /\ pc' = [pc EXCEPT ![t] = l]
  BY <1>5
<1>8. PICK f : frame' = [frame EXCEPT ![t] = f] /\ f.key = frame[t].key /\ f.since = frame[t].since
  BY <1>6
<1>9. l \in Location /\ f \in Frame
  BY <1>3, <1>7, <1>8 DEF Inv, TypeOK
<1> QED
  BY <1>4, <1>7, <1>8, <1>9

(* The two steps of a thread that SharedStore does not have: a query that   *)
(* cannot be rendered, and one that is read without a cache.                *)
LEMMA PlainStepShared ==
  ASSUME Inv, FreshInv, NEW t \in Thread, RenderFails(t) \/ ReadUncached(t)
  PROVE  Inv' /\ FreshInv'
<1>1. /\ frame[t] \in Frame /\ frame = [frame EXCEPT ![t] = frame[t]]
      /\ FrameOK(pc[t], frame[t], Len(dicts)) /\ FreshOK(pc[t], frame[t], now)
      /\ dicts \in Seq(Seq(Entry)) /\ registry \in 0 .. Len(dicts) /\ Len(dicts) \in Nat
      /\ now \in Nat /\ clears \in Nat /\ calls \in Nat
  BY FrameOfThread, LenProperties DEF Inv, TypeOK, FreshInv
<1>2. /\ pc[t] = "resolve"
      /\ UNCHANGED <<registry, dicts, now, clears, calls>>
  BY DEF RenderFails, ReadUncached, Goto
<1>3. \E l, f : /\ pc' = [pc EXCEPT ![t] = l] /\ frame' = [frame EXCEPT ![t] = f]
                /\ FrameOK(l, f, Len(dicts)) /\ FreshOK(l, f, now)
  <2>1. CASE RenderFails(t)
    <3>1. pc' = [pc EXCEPT ![t] = "failed"] /\ frame' = [frame EXCEPT ![t] = frame[t]]
      BY <1>1, <2>1 DEF RenderFails, Goto
    <3>2. FrameOK("failed", frame[t], Len(dicts)) /\ FreshOK("failed", frame[t], now)
      BY <1>1, <1>2 DEF FrameOK, FreshOK, Location, Ended
    <3> QED
      BY <3>1, <3>2
  <2>2. CASE ReadUncached(t)
    <3> DEFINE v == [key |-> frame[t].key, at |-> now]
               f == [frame[t] EXCEPT !.value = v]
    <3>1. pc' = [pc EXCEPT ![t] = "returned"] /\ frame' = [frame EXCEPT ![t] = f]
      BY <1>1, <2>2 DEF ReadUncached, Goto
    <3>2. frame[t].key \in Key
      BY <1>1, <1>2 DEF FrameOK
    <3>3. v \in Value /\ v.key = frame[t].key /\ v.at = now
      BY <1>1, <3>2 DEF Value
    <3> HIDE DEF v
    <3>4. /\ f \in Frame /\ f.value = v /\ f.key = frame[t].key /\ f.store = frame[t].store
          /\ f.since = frame[t].since /\ f.hit = frame[t].hit
      BY <1>1, <3>3 DEF Frame
    <3>5. ~frame[t].hit /\ frame[t].since <= now
      BY <1>1, <1>2 DEF FreshOK
    <3> HIDE DEF f
    <3>6. FrameOK("returned", f, Len(dicts))
      BY <1>1, <3>2, <3>3, <3>4 DEF FrameOK, Location, Ended
    <3>7. FreshOK("returned", f, now)
      BY <3>3, <3>4, <3>5 DEF FreshOK
    <3> QED
      BY <3>1, <3>6, <3>7
  <2> QED
    BY <2>1, <2>2
<1>4. PICK l, f : /\ pc' = [pc EXCEPT ![t] = l] /\ frame' = [frame EXCEPT ![t] = f]
                  /\ FrameOK(l, f, Len(dicts)) /\ FreshOK(l, f, now)
  BY <1>3
<1>5. TypeOK'
  <2>1. /\ TypeOK
        /\ dicts' \in Seq(Seq(Entry)) /\ Len(dicts') >= Len(dicts)
        /\ registry' \in 0 .. Len(dicts') /\ FrameOK(l, f, Len(dicts'))
        /\ now' \in Nat /\ clears' \in Nat /\ calls' \in Nat
    BY <1>1, <1>2, <1>4 DEF Inv
  <2> QED
    BY <1>4, <2>1, StepType
<1>6. StoresAreDictionaries'
  BY <1>2 DEF Inv, StoresAreDictionaries
<1>7. FreshInv'
  BY <1>2, <1>4, LocalFresh
<1> QED
  BY <1>5, <1>6, <1>7 DEF Inv

(* The stores, in every step of the pool. *)
LEMMA SharedNext == ReadInv /\ [ReadNext]_readVars => Inv' /\ FreshInv'
<1> SUFFICES ASSUME ReadInv, [ReadNext]_readVars PROVE Inv' /\ FreshInv'
  OBVIOUS
<1>1. Inv /\ FreshInv /\ PoolTypeOK
  BY DEF ReadInv, PoolInv
<1>2. [Next]_vars => Inv' /\ FreshInv'
  BY <1>1, NextInv, FreshNext
<1>3. ASSUME NEW t \in Thread, Take(t) PROVE Next
  <2>1. batch[taken + 1] \in Key
    <3>1. taken + 1 \in 1 .. Len(batch) /\ batch \in Seq(Key)
      BY <1>1, <1>3, LenProperties DEF Take, PoolTypeOK
    <3> QED
      BY <3>1, ElementOfSeq
  <2> QED
    BY <1>3, <2>1 DEF Take, Next
<1>4. ASSUME NEW t \in Thread, ReadCached(t) \/ Finish(t) PROVE Next
  BY <1>4 DEF ReadCached, Finish, Next
<1>5. ASSUME NEW t \in Thread, RenderFails(t) \/ ReadUncached(t) PROVE Inv' /\ FreshInv'
  BY <1>1, <1>5, PlainStepShared
<1>6. CASE ReadBatch \/ CallerStep \/ UNCHANGED readVars
  BY <1>2, <1>6 DEF ReadBatch, CallerStep, Submit, AwaitAll, Collect, CollectedAll, CollectRaises,
                    LeavePool, readVars
<1>7. CASE Around
  BY <1>2, <1>7 DEF Around, Next
<1> QED
  BY <1>2, <1>3, <1>4, <1>5, <1>6, <1>7 DEF ReadNext, ThreadStep

-----------------------------------------------------------------------------
(* The numbers of the pool. *)
LEMMA PoolFacts ==
  ASSUME Inv, PoolTypeOK
  PROVE  /\ Len(batch) \in Nat /\ DOMAIN batch = 1 .. Len(batch)
         /\ submitted \in Nat /\ taken \in Nat /\ taken <= submitted /\ submitted <= Len(batch)
         /\ awaited \in Nat /\ 1 <= awaited /\ awaited <= Len(batch) + 1
         /\ now \in Nat /\ started \in Nat
         /\ task \in [Thread -> Nat] /\ \A t \in Thread : task[t] <= taken
         /\ \A t \in Thread : task[t] = 0 \/ task[t] \in 1 .. Len(batch)
<1>1. Len(batch) \in Nat /\ DOMAIN batch = 1 .. Len(batch)
  BY LenProperties DEF PoolTypeOK
<1>2. submitted \in 0 .. Len(batch) /\ taken \in 0 .. submitted /\ task \in [Thread -> 0 .. taken]
  BY DEF PoolTypeOK
<1>3. \A t \in Thread : task[t] \in 0 .. taken
  BY <1>2
<1> QED
  BY <1>1, <1>2, <1>3 DEF PoolTypeOK, Inv, TypeOK

(* A step of a thread within its call. *)
LEMMA WithinCall ==
  ASSUME Inv, PoolInv, NEW t \in Thread, UNCHANGED <<pool, now>>, pc[t] # "idle",
         NEW l, l # "idle", pc' = [pc EXCEPT ![t] = l],
         NEW f, f.key = frame[t].key, f.since = frame[t].since, frame' = [frame EXCEPT ![t] = f],
         persist = None => l \in {"resolve", "failed", "returned"} /\ ~f.hit
  PROVE  PoolInv'
<1>1. /\ \A u \in Thread : /\ pc'[u] = IF u = t THEN l ELSE pc[u]
                           /\ frame'[u] = IF u = t THEN f ELSE frame[u]
      /\ \A u \in Thread : frame'[u].key = frame[u].key /\ frame'[u].since = frame[u].since
      /\ \A u \in Thread : pc'[u] # "idle" <=> pc[u] # "idle"
      /\ PoolTypeOK /\ TasksInv /\ UncachedInv /\ OutcomesInv /\ CallerInv
  BY DEF Inv, TypeOK, PoolInv
<1>2. PoolTypeOK'
  BY <1>1 DEF PoolTypeOK, pool
<1>3. TasksInv'
  BY <1>1 DEF TasksInv, pool
<1>4. UncachedInv'
  BY <1>1 DEF UncachedInv, pool
<1>5. OutcomesInv' /\ CallerInv'
  BY <1>1 DEF OutcomesInv, CallerInv, Succeeded, Failed, pool
<1> QED
  BY <1>2, <1>3, <1>4, <1>5 DEF PoolInv

LEMMA ThreadsPool ==
  ASSUME Inv, FreshInv, PoolInv, NEW t \in Thread, RenderFails(t) \/ ReadUncached(t) \/ ReadCached(t)
  PROVE  PoolInv'
<1>1. /\ frame[t] \in Frame /\ frame = [frame EXCEPT ![t] = frame[t]]
      /\ FreshOK(pc[t], frame[t], now)
  BY DEF Inv, TypeOK, FreshInv
<1>2. CASE RenderFails(t)
  <2>1. /\ pc[t] = "resolve" /\ pc' = [pc EXCEPT ![t] = "failed"] /\ frame' = [frame EXCEPT ![t] = frame[t]]
        /\ UNCHANGED <<pool, now>>
    BY <1>1, <1>2 DEF RenderFails, Goto
  <2>2. ~frame[t].hit
    BY <1>1, <2>1 DEF FreshOK
  <2> QED
    BY <2>1, <2>2, WithinCall
<1>3. CASE ReadUncached(t)
  <2> DEFINE v == [key |-> frame[t].key, at |-> now]
             f == [frame[t] EXCEPT !.value = v]
  <2>1. /\ pc[t] = "resolve" /\ pc' = [pc EXCEPT ![t] = "returned"] /\ frame' = [frame EXCEPT ![t] = f]
        /\ UNCHANGED <<pool, now>>
    BY <1>1, <1>3 DEF ReadUncached, Goto
  <2> HIDE DEF v
  <2>2. f.key = frame[t].key /\ f.since = frame[t].since /\ f.hit = frame[t].hit
    BY <1>1 DEF Frame
  <2>3. ~frame[t].hit
    BY <1>1, <2>1 DEF FreshOK
  <2> HIDE DEF f
  <2> QED
    BY <2>1, <2>2, <2>3, WithinCall
<1>4. CASE ReadCached(t)
  <2>1. Step(t) /\ UNCHANGED pool /\ persist # None
    BY <1>4 DEF ReadCached
  <2>2. PICK l \in Location \ {"idle"}, f \in Frame :
          /\ pc' = [pc EXCEPT ![t] = l]
          /\ frame' = [frame EXCEPT ![t] = f]
          /\ f.key = frame[t].key /\ f.since = frame[t].since
    BY <2>1, StepKeepsCall
  <2>3. pc[t] # "idle" /\ now' = now
    BY <2>1, StepKeepsCall
  <2> QED
    BY <2>1, <2>2, <2>3, WithinCall
<1> QED
  BY <1>2, <1>3, <1>4

LEMMA TakePool ==
  ASSUME Inv, FreshInv, PoolInv, NEW t \in Thread, Take(t)
  PROVE  PoolInv'
<1> DEFINE n == taken + 1
           f == [IdleFrame EXCEPT !.key = batch[n], !.since = now]
<1>1. /\ taken < submitted /\ taken' = n
      /\ pc[t] = "idle" /\ pc' = [pc EXCEPT ![t] = "resolve"]
      /\ frame' = [frame EXCEPT ![t] = f]
      /\ task' = [task EXCEPT ![t] = n]
      /\ UNCHANGED <<now, caller, batch, persist, submitted, outcome, awaited, started, batches>>
  BY DEF Take, Call, Goto
<1>2. PoolTypeOK /\ TasksInv /\ UncachedInv /\ OutcomesInv /\ CallerInv
  BY DEF PoolInv
<1>3. /\ Len(batch) \in Nat /\ DOMAIN batch = 1 .. Len(batch)
      /\ submitted \in Nat /\ taken \in Nat /\ taken <= submitted /\ submitted <= Len(batch)
      /\ now \in Nat /\ started \in Nat
      /\ task \in [Thread -> Nat] /\ \A u \in Thread : task[u] <= taken
  BY <1>2, PoolFacts
<1>4. f.key = batch[n] /\ f.since = now /\ f.hit = FALSE
  BY DEF IdleFrame
<1> HIDE DEF f
<1>5. /\ \A u \in Thread : pc'[u] = IF u = t THEN "resolve" ELSE pc[u]
      /\ \A u \in Thread : frame'[u] = IF u = t THEN f ELSE frame[u]
      /\ \A u \in Thread : task'[u] = IF u = t THEN n ELSE task[u]
  BY <1>1, <1>3 DEF Inv, TypeOK
<1>6. task[t] = 0
  BY <1>1, <1>2 DEF PoolTypeOK
<1>7. PoolTypeOK'
  <2>1. taken' \in 0 .. submitted' /\ task' \in [Thread -> 0 .. taken']
    BY <1>1, <1>3
  <2>2. \A u \in Thread : pc'[u] # "idle" <=> task'[u] # 0
    BY <1>1, <1>2, <1>3, <1>5 DEF PoolTypeOK
  <2> QED
    BY <1>1, <1>2, <2>1, <2>2 DEF PoolTypeOK
<1>8. TasksInv'
  <2>1. \A u \in Thread : task'[u] # 0 =>
          frame'[u].key = batch[task'[u]] /\ frame'[u].since >= started
    BY <1>2, <1>3, <1>4, <1>5 DEF TasksInv, CallerInv
  <2>2. \A u, w \in Thread : task'[u] # 0 /\ task'[u] = task'[w] => u = w
    BY <1>2, <1>3, <1>5 DEF TasksInv
  <2> QED
    BY <1>1, <2>1, <2>2 DEF TasksInv
<1>9. UncachedInv'
  BY <1>1, <1>2, <1>4, <1>5 DEF UncachedInv
<1>10. OutcomesInv'
  <2> SUFFICES ASSUME NEW i \in DOMAIN batch
               PROVE  /\ outcome[i].done \/ i > n \/ \E u \in Thread : task'[u] = i
                      /\ outcome[i].done => i <= n /\ \A u \in Thread : task'[u] # i
                      /\ Succeeded(i) => outcome[i].value.key = batch[i]
                                         /\ (persist = None => outcome[i].value.at >= started)
    BY <1>1 DEF OutcomesInv, Succeeded
  <2>1. i \in Nat /\ i >= 1
    BY <1>3
  <2>2. /\ outcome[i].done \/ i > taken \/ \E u \in Thread : task[u] = i
        /\ outcome[i].done => i <= taken /\ \A u \in Thread : task[u] # i
        /\ Succeeded(i) => outcome[i].value.key = batch[i]
                           /\ (persist = None => outcome[i].value.at >= started)
    BY <1>2 DEF OutcomesInv
  <2>3. ASSUME NEW u \in Thread, task[u] = i PROVE task'[u] = i
    BY <1>5, <1>6, <2>1, <2>3
  <2>4. i > taken => i > n \/ task'[t] = i
    BY <1>3, <1>5, <2>1
  <2>5. outcome[i].done => i <= n /\ \A u \in Thread : task'[u] # i
    BY <1>3, <1>5, <2>1, <2>2
  <2> QED
    BY <2>2, <2>3, <2>4, <2>5
<1>11. CallerInv'
  <2>1. caller # "idle"
    <3>1. caller = "idle" => taken = submitted
      BY <1>2 DEF CallerInv
    <3> QED
      BY <1>1, <1>3, <3>1
  <2> QED
    BY <1>1, <1>2, <2>1 DEF CallerInv, Succeeded, Failed
<1> QED
  BY <1>7, <1>8, <1>9, <1>10, <1>11 DEF PoolInv

LEMMA FinishPool ==
  ASSUME Inv, FreshInv, PoolInv, NEW t \in Thread, Finish(t)
  PROVE  PoolInv'
<1> DEFINE n == task[t]
           r == [done |-> TRUE, failed |-> pc[t] # "returned",
                 value |-> IF pc[t] = "returned" THEN frame[t].value ELSE Unset]
<1>1. /\ pc[t] \in {"returned", "failed", "raised"} /\ pc' = [pc EXCEPT ![t] = "idle"]
      /\ frame' = [frame EXCEPT ![t] = IdleFrame]
      /\ outcome' = [outcome EXCEPT ![n] = r]
      /\ task' = [task EXCEPT ![t] = 0]
      /\ UNCHANGED <<now, caller, batch, persist, submitted, taken, awaited, started, batches>>
  BY DEF Finish, Leave, Ended
<1>2. PoolTypeOK /\ TasksInv /\ UncachedInv /\ OutcomesInv /\ CallerInv
  BY DEF PoolInv
<1>3. /\ Len(batch) \in Nat /\ DOMAIN batch = 1 .. Len(batch)
      /\ taken \in Nat /\ now \in Nat /\ started \in Nat /\ awaited \in Nat /\ awaited <= Len(batch) + 1
      /\ task \in [Thread -> Nat] /\ \A u \in Thread : task[u] <= taken
      /\ \A u \in Thread : task[u] = 0 \/ task[u] \in 1 .. Len(batch)
  BY <1>2, PoolFacts
<1>4. /\ n # 0 /\ n \in DOMAIN batch /\ n <= taken
      /\ frame[t].key = batch[n] /\ frame[t].since >= started
  BY <1>1, <1>2, <1>3 DEF PoolTypeOK, TasksInv
<1>5. /\ r.done = TRUE /\ r.failed = (pc[t] # "returned")
      /\ r.value = IF pc[t] = "returned" THEN frame[t].value ELSE Unset
      /\ DOMAIN r = {"done", "failed", "value"}
  OBVIOUS
<1>6. r \in [done : BOOLEAN, failed : BOOLEAN, value : Value \cup {Unset}]
  <2>1. frame[t].value \in Value \cup {Unset}
    BY DEF Inv, TypeOK, Frame
  <2>2. CASE pc[t] = "returned"
    <3>1. r = [done |-> TRUE, failed |-> FALSE, value |-> frame[t].value]
      BY <2>2, Zenon
    <3> QED
      BY <2>1, <3>1
  <2>3. CASE pc[t] # "returned"
    <3>1. r = [done |-> TRUE, failed |-> TRUE, value |-> Unset]
      BY <2>3, Zenon
    <3> QED
      BY <3>1
  <2> QED
    BY <2>2, <2>3
<1>7. /\ r.done
      /\ ~r.failed => r.value.key = batch[n] /\ (persist = None => r.value.at >= started)
  <2>1. CASE pc[t] = "returned"
    <3>1. r.value = frame[t].value
      BY <2>1
    <3>2. FreshOK("returned", frame[t], now)
      BY <2>1 DEF FreshInv
    <3>3. frame[t].value.key = batch[n]
      BY <1>4, <3>2 DEF FreshOK
    <3>4. ASSUME persist = None PROVE frame[t].value.at >= started
      <4>1. ~frame[t].hit
        BY <1>2, <3>4 DEF UncachedInv
      <4>2. frame[t].value.at >= frame[t].since
        BY <3>2, <4>1 DEF FreshOK
      <4>3. frame[t].value.at \in Nat /\ frame[t].since \in Nat
        BY <2>1 DEF Inv, TypeOK, Frame, Value
      <4> QED
        BY <1>3, <1>4, <4>2, <4>3
    <3> HIDE DEF r
    <3> QED
      BY <1>5, <3>1, <3>3, <3>4
  <2>2. CASE pc[t] # "returned"
    <3>1. r = [done |-> TRUE, failed |-> TRUE, value |-> Unset]
      BY <2>2, Zenon
    <3> QED
      BY <3>1
  <2> QED
    BY <2>1, <2>2
<1> HIDE DEF r
<1>8. /\ \A u \in Thread : pc'[u] = IF u = t THEN "idle" ELSE pc[u]
      /\ \A u \in Thread : frame'[u] = IF u = t THEN IdleFrame ELSE frame[u]
      /\ \A u \in Thread : task'[u] = IF u = t THEN 0 ELSE task[u]
      /\ \A i \in DOMAIN batch : outcome'[i] = IF i = n THEN r ELSE outcome[i]
  BY <1>1, <1>2, <1>3 DEF Inv, TypeOK, PoolTypeOK
<1> HIDE DEF n
<1>9. PoolTypeOK'
  <2>1. task' \in [Thread -> 0 .. taken'] /\ outcome' \in
          [DOMAIN batch' -> [done : BOOLEAN, failed : BOOLEAN, value : Value \cup {Unset}]]
    <3> DEFINE F == [done : BOOLEAN, failed : BOOLEAN, value : Value \cup {Unset}]
    <3>1. task \in [Thread -> 0 .. taken] /\ 0 \in 0 .. taken
      BY <1>2, <1>3 DEF PoolTypeOK
    <3>2. outcome \in [DOMAIN batch -> F] /\ r \in F
      BY <1>2, <1>6 DEF PoolTypeOK
    <3> HIDE DEF F
    <3>3. task' \in [Thread -> 0 .. taken'] /\ outcome' \in [DOMAIN batch' -> F]
      BY <1>1, <3>1, <3>2
    <3> QED
      BY <3>3 DEF F
  <2>2. \A u \in Thread : pc'[u] # "idle" <=> task'[u] # 0
    BY <1>2, <1>8 DEF PoolTypeOK
  <2> QED
    BY <1>1, <1>2, <2>1, <2>2 DEF PoolTypeOK
<1>10. TasksInv'
  BY <1>1, <1>2, <1>8 DEF TasksInv
<1>11. UncachedInv'
  <2>1. ~IdleFrame.hit
    BY DEF IdleFrame
  <2> QED
    BY <1>1, <1>2, <1>8, <2>1 DEF UncachedInv
<1>12. ~outcome[n].done
  BY <1>2, <1>4 DEF OutcomesInv, n
<1>13. OutcomesInv'
  <2> SUFFICES ASSUME NEW i \in DOMAIN batch
               PROVE  /\ outcome'[i].done \/ i > taken \/ \E u \in Thread : task'[u] = i
                      /\ outcome'[i].done => i <= taken /\ \A u \in Thread : task'[u] # i
                      /\ outcome'[i].done /\ ~outcome'[i].failed =>
                           outcome'[i].value.key = batch[i]
                           /\ (persist = None => outcome'[i].value.at >= started)
    BY <1>1 DEF OutcomesInv, Succeeded
  <2>1. CASE i = n
    <3>1. \A u \in Thread : task'[u] # n
      BY <1>2, <1>4, <1>8 DEF TasksInv, n
    <3> QED
      BY <1>4, <1>7, <1>8, <2>1, <3>1
  <2>2. CASE i # n
    <3>1. /\ outcome[i].done \/ i > taken \/ \E u \in Thread : task[u] = i
          /\ outcome[i].done => i <= taken /\ \A u \in Thread : task[u] # i
          /\ outcome[i].done /\ ~outcome[i].failed =>
               outcome[i].value.key = batch[i]
               /\ (persist = None => outcome[i].value.at >= started)
      BY <1>2 DEF OutcomesInv, Succeeded
    <3>2. \A u \in Thread : task[u] = i => task'[u] = i
      BY <1>8, <2>2 DEF n
    <3>3. i # 0 /\ \A u \in Thread : task'[u] = i => task[u] = i
      BY <1>3, <1>8
    <3>4. outcome'[i] = outcome[i]
      BY <1>8, <2>2
    <3> QED
      BY <3>1, <3>2, <3>3, <3>4
  <2> QED
    BY <2>1, <2>2
<1>14. CallerInv'
  <2>1. \A i \in DOMAIN batch : outcome[i].done => outcome'[i] = outcome[i]
    BY <1>8, <1>12
  <2>2. \A i \in DOMAIN batch : (Succeeded(i) => Succeeded(i)') /\ (Failed(i) => Failed(i)')
    BY <2>1 DEF Succeeded, Failed
  <2>3. \A i \in 1 .. awaited - 1 : i \in DOMAIN batch
    BY <1>3
  <2>4. caller # "idle"
    BY <1>2, <1>4 DEF CallerInv, n
  <2>5. caller = "raising" => awaited \in DOMAIN batch
    BY <1>2, <1>3 DEF CallerInv, PoolTypeOK
  <2>6. \A i \in 1 .. awaited' - 1 : Succeeded(i)'
    BY <1>1, <1>2, <2>2, <2>3 DEF CallerInv
  <2>7. caller' = "raising" => awaited' <= Len(batch') /\ Failed(awaited)'
    BY <1>1, <1>2, <2>1, <2>5 DEF CallerInv, Failed
  <2> QED
    BY <1>1, <1>2, <2>4, <2>6, <2>7 DEF CallerInv
<1> QED
  BY <1>9, <1>10, <1>11, <1>13, <1>14 DEF PoolInv

(* The steps of the caller. *)
LEMMA CallerPool ==
  ASSUME Inv, FreshInv, PoolInv, ReadBatch \/ CallerStep
  PROVE  PoolInv'
<1>1. PoolTypeOK /\ TasksInv /\ UncachedInv /\ OutcomesInv /\ CallerInv
  BY DEF PoolInv
<1>2. /\ Len(batch) \in Nat /\ DOMAIN batch = 1 .. Len(batch)
      /\ submitted \in Nat /\ taken \in Nat /\ taken <= submitted /\ submitted <= Len(batch)
      /\ awaited \in Nat /\ 1 <= awaited /\ awaited <= Len(batch) + 1
      /\ now \in Nat /\ started \in Nat
  BY <1>1, PoolFacts
<1>3. CASE ReadBatch
  <2>1. /\ caller = "idle" /\ caller' = "submitting"
        /\ batch' \in Batches /\ persist' \in Persists
        /\ submitted' = 0 /\ taken' = 0 /\ awaited' = 1 /\ started' = now
        /\ outcome' = [i \in DOMAIN batch' |-> Pending]
        /\ batches' = batches + 1
        /\ UNCHANGED <<now, pc, frame, task>>
    BY <1>3 DEF ReadBatch, vars
  <2>2. \A t \in Thread : task[t] = 0 /\ pc[t] = "idle"
    BY <1>1, <2>1 DEF CallerInv, PoolTypeOK
  <2>3. batch' \in Seq(Key) /\ Len(batch') \in Nat /\ DOMAIN batch' = 1 .. Len(batch')
    BY <2>1, ReadAssumption, LenProperties
  <2>4. Pending \in [done : BOOLEAN, failed : BOOLEAN, value : Value \cup {Unset}]
    BY DEF Pending
  <2>5. PoolTypeOK'
    <3>1. task' \in [Thread -> 0 .. 0]
      BY <1>1, <2>1, <2>2 DEF PoolTypeOK
    <3>2. outcome' \in [DOMAIN batch' -> [done : BOOLEAN, failed : BOOLEAN, value : Value \cup {Unset}]]
      BY <2>1, <2>4
    <3>3. \A t \in Thread : pc'[t] # "idle" <=> task'[t] # 0
      BY <2>1, <2>2
    <3>4. batches' \in Nat /\ started' \in Nat /\ awaited' \in 1 .. Len(batch') + 1
          /\ submitted' \in 0 .. Len(batch')
      BY <1>1, <1>2, <2>1, <2>3 DEF PoolTypeOK
    <3> QED
      BY <2>1, <2>3, <3>1, <3>2, <3>3, <3>4 DEF PoolTypeOK
  <2>6. TasksInv'
    BY <2>1, <2>2 DEF TasksInv
  <2>7. UncachedInv'
    <3>1. \A t \in Thread : ~frame[t].hit
      BY <2>2 DEF FreshInv, FreshOK
    <3> QED
      BY <2>1, <2>2, <3>1 DEF UncachedInv
  <2>8. OutcomesInv'
    <3>1. \A i \in DOMAIN batch' : ~outcome'[i].done
      BY <2>1 DEF Pending
    <3>2. \A i \in DOMAIN batch' : i > taken'
      BY <2>1, <2>3
    <3> QED
      BY <3>1, <3>2 DEF OutcomesInv, Succeeded
  <2>9. CallerInv'
    BY <1>2, <2>1 DEF CallerInv
  <2> QED
    BY <2>5, <2>6, <2>7, <2>8, <2>9 DEF PoolInv
<1>4. CASE CallerStep
  <2>1. /\ UNCHANGED <<pc, frame, now, batch, persist, taken, task, outcome, started, batches>>
        /\ submitted' = submitted \/ (submitted < Len(batch) /\ submitted' = submitted + 1)
        /\ awaited' = awaited \/ (awaited <= Len(batch) /\ awaited' = awaited + 1)
        /\ caller' \in {"submitting", "waiting", "leaving", "raising", "idle"}
    BY <1>1, <1>4 DEF CallerStep, Submit, AwaitAll, Collect, CollectedAll, CollectRaises, LeavePool,
                      vars, PoolTypeOK
  <2>2. PoolTypeOK'
    <3>1. submitted' \in 0 .. Len(batch) /\ awaited' \in 1 .. Len(batch) + 1 /\ taken \in 0 .. submitted'
      BY <1>2, <2>1
    <3> QED
      BY <1>1, <2>1, <3>1 DEF PoolTypeOK
  <2>3. TasksInv' /\ UncachedInv' /\ OutcomesInv'
    BY <1>1, <2>1 DEF TasksInv, UncachedInv, OutcomesInv, Succeeded
  <2>4. \A i \in DOMAIN batch : (Succeeded(i)' <=> Succeeded(i)) /\ (Failed(i)' <=> Failed(i))
    BY <2>1 DEF Succeeded, Failed
  <2>5. CallerInv'
    <3>1. CASE Submit
      BY <1>1, <1>2, <2>1, <3>1 DEF Submit, CallerInv, Succeeded, Failed
    <3>2. CASE AwaitAll
      BY <1>1, <1>2, <2>1, <3>2 DEF AwaitAll, CallerInv, Succeeded, Failed
    <3>3. CASE Collect
      <4>1. /\ caller = "waiting" /\ awaited' = awaited + 1 /\ Succeeded(awaited)
            /\ UNCHANGED <<caller, submitted>>
        BY <3>3 DEF Collect
      <4>2. \A i \in 1 .. awaited' - 1 : i = awaited \/ i \in 1 .. awaited - 1
        BY <1>2, <4>1
      <4>3. \A i \in 1 .. awaited' - 1 : Succeeded(i)
        BY <1>1, <4>1, <4>2 DEF CallerInv
      <4> QED
        BY <1>1, <2>1, <4>1, <4>3 DEF CallerInv, Succeeded
    <3>4. CASE CollectedAll
      BY <1>1, <1>2, <2>1, <3>4 DEF CollectedAll, CallerInv, Succeeded, Failed
    <3>5. CASE CollectRaises
      BY <1>1, <1>2, <2>1, <3>5 DEF CollectRaises, CallerInv, Succeeded, Failed
    <3>6. CASE LeavePool
      BY <1>1, <1>2, <2>1, <3>6 DEF LeavePool, CallerInv, Succeeded, Failed
    <3> QED
      BY <1>4, <3>1, <3>2, <3>3, <3>4, <3>5, <3>6 DEF CallerStep
  <2> QED
    BY <2>2, <2>3, <2>5 DEF PoolInv
<1> QED
  BY <1>3, <1>4

LEMMA ReadInvInit == ReadInit => ReadInv
<1> SUFFICES ASSUME ReadInit PROVE ReadInv
  OBVIOUS
<1>1. Inv /\ FreshInv
  BY InitInv, FreshInit DEF ReadInit
<1>2. DOMAIN batch = {} /\ Len(batch) = 0 /\ batch \in Seq(Key)
  BY DEF ReadInit
<1>3. PoolTypeOK
  <2>1. outcome \in [DOMAIN batch -> [done : BOOLEAN, failed : BOOLEAN, value : Value \cup {Unset}]]
    BY <1>2 DEF ReadInit
  <2>2. \A t \in Thread : pc[t] = "idle" /\ task[t] = 0
    BY DEF ReadInit, Init
  <2> QED
    BY <1>2, <2>1, <2>2 DEF ReadInit, PoolTypeOK
<1>4. TasksInv /\ OutcomesInv
  BY <1>2 DEF ReadInit, TasksInv, OutcomesInv
<1>5. UncachedInv
  BY DEF ReadInit, Init, UncachedInv, IdleFrame
<1>6. CallerInv
  BY <1>2 DEF ReadInit, Init, CallerInv
<1> QED
  BY <1>1, <1>3, <1>4, <1>5, <1>6 DEF ReadInv, PoolInv

LEMMA ReadInvNext == ReadInv /\ [ReadNext]_readVars => ReadInv'
<1> SUFFICES ASSUME ReadInv, [ReadNext]_readVars PROVE ReadInv'
  OBVIOUS
<1>1. Inv' /\ FreshInv'
  BY SharedNext
<1>2. Inv /\ FreshInv /\ PoolInv
  BY DEF ReadInv
<1>3. ASSUME NEW t \in Thread, ThreadStep(t) \/ RenderFails(t) PROVE PoolInv'
  BY <1>2, <1>3, TakePool, FinishPool, ThreadsPool DEF ThreadStep
<1>4. ASSUME ReadBatch \/ CallerStep PROVE PoolInv'
  BY <1>2, <1>4, CallerPool
<1>5. ASSUME Around \/ UNCHANGED readVars PROVE PoolInv'
  <2>1. UNCHANGED <<pc, frame, pool>> /\ (now' = now \/ now' = now + 1)
    BY <1>5 DEF Around, ClearRegistry, Tick, readVars, vars
  <2>2. now \in Nat /\ started \in Nat
    BY <1>2 DEF Inv, TypeOK, PoolInv, PoolTypeOK
  <2>3. started <= now => started' <= now'
    BY <2>1, <2>2 DEF pool
  <2> QED
    BY <1>2, <2>1, <2>3 DEF pool, PoolInv, PoolTypeOK, TasksInv, UncachedInv, OutcomesInv, CallerInv,
                            Succeeded, Failed
<1>6. PoolInv'
  BY <1>3, <1>4, <1>5 DEF ReadNext
<1> QED
  BY <1>1, <1>6 DEF ReadInv

(* A caller of read_queries gets the answers of its whole batch in the      *)
(* order of the queries, or the failure of the first that failed, and no    *)
(* thread works for it any more: for any number of threads and queries,     *)
(* whatever the threads do to the shared store meanwhile.                   *)
THEOREM BatchesAreAnswered == ReadSpec => []BatchIsAnswered
<1>1. ReadInv => BatchIsAnswered
  <2> SUFFICES ASSUME ReadInv PROVE BatchIsAnswered
    OBVIOUS
  <2>1. Inv /\ PoolTypeOK /\ OutcomesInv /\ CallerInv
    BY DEF ReadInv, PoolInv
  <2>2. /\ Len(batch) \in Nat /\ DOMAIN batch = 1 .. Len(batch)
        /\ submitted \in Nat /\ taken \in Nat
        /\ awaited \in Nat /\ awaited <= Len(batch) + 1
    BY <2>1, PoolFacts
  <2>3. ResultsInOrder
    <3> SUFFICES ASSUME Returned, NEW i \in DOMAIN batch
                 PROVE  /\ Succeeded(i)
                        /\ outcome[i].value.key = batch[i]
                        /\ persist = None => outcome[i].value.at >= started
      BY DEF ResultsInOrder
    <3>1. /\ caller = "leaving" => awaited = Len(batch) + 1
          /\ \A j \in 1 .. awaited - 1 : Succeeded(j)
      BY <2>1 DEF CallerInv
    <3>2. i \in 1 .. awaited - 1
      BY <2>2, <3>1 DEF Returned
    <3>3. Succeeded(i)
      BY <3>1, <3>2
    <3> QED
      BY <2>1, <3>3 DEF OutcomesInv
  <2>4. FirstFailureRaised
    BY <2>1 DEF CallerInv, FirstFailureRaised
  <2>5. NothingRunsAfterReturn
    <3> SUFFICES ASSUME caller = "idle"
                 PROVE  /\ \A t \in Thread : pc[t] = "idle"
                        /\ \A i \in DOMAIN batch : outcome[i].done
      BY DEF NothingRunsAfterReturn
    <3>1. taken = Len(batch) /\ \A t \in Thread : task[t] = 0
      BY <2>1 DEF CallerInv
    <3>2. \A t \in Thread : pc[t] = "idle"
      BY <2>1, <3>1 DEF PoolTypeOK
    <3>3. \A i \in DOMAIN batch : outcome[i].done
      <4>1. \A i \in DOMAIN batch : ~(i > taken) /\ i # 0
        BY <2>2, <3>1
      <4> QED
        BY <2>1, <3>1, <4>1 DEF OutcomesInv
    <3> QED
      BY <3>2, <3>3
  <2> QED
    BY <2>1, <2>3, <2>4, <2>5 DEF BatchIsAnswered
<1>2. ReadInv /\ [ReadNext]_readVars => ReadInv'
  BY ReadInvNext
<1> QED
  BY <1>1, <1>2, ReadInvInit, PTL DEF ReadSpec

=============================================================================
