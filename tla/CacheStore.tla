----------------------------- MODULE CacheStore -----------------------------
(***************************************************************************)
(* What a cache back end promises its callers: the CacheStore protocol     *)
(* (src/mayutils/environment/memoisation/types.py), with the save and load *)
(* of the in-memory back end.  The state is the value a lookup of each key *)
(* is answered with, whatever the representation: lazy expiry, the order   *)
(* of eviction and the counters are left to the implementations.           *)
(***************************************************************************)
CONSTANTS
  Key,
  Value,
  Path,      \* the pickle files a store may be saved to
  Missing,   \* the MISSING sentinel
  None       \* Python's None

VARIABLES
  held,      \* held[k]: the value a lookup of k returns now, or Missing
  saved,     \* saved[p][k]: the value a store loaded from p would hold
  bounded,   \* the store has a maxsize
  answer     \* what the last call returned: [op, result]

vars == <<held, saved, bounded, answer>>

Nothing == [k \in Key |-> Missing]

\* A copy of the contents c without the keys lost.
Without(c, lost) == [k \in Key |-> IF k \in lost THEN Missing ELSE c[k]]

Init ==
  /\ held = Nothing
  /\ saved = [p \in Path |-> Nothing]
  /\ bounded \in BOOLEAN
  /\ answer = [op |-> "none", result |-> None]

Get(k) ==
  /\ answer' = [op |-> "get", result |-> held[k]]
  /\ UNCHANGED <<held, saved, bounded>>

\* Only a bounded store may forget an entry to make room for another one.
Put(k, v) ==
  /\ \E lost \in SUBSET Key :
       /\ lost # {} => bounded
       /\ held' = Without([held EXCEPT ![k] = v], lost)
  /\ answer' = [op |-> "put", result |-> None]
  /\ UNCHANGED <<saved, bounded>>

\* A put whose lifetime is over when it returns holds nothing.
PutExpired(k) ==
  /\ \E lost \in SUBSET Key :
       /\ lost # {} => bounded
       /\ held' = Without([held EXCEPT ![k] = Missing], lost)
  /\ answer' = [op |-> "put", result |-> None]
  /\ UNCHANGED <<saved, bounded>>

\* TRUE may also be the answer for an expired entry not yet dropped.
Delete(k) ==
  /\ held' = [held EXCEPT ![k] = Missing]
  /\ \E present \in BOOLEAN :
       /\ held[k] # Missing => present
       /\ answer' = [op |-> "delete", result |-> present]
  /\ UNCHANGED <<saved, bounded>>

Clear ==
  /\ held' = Nothing
  /\ answer' = [op |-> "clear", result |-> None]
  /\ UNCHANGED <<saved, bounded>>

Save(p) ==
  /\ saved' = [saved EXCEPT ![p] = held]
  /\ answer' = [op |-> "save", result |-> None]
  /\ UNCHANGED <<held, bounded>>

Load(p) ==
  /\ held' = saved[p]
  /\ bounded' \in BOOLEAN
  /\ answer' = [op |-> "load", result |-> None]
  /\ UNCHANGED saved

\* Time passes: entries reach their expiry, wherever they are kept.
Expire ==
  /\ \E lost \in SUBSET Key : held' = Without(held, lost)
  /\ \E lost \in [Path -> SUBSET Key] :
       saved' = [p \in Path |-> Without(saved[p], lost[p])]
  /\ UNCHANGED <<bounded, answer>>

Next ==
  \/ \E k \in Key : Get(k) \/ PutExpired(k) \/ Delete(k)
  \/ \E k \in Key, v \in Value : Put(k, v)
  \/ \E p \in Path : Save(p) \/ Load(p)
  \/ Clear
  \/ Expire

Spec == Init /\ [][Next]_vars
=============================================================================
