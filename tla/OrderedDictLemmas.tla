------------------------- MODULE OrderedDictLemmas -------------------------
(***************************************************************************)
(* What the operators of OrderedDict do to a dictionary, for dictionaries  *)
(* of any length over any set of items: the sequence they return, its      *)
(* keys, the items that stay, and that keys stay unique.                   *)
(***************************************************************************)
EXTENDS OrderedDict, WellFoundedInduction, SequenceTheorems, TLAPS

(* The position of a present key is the index of its item. *)
LEMMA PositionOfKey ==
  ASSUME NEW d, NEW k \in Keys(d)
  PROVE  /\ Position(d, k) \in DOMAIN d
         /\ d[Position(d, k)].key = k
         /\ Lookup(d, k) = d[Position(d, k)]
BY DEF Keys, Position, Lookup

(* In a dictionary with unique keys the item at an index is the item of its key. *)
LEMMA LookupAtIndex ==
  ASSUME NEW d, Unique(d), NEW i \in DOMAIN d
  PROVE  /\ d[i].key \in Keys(d)
         /\ Position(d, d[i].key) = i
         /\ Lookup(d, d[i].key) = d[i]
<1>1. d[i].key \in Keys(d)
  BY DEF Keys
<1>2. Position(d, d[i].key) = i
  BY <1>1, PositionOfKey DEF Unique
<1> QED
  BY <1>1, <1>2 DEF Lookup

(* del d[k] removes the item of k, index by index. *)
LEMMA DelItemIndexed ==
  ASSUME NEW S, NEW d \in Seq(S), NEW k \in Keys(d)
  PROVE  /\ DelItem(d, k) \in Seq(S)
         /\ Len(DelItem(d, k)) = Len(d) - 1
         /\ \A i \in 1 .. Len(d) - 1 :
              DelItem(d, k)[i] = IF i < Position(d, k) THEN d[i] ELSE d[i + 1]
<1> DEFINE p == Position(d, k)
           a == SubSeq(d, 1, p - 1)
           b == SubSeq(d, p + 1, Len(d))
<1>1. /\ p \in 1 .. Len(d)
      /\ Len(d) \in Nat
      /\ \A i \in 1 .. Len(d) : d[i] \in S
  BY PositionOfKey, LenProperties, ElementOfSeq
<1>2. /\ a \in Seq(S)
      /\ Len(a) = p - 1
      /\ \A i \in 1 .. p - 1 : a[i] = d[i]
  <2>1. \A i \in 1 .. p - 1 : d[i] \in S
    BY <1>1
  <2>2. /\ a \in Seq(S)
        /\ Len(a) = IF 1 <= p - 1 THEN p - 1 - 1 + 1 ELSE 0
        /\ \A i \in 1 .. (p - 1) - 1 + 1 : a[i] = d[1 + i - 1]
    BY <1>1, <2>1, SubSeqProperties
  <2> QED
    BY <1>1, <2>2
<1>3. /\ b \in Seq(S)
      /\ Len(b) = Len(d) - p
      /\ \A i \in 1 .. Len(d) - p : b[i] = d[p + i]
  <2>1. \A i \in p + 1 .. Len(d) : d[i] \in S
    BY <1>1
  <2>2. /\ b \in Seq(S)
        /\ Len(b) = IF p + 1 <= Len(d) THEN Len(d) - (p + 1) + 1 ELSE 0
        /\ \A i \in 1 .. Len(d) - (p + 1) + 1 : b[i] = d[(p + 1) + i - 1]
    BY <1>1, <2>1, SubSeqProperties
  <2> QED
    BY <1>1, <2>2
<1>4. DelItem(d, k) = a \o b
  BY DEF DelItem
<1>5. /\ a \o b \in Seq(S)
      /\ Len(a \o b) = Len(a) + Len(b)
      /\ \A i \in 1 .. Len(a) + Len(b) :
           (a \o b)[i] = IF i <= Len(a) THEN a[i] ELSE b[i - Len(a)]
  BY <1>2, <1>3, ConcatProperties
<1> HIDE DEF p, a, b
<1>6. Len(a \o b) = Len(d) - 1
  BY <1>1, <1>2, <1>3, <1>5
<1>7. ASSUME NEW i \in 1 .. Len(d) - 1
      PROVE  (a \o b)[i] = IF i < p THEN d[i] ELSE d[i + 1]
  <2>1. CASE i < p
    BY <1>1, <1>2, <1>3, <1>5, <2>1
  <2>2. CASE ~(i < p)
    <3>1. /\ ~(i <= Len(a))
          /\ i - Len(a) \in 1 .. Len(d) - p
          /\ p + (i - Len(a)) = i + 1
      BY <1>1, <1>2, <2>2
    <3>2. b[i - Len(a)] = d[p + (i - Len(a))]
      BY <1>3, <3>1
    <3> QED
      BY <1>1, <1>2, <1>3, <1>5, <2>2, <3>1, <3>2
  <2> QED
    BY <2>1, <2>2
<1> QED
  BY <1>4, <1>5, <1>6, <1>7 DEF p

(* del d[k] removes k and nothing else, and leaves the other items alone. *)
LEMMA DelItemProperties ==
  ASSUME NEW S, NEW d \in Seq(S), Unique(d), NEW k \in Keys(d)
  PROVE  /\ DelItem(d, k) \in Seq(S)
         /\ Len(DelItem(d, k)) = Len(d) - 1
         /\ Unique(DelItem(d, k))
         /\ Keys(DelItem(d, k)) = Keys(d) \ {k}
         /\ \A j \in Keys(d) \ {k} : Lookup(DelItem(d, k), j) = Lookup(d, j)
<1> DEFINE p == Position(d, k)
           e == DelItem(d, k)
           source(i) == IF i < p THEN i ELSE i + 1
<1>1. /\ p \in 1 .. Len(d)
      /\ d[p].key = k
      /\ Len(d) \in Nat
      /\ DOMAIN d = 1 .. Len(d)
  BY PositionOfKey, LenProperties
<1>2. /\ e \in Seq(S)
      /\ Len(e) = Len(d) - 1
      /\ DOMAIN e = 1 .. Len(d) - 1
      /\ \A i \in DOMAIN e : source(i) \in DOMAIN d \ {p} /\ e[i] = d[source(i)]
  <2>1. /\ e \in Seq(S)
        /\ Len(e) = Len(d) - 1
        /\ \A i \in 1 .. Len(d) - 1 : e[i] = IF i < p THEN d[i] ELSE d[i + 1]
    BY DelItemIndexed
  <2>2. DOMAIN e = 1 .. Len(d) - 1
    BY <2>1, LenProperties
  <2> HIDE DEF e, p
  <2>3. \A i \in 1 .. Len(d) - 1 : source(i) \in DOMAIN d \ {p} /\ e[i] = d[source(i)]
    BY <1>1, <2>1
  <2> QED
    BY <2>1, <2>2, <2>3
<1> HIDE DEF e, p
<1>3. ASSUME NEW j \in DOMAIN d \ {p}
      PROVE  \E i \in DOMAIN e : source(i) = j
  <2>1. CASE j < p
    <3>1. j \in DOMAIN e /\ source(j) = j
      BY <1>1, <1>2, <2>1
    <3> QED
      BY <3>1
  <2>2. CASE ~(j < p)
    <3>1. j - 1 \in DOMAIN e /\ source(j - 1) = j
      BY <1>1, <1>2, <2>2
    <3> QED
      BY <3>1
  <2> QED
    BY <2>1, <2>2
<1>4. Unique(e)
  <2> SUFFICES ASSUME NEW i \in DOMAIN e, NEW j \in DOMAIN e, e[i].key = e[j].key
               PROVE  i = j
    BY DEF Unique
  <2>1. source(i) = source(j)
    BY <1>2 DEF Unique
  <2> QED
    BY <1>1, <1>2, <2>1
<1>5. Keys(e) = Keys(d) \ {k}
  <2>1. ASSUME NEW j \in Keys(e)
        PROVE  j \in Keys(d) \ {k}
    <3>1. PICK i \in DOMAIN e : e[i].key = j
      BY DEF Keys
    <3> QED
      BY <1>1, <1>2, <3>1 DEF Keys, Unique
  <2>2. ASSUME NEW j \in Keys(d) \ {k}
        PROVE  j \in Keys(e)
    <3>1. PICK i \in DOMAIN d : d[i].key = j
      BY DEF Keys
    <3>2. PICK h \in DOMAIN e : source(h) = i
      BY <1>1, <1>3, <3>1
    <3> QED
      BY <1>2, <3>1, <3>2 DEF Keys
  <2> QED
    BY <2>1, <2>2
<1>6. ASSUME NEW j \in Keys(d) \ {k}
      PROVE  Lookup(e, j) = Lookup(d, j)
  <2>1. PICK i \in DOMAIN e : e[i].key = j
    BY <1>5 DEF Keys
  <2>2. Lookup(e, j) = e[i]
    BY <1>4, <2>1, LookupAtIndex
  <2>3. Lookup(d, j) = d[source(i)]
    BY <1>2, <2>1, LookupAtIndex
  <2> QED
    BY <1>2, <2>1, <2>2, <2>3
<1> QED
  BY <1>2, <1>4, <1>5, <1>6 DEF e

(* Appending an item whose key is new adds that key. *)
LEMMA AppendFresh ==
  ASSUME NEW S, NEW d \in Seq(S), Unique(d), NEW x \in S, x.key \notin Keys(d)
  PROVE  /\ Append(d, x) \in Seq(S)
         /\ Len(Append(d, x)) = Len(d) + 1
         /\ Unique(Append(d, x))
         /\ Keys(Append(d, x)) = Keys(d) \cup {x.key}
         /\ Lookup(Append(d, x), x.key) = x
         /\ \A j \in Keys(d) : Lookup(Append(d, x), j) = Lookup(d, j)
<1> DEFINE e == Append(d, x)
           n == Len(d)
<1>1. /\ n \in Nat
      /\ DOMAIN d = 1 .. n
  BY LenProperties
<1>2. /\ e \in Seq(S)
      /\ Len(e) = n + 1
      /\ DOMAIN e = 1 .. n + 1
      /\ \A i \in 1 .. n : e[i] = d[i]
      /\ e[n + 1] = x
  BY <1>1, AppendProperties, LenProperties
<1> HIDE DEF e, n
<1>3. \A i \in 1 .. n : d[i].key \in Keys(d)
  BY <1>1 DEF Keys
<1>4. Unique(e)
  <2> SUFFICES ASSUME NEW i \in 1 .. n + 1, NEW j \in 1 .. n + 1, e[i].key = e[j].key
               PROVE  i = j
    BY <1>2 DEF Unique
  <2>1. CASE i \in 1 .. n /\ j \in 1 .. n
    BY <1>1, <1>2, <2>1 DEF Unique
  <2>2. CASE i = n + 1 /\ j \in 1 .. n
    BY <1>2, <1>3, <2>2
  <2>3. CASE j = n + 1 /\ i \in 1 .. n
    BY <1>2, <1>3, <2>3
  <2> QED
    BY <1>1, <2>1, <2>2, <2>3
<1>5. Keys(e) = Keys(d) \cup {x.key}
  <2>1. ASSUME NEW i \in 1 .. n + 1
        PROVE  e[i].key \in Keys(d) \cup {x.key}
    BY <1>1, <1>2, <1>3
  <2>2. ASSUME NEW i \in 1 .. n
        PROVE  d[i].key \in Keys(e)
    BY <1>1, <1>2 DEF Keys
  <2>3. x.key \in Keys(e)
    BY <1>1, <1>2 DEF Keys
  <2> QED
    BY <1>1, <1>2, <2>1, <2>2, <2>3 DEF Keys
<1>6. Lookup(e, x.key) = x
  BY <1>1, <1>2, <1>4, LookupAtIndex
<1>7. ASSUME NEW j \in Keys(d)
      PROVE  Lookup(e, j) = Lookup(d, j)
  <2>1. PICK i \in 1 .. n : d[i].key = j
    BY <1>1 DEF Keys
  <2>2. i \in DOMAIN d /\ i \in DOMAIN e /\ e[i] = d[i]
    BY <1>1, <1>2
  <2> QED
    BY <1>4, <2>1, <2>2, LookupAtIndex
<1> QED
  BY <1>2, <1>4, <1>5, <1>6, <1>7 DEF e, n

(* d.move_to_end(k) changes the order only. *)
LEMMA MoveToEndProperties ==
  ASSUME NEW S, NEW d \in Seq(S), Unique(d), NEW k \in Keys(d)
  PROVE  /\ MoveToEnd(d, k) \in Seq(S)
         /\ Len(MoveToEnd(d, k)) = Len(d)
         /\ Unique(MoveToEnd(d, k))
         /\ Keys(MoveToEnd(d, k)) = Keys(d)
         /\ \A j \in Keys(d) : Lookup(MoveToEnd(d, k), j) = Lookup(d, j)
<1>1. /\ Lookup(d, k) \in S
      /\ Lookup(d, k).key = k
  BY PositionOfKey, ElementOfSeq, LenProperties
<1> DEFINE e == DelItem(d, k)
           x == Lookup(d, k)
<1>2. /\ e \in Seq(S)
      /\ Len(e) = Len(d) - 1
      /\ Unique(e)
      /\ Keys(e) = Keys(d) \ {k}
      /\ \A j \in Keys(d) \ {k} : Lookup(e, j) = Lookup(d, j)
  BY DelItemProperties
<1> HIDE DEF e, x
<1>3. /\ Append(e, x) \in Seq(S)
      /\ Len(Append(e, x)) = Len(e) + 1
      /\ Unique(Append(e, x))
      /\ Keys(Append(e, x)) = Keys(e) \cup {k}
      /\ Lookup(Append(e, x), k) = x
      /\ \A j \in Keys(e) : Lookup(Append(e, x), j) = Lookup(e, j)
  <2>1. x \in S /\ x.key = k
    BY <1>1 DEF x
  <2>2. x.key \notin Keys(e)
    BY <1>2, <2>1
  <2> QED
    BY <1>2, <2>1, <2>2, AppendFresh
<1>4. MoveToEnd(d, k) = Append(e, x)
  BY DEF MoveToEnd, e, x
<1>5. Len(d) \in Nat
  BY LenProperties
<1>6. \A j \in Keys(d) : Lookup(Append(e, x), j) = Lookup(d, j)
  BY <1>2, <1>3 DEF x
<1>7. Keys(Append(e, x)) = Keys(d)
  BY <1>2, <1>3
<1>8. Len(Append(e, x)) = Len(d)
  BY <1>2, <1>3, <1>5
<1> QED
  BY <1>3, <1>4, <1>6, <1>7, <1>8

(* d[x.key] = x adds the key of x, or replaces its item in place. *)
LEMMA AssignProperties ==
  ASSUME NEW S, NEW d \in Seq(S), Unique(d), NEW x \in S
  PROVE  /\ Assign(d, x) \in Seq(S)
         /\ Len(Assign(d, x)) = IF x.key \in Keys(d) THEN Len(d) ELSE Len(d) + 1
         /\ Unique(Assign(d, x))
         /\ Keys(Assign(d, x)) = Keys(d) \cup {x.key}
         /\ Lookup(Assign(d, x), x.key) = x
         /\ \A j \in Keys(d) \ {x.key} : Lookup(Assign(d, x), j) = Lookup(d, j)
<1>1. CASE x.key \notin Keys(d)
  <2>1. Assign(d, x) = Append(d, x)
    BY <1>1 DEF Assign
  <2> QED
    BY <1>1, <2>1, AppendFresh
<1>2. CASE x.key \in Keys(d)
  <2> DEFINE p == Position(d, x.key)
             e == [d EXCEPT ![p] = x]
  <2>1. /\ Assign(d, x) = e
        /\ p \in 1 .. Len(d)
        /\ d[p].key = x.key
        /\ DOMAIN d = 1 .. Len(d)
    BY <1>2, PositionOfKey, LenProperties DEF Assign
  <2>2. /\ e \in Seq(S)
        /\ Len(e) = Len(d)
        /\ DOMAIN e = DOMAIN d
        /\ \A i \in DOMAIN d : e[i] = IF i = p THEN x ELSE d[i]
    BY <2>1, ExceptSeq, LenProperties
  <2> HIDE DEF e, p
  <2>3. \A i \in DOMAIN d : e[i].key = d[i].key
    BY <2>1, <2>2
  <2>4. Unique(e)
    BY <2>2, <2>3 DEF Unique
  <2>5. Keys(e) = Keys(d)
    BY <2>2, <2>3 DEF Keys
  <2>6. Lookup(e, x.key) = x
    BY <2>1, <2>2, <2>4, LookupAtIndex
  <2>7. ASSUME NEW j \in Keys(d) \ {x.key}
        PROVE  Lookup(e, j) = Lookup(d, j)
    <3>1. PICK i \in DOMAIN d : d[i].key = j
      BY DEF Keys
    <3>2. i # p
      BY <2>1, <3>1
    <3> QED
      BY <2>2, <2>4, <3>1, <3>2, LookupAtIndex
  <2> QED
    BY <1>2, <2>1, <2>2, <2>4, <2>5, <2>6, <2>7
<1> QED
  BY <1>1, <1>2

(* Dropping the oldest items leaves a dictionary of at most n of the items. *)
LEMMA KeepNewestProperties ==
  ASSUME NEW S, NEW d \in Seq(S), Unique(d), NEW n \in Nat
  PROVE  /\ KeepNewest(d, n) \in Seq(S)
         /\ Len(KeepNewest(d, n)) = IF Len(d) > n THEN n ELSE Len(d)
         /\ Unique(KeepNewest(d, n))
         /\ Keys(KeepNewest(d, n)) \subseteq Keys(d)
         /\ \A j \in Keys(KeepNewest(d, n)) : Lookup(KeepNewest(d, n), j) = Lookup(d, j)
<1>1. CASE ~(Len(d) > n)
  BY <1>1 DEF KeepNewest
<1>2. CASE Len(d) > n
  <2> DEFINE e == SubSeq(d, Len(d) - n + 1, Len(d))
  <2>1. /\ Len(d) \in Nat
        /\ DOMAIN d = 1 .. Len(d)
        /\ \A i \in 1 .. Len(d) : d[i] \in S
    BY LenProperties, ElementOfSeq
  <2>2. /\ e \in Seq(S)
        /\ Len(e) = n
        /\ DOMAIN e = 1 .. n
        /\ \A i \in 1 .. n : e[i] = d[i + (Len(d) - n)]
    <3>1. \A i \in Len(d) - n + 1 .. Len(d) : d[i] \in S
      BY <1>2, <2>1
    <3>2. /\ e \in Seq(S)
          /\ Len(e) = IF Len(d) - n + 1 <= Len(d) THEN Len(d) - (Len(d) - n + 1) + 1 ELSE 0
          /\ \A i \in 1 .. Len(d) - (Len(d) - n + 1) + 1 : e[i] = d[(Len(d) - n + 1) + i - 1]
      BY <2>1, <3>1, SubSeqProperties
    <3> HIDE DEF e
    <3>3. Len(e) = n /\ DOMAIN e = 1 .. n
      BY <2>1, <3>2, LenProperties
    <3> QED
      BY <2>1, <3>2, <3>3
  <2>3. KeepNewest(d, n) = e
    BY <1>2 DEF KeepNewest
  <2> HIDE DEF e
  <2>4. \A i \in 1 .. n : i + (Len(d) - n) \in DOMAIN d
    BY <1>2, <2>1
  <2>5. Unique(e)
    <3> SUFFICES ASSUME NEW i \in 1 .. n, NEW j \in 1 .. n, e[i].key = e[j].key
                 PROVE  i = j
      BY <2>2 DEF Unique
    <3>1. /\ i + (Len(d) - n) \in DOMAIN d
          /\ j + (Len(d) - n) \in DOMAIN d
          /\ d[i + (Len(d) - n)].key = d[j + (Len(d) - n)].key
      BY <2>2, <2>4
    <3>2. i + (Len(d) - n) = j + (Len(d) - n)
      BY <3>1, Zenon DEF Unique
    <3> QED
      BY <2>1, <3>2
  <2>6. ASSUME NEW j \in Keys(e)
        PROVE  j \in Keys(d) /\ Lookup(e, j) = Lookup(d, j)
    <3>1. PICK i \in 1 .. n : e[i].key = j
      BY <2>2 DEF Keys
    <3>2. e[i] = d[i + (Len(d) - n)] /\ i + (Len(d) - n) \in DOMAIN d
      BY <2>2, <2>4
    <3> QED
      BY <2>2, <2>5, <3>1, <3>2, LookupAtIndex
  <2> QED
    BY <1>2, <2>2, <2>3, <2>5, <2>6
<1> QED
  BY <1>1, <1>2

(* d.popitem(last=False) drops the oldest item. *)
LEMMA TailProperties ==
  ASSUME NEW S, NEW d \in Seq(S), Unique(d), d # <<>>
  PROVE  /\ Tail(d) \in Seq(S)
         /\ Len(Tail(d)) = Len(d) - 1
         /\ Unique(Tail(d))
         /\ \A i \in DOMAIN Tail(d) : \E j \in DOMAIN d : Tail(d)[i] = d[j]
<1>1. /\ Tail(d) \in Seq(S)
      /\ Len(Tail(d)) = Len(d) - 1
      /\ \A i \in 1 .. Len(Tail(d)) : Tail(d)[i] = d[i + 1]
      /\ Len(d) \in Nat
      /\ DOMAIN d = 1 .. Len(d)
  BY HeadTailProperties, LenProperties
<1>2. DOMAIN Tail(d) = 1 .. Len(d) - 1
  BY <1>1, LenProperties
<1>3. \A i \in DOMAIN Tail(d) : i + 1 \in DOMAIN d /\ Tail(d)[i] = d[i + 1]
  BY <1>1, <1>2
<1>4. Unique(Tail(d))
  <2> SUFFICES ASSUME NEW i \in DOMAIN Tail(d), NEW j \in DOMAIN Tail(d),
                      Tail(d)[i].key = Tail(d)[j].key
               PROVE  i = j
    BY DEF Unique
  <2>1. i + 1 = j + 1
    BY <1>3 DEF Unique
  <2> QED
    BY <1>2, <2>1
<1> QED
  BY <1>1, <1>3, <1>4

LEMMA LeastNumber ==
  ASSUME NEW T, T \subseteq Nat, T # {}
  PROVE  \E x \in T : \A y \in T : x <= y
<1> DEFINE R == OpToRel(<, Nat)
<1>1. IsWellFoundedOn(R, Nat)
  BY NatLessThanWellFounded
<1>2. PICK x \in T : \A y \in T : <<y, x>> \notin R
  <2> HIDE DEF R
  <2> QED BY <1>1, WFMin
<1>3. \A y \in T : ~(y < x)
  BY <1>2 DEF OpToRel
<1> QED BY <1>3

(* Induction over an interval. *)
LEMMA Reached ==
  ASSUME NEW n \in Nat, NEW G, 0 \in G, \A i \in 1 .. n : i - 1 \in G => i \in G
  PROVE  \A i \in 0 .. n : i \in G
<1> DEFINE T == {i \in 0 .. n : i \notin G}
<1> SUFFICES ASSUME T # {} PROVE FALSE
  OBVIOUS
<1>1. T \subseteq Nat
  OBVIOUS
<1> HIDE DEF T
<1>2. PICK x \in T : \A y \in T : x <= y
  BY <1>1, LeastNumber
<1> USE DEF T
<1>3. x # 0
  BY <1>2
<1>4. x - 1 \in 0 .. n /\ ~(x <= x - 1)
  BY <1>2, <1>3
<1>5. x - 1 \in G
  BY <1>2, <1>4
<1> QED BY <1>2, <1>3, <1>5

\* The values that u takes, from d, when the functions of g are applied in turn.
Iterates(u, n, d, g) ==
  \A i \in 0 .. n : u[i] = IF i = 0 THEN d ELSE g[i][u[i - 1]]

LEMMA Iterated ==
  ASSUME NEW n \in Nat, NEW D, NEW d \in D, NEW g \in [1 .. n -> [D -> D]]
  PROVE  \E u \in [0 .. n -> D] : Iterates(u, n, d, g)
<1> DEFINE ok(m, u) == \A i \in 0 .. m : u[i] = IF i = 0 THEN d ELSE g[i][u[i - 1]]
           G == {m \in 0 .. n : \E u \in [0 .. m -> D] : ok(m, u)}
<1>1. 0 \in G
  <2> DEFINE u == [i \in 0 .. 0 |-> d]
  <2>1. u \in [0 .. 0 -> D] /\ ok(0, u)
    OBVIOUS
  <2> HIDE DEF u, ok
  <2> QED BY <2>1
<1>2. ASSUME NEW m \in 1 .. n, m - 1 \in G PROVE m \in G
  <2>1. PICK u \in [0 .. m - 1 -> D] : ok(m - 1, u)
    BY <1>2
  <2> DEFINE x == g[m][u[m - 1]]
             w == [i \in 0 .. m |-> IF i = m THEN x ELSE u[i]]
  <2>2. x \in D
    <3>1. u[m - 1] \in D
      BY <2>1
    <3>2. g[m] \in [D -> D]
      OBVIOUS
    <3> QED BY <3>1, <3>2
  <2>3. /\ \A i \in 0 .. m - 1 : w[i] = u[i]
        /\ w[m] = x
    OBVIOUS
  <2>4. w \in [0 .. m -> D]
    <3> HIDE DEF x
    <3> QED BY <2>1, <2>2
  <2> HIDE DEF w
  <2>5. ok(m, w)
    <3> SUFFICES ASSUME NEW i \in 0 .. m PROVE w[i] = IF i = 0 THEN d ELSE g[i][w[i - 1]]
      OBVIOUS
    <3>1. CASE i = m
      BY <2>3, <3>1
    <3>2. CASE i # m /\ i # 0
      <4>1. i \in 0 .. m - 1 /\ i - 1 \in 0 .. m - 1
        BY <3>2
      <4> QED BY <2>1, <2>3, <3>2, <4>1
    <3>3. CASE i # m /\ i = 0
      BY <2>1, <2>3, <3>3
    <3> QED BY <3>1, <3>2, <3>3
  <2> HIDE DEF ok
  <2> QED BY <2>4, <2>5
<1>3. n \in G
  <2> HIDE DEF G
  <2>1. \A i \in 0 .. n : i \in G
    BY <1>1, <1>2, Reached
  <2> QED BY <2>1
<1> QED
  BY <1>3 DEF Iterates

(* d.update(e), for a dictionary e: the items of e, and those of d for the *)
(* keys that e does not have.                                              *)
LEMMA UpdateProperties ==
  ASSUME NEW S, NEW d \in Seq(S), Unique(d), NEW e \in Seq(S), Unique(e)
  PROVE  /\ Update(d, e) \in Seq(S)
         /\ Unique(Update(d, e))
         /\ Keys(Update(d, e)) = Keys(d) \cup Keys(e)
         /\ \A k \in Keys(e) : Lookup(Update(d, e), k) = Lookup(e, k)
         /\ \A k \in Keys(d) \ Keys(e) : Lookup(Update(d, e), k) = Lookup(d, k)
<1>0. ASSUME NEW r \in Seq(S), Unique(r), NEW x \in S
      PROVE  /\ Assign(r, x) \in Seq(S)
             /\ Unique(Assign(r, x))
             /\ Keys(Assign(r, x)) = Keys(r) \cup {x.key}
             /\ Lookup(Assign(r, x), x.key) = x
             /\ \A j \in Keys(r) \ {x.key} : Lookup(Assign(r, x), j) = Lookup(r, j)
  BY <1>0, AssignProperties
<1> DEFINE n == Len(e)
           D == {s \in Seq(S) : Unique(s)}
           g == [i \in 1 .. n |-> [s \in D |-> Assign(s, e[i])]]
           Steps(u) == u = [i \in 0 .. n |-> IF i = 0 THEN d ELSE Assign(u[i - 1], e[i])]
           after == CHOOSE u : Steps(u)
           Done(i) == {e[j].key : j \in 1 .. i}
           G == {i \in 0 .. n :
                  /\ after[i] \in D
                  /\ Keys(after[i]) = Keys(d) \cup Done(i)
                  /\ \A j \in 1 .. i : Lookup(after[i], e[j].key) = e[j]
                  /\ \A k \in Keys(d) \ Done(i) : Lookup(after[i], k) = Lookup(d, k)}
<1>1. /\ n \in Nat
      /\ DOMAIN e = 1 .. n
      /\ \A i \in 1 .. n : e[i] \in S
  BY LenProperties, ElementOfSeq
<1>2. ASSUME NEW s \in D, NEW i \in 1 .. n
      PROVE  /\ Assign(s, e[i]) \in D
             /\ Keys(Assign(s, e[i])) = Keys(s) \cup {e[i].key}
             /\ Lookup(Assign(s, e[i]), e[i].key) = e[i]
             /\ \A j \in Keys(s) \ {e[i].key} : Lookup(Assign(s, e[i]), j) = Lookup(s, j)
  BY <1>0, <1>1
<1>3. after = [i \in 0 .. n |-> IF i = 0 THEN d ELSE Assign(after[i - 1], e[i])]
  <2> HIDE DEF D, n
  <2>1. g \in [1 .. n -> [D -> D]]
    BY <1>2
  <2>2. d \in D
    BY DEF D
  <2> HIDE DEF g
  <2>3. PICK u \in [0 .. n -> D] : Iterates(u, n, d, g)
    BY <1>1, <2>1, <2>2, Iterated
  <2>4. ASSUME NEW i \in 0 .. n
        PROVE  u[i] = IF i = 0 THEN d ELSE Assign(u[i - 1], e[i])
    <3>1. CASE i = 0
      BY <2>3, <3>1 DEF Iterates
    <3>2. CASE i # 0
      <4>1. i \in 1 .. n /\ u[i - 1] \in D
        BY <1>1, <2>3, <3>2
      <4>2. g[i][u[i - 1]] = Assign(u[i - 1], e[i])
        BY <4>1 DEF g
      <4> QED
        BY <2>3, <3>2, <4>2 DEF Iterates
    <3> QED
      BY <3>1, <3>2
  <2>5. Steps(u)
    BY <2>3, <2>4
  <2> HIDE DEF Steps
  <2>6. Steps(after)
    BY <2>5
  <2> QED
    BY <2>6 DEF Steps
<1> HIDE DEF after
<1>4. after[0] = d /\ \A i \in 1 .. n : after[i] = Assign(after[i - 1], e[i])
  <2> HIDE DEF n, G, D, g
  <2>1. \A i \in 0 .. n : after[i] = IF i = 0 THEN d ELSE Assign(after[i - 1], e[i])
    BY <1>3
  <2>2. 0 \in 0 .. n /\ \A i \in 1 .. n : i \in 0 .. n /\ i # 0
    BY <1>1
  <2> QED
    BY <2>1, <2>2
<1>5. 0 \in G
  BY <1>1, <1>4
<1>6. ASSUME NEW i \in 1 .. n, i - 1 \in G
      PROVE  i \in G
  <2> DEFINE s == after[i - 1]
             t == after[i]
  <2>1. /\ s \in D
        /\ Keys(s) = Keys(d) \cup Done(i - 1)
        /\ \A j \in 1 .. i - 1 : Lookup(s, e[j].key) = e[j]
        /\ \A k \in Keys(d) \ Done(i - 1) : Lookup(s, k) = Lookup(d, k)
    BY <1>6
  <2> HIDE DEF s
  <2>2. /\ t \in D
        /\ Keys(t) = Keys(s) \cup {e[i].key}
        /\ Lookup(t, e[i].key) = e[i]
        /\ \A j \in Keys(s) \ {e[i].key} : Lookup(t, j) = Lookup(s, j)
    <3>1. t = Assign(s, e[i])
      BY <1>4 DEF s
    <3> HIDE DEF t, D
    <3> QED
      BY <1>2, <2>1, <3>1
  <2> HIDE DEF t, D
  <2>3. Done(i) = Done(i - 1) \cup {e[i].key}
    BY <1>1
  <2>4. Keys(t) = Keys(d) \cup Done(i)
    BY <2>1, <2>2, <2>3
  <2>5. ASSUME NEW j \in 1 .. i
        PROVE  Lookup(t, e[j].key) = e[j]
    <3>1. CASE j = i
      BY <2>2, <3>1
    <3>2. CASE j # i
      <4>1. j \in 1 .. i - 1 /\ j \in 1 .. n
        BY <1>1, <3>2
      <4>2. e[j].key # e[i].key
        BY <1>1, <3>2, <4>1 DEF Unique
      <4>3. e[j].key \in Keys(s)
        BY <2>1, <4>1
      <4> QED
        BY <2>1, <2>2, <4>1, <4>2, <4>3
    <3> QED
      BY <3>1, <3>2
  <2>6. ASSUME NEW k \in Keys(d) \ Done(i)
        PROVE  Lookup(t, k) = Lookup(d, k)
    BY <2>1, <2>2, <2>3
  <2>7. i \in 0 .. n
    BY <1>1
  <2> QED
    BY <2>2, <2>4, <2>5, <2>6, <2>7 DEF t
<1>7. n \in G
  <2> HIDE DEF G
  <2>1. \A i \in 0 .. n : i \in G
    BY <1>1, <1>5, <1>6, Reached
  <2> QED
    BY <1>1, <2>1
<1>8. Update(d, e) = after[n]
  BY DEF Update, after
<1>9. Done(n) = Keys(e)
  BY <1>1 DEF Keys
<1>10. ASSUME NEW k \in Keys(e)
       PROVE  Lookup(after[n], k) = Lookup(e, k)
  <2>1. PICK j \in 1 .. n : e[j].key = k
    BY <1>1 DEF Keys
  <2>2. Lookup(e, k) = e[j]
    BY <1>1, <2>1, LookupAtIndex
  <2> QED
    BY <1>7, <2>1, <2>2
<1> QED
  BY <1>7, <1>8, <1>9, <1>10
=============================================================================
