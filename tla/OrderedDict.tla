---------------------------- MODULE OrderedDict ----------------------------
(***************************************************************************)
(* Python's collections.OrderedDict, as MemoryStore uses it: the items in  *)
(* insertion order, the oldest first, with at most one item for a key.  A  *)
(* dictionary is a sequence of records with a field "key"; the operators   *)
(* that need a present key are used under a guard that says so.            *)
(***************************************************************************)
EXTENDS Naturals, Sequences

Keys(d) == {d[i].key : i \in DOMAIN d}

Position(d, k) == CHOOSE i \in DOMAIN d : d[i].key = k

\* d[k]
Lookup(d, k) == d[Position(d, k)]

\* del d[k]
DelItem(d, k) ==
  SubSeq(d, 1, Position(d, k) - 1) \o SubSeq(d, Position(d, k) + 1, Len(d))

\* d.move_to_end(k)
MoveToEnd(d, k) == Append(DelItem(d, k), Lookup(d, k))

\* d[item.key] = item: an existing key keeps its position in the order.
Assign(d, item) ==
  IF item.key \in Keys(d)
  THEN [d EXCEPT ![Position(d, item.key)] = item]
  ELSE Append(d, item)

\* d.popitem(last=False), repeated until at most n items are left.
KeepNewest(d, n) ==
  IF Len(d) > n THEN SubSeq(d, Len(d) - n + 1, Len(d)) ELSE d

\* d.update(e): the items of e are assigned one after the other.
Update(d, e) ==
  LET after[i \in 0 .. Len(e)] == IF i = 0 THEN d ELSE Assign(after[i - 1], e[i])
  IN  after[Len(e)]

\* No key has two items.
Unique(d) == \A i, j \in DOMAIN d : d[i].key = d[j].key => i = j
=============================================================================
