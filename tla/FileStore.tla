----------------------------- MODULE FileStore -----------------------------
(***************************************************************************)
(* The file back end, mayutils.environment.memoisation.files.FileStore: a  *)
(* folder with one file for each key, named key + suffix, that instances   *)
(* in several processes read, write and delete without a lock.  The suffix *)
(* (the format of the files) is given, or taken from a file already in the *)
(* folder, or inferred from the first value put.  Instances run cached     *)
(* calls; each access to the folder is a step.  The counters are left out. *)
(***************************************************************************)
EXTENDS Integers, FiniteSets

CONSTANTS
  Instance,
  Key,
  Pickle,      \* the suffix that takes every value
  Tabular,     \* the suffix of data frames
  Setups,      \* the ways the store may be used, see setup
  TTL,         \* the lifetime of a file, or None
  MaxCalls,    \* bound: the calls made in all
  MaxRestarts, \* bound: how often a process is replaced by a new one
  Horizon,     \* bound: the clock stops there
  None         \* Python's None

Suffix == {Pickle, Tabular}

FileStoreAssumption ==
  /\ Pickle # Tabular
  /\ None \notin Suffix \cup Key \cup Int
  /\ Setups \subseteq [given : Suffix \cup {None}, backend : BOOLEAN, kindOf : [Key -> Suffix]]
  /\ TTL \in Nat \cup {None}
  /\ MaxCalls \in Nat
  /\ MaxRestarts \in Nat
  /\ Horizon \in Nat

VARIABLES
  setup,      \* what all the instances are built with: a suffix or None, and
              \* whether there is a data frame backend; and the suffix that
              \* infer_suffix gives for the value of each key.  It never changes.
  folder,     \* folder[k, s]: the file of key k with suffix s
  suffix,     \* self.suffix of each instance
  resolved,   \* self._resolved
  pc,         \* where each instance is in its call
  key,        \* the key of its call, or None
  doomed,     \* the paths its delete or clear has still to unlink
  since,      \* history: when its call began
  answer,     \* the file its last lookup was answered with, or None
  now,
  calls,
  restarts

vars == <<setup, folder, suffix, resolved, pc, key, doomed, since, answer, now, calls, restarts>>

\* at: the modification time; mixed: torn, with two writers at work
File == [is : {"absent", "torn", "mixed", "whole"}, at : Nat]

NoFile == [is |-> "absent", at |-> 0]

Location == {"idle", "find", "check", "stat", "read", "compute", "infer", "open", "write",
             "unlink", "raised"}

TypeOK ==
  /\ setup \in Setups
  /\ folder \in [Key \X Suffix -> File]
  /\ suffix \in [Instance -> Suffix \cup {None}]
  /\ resolved \in [Instance -> BOOLEAN]
  /\ pc \in [Instance -> Location]
  /\ key \in [Instance -> Key \cup {None}]
  /\ doomed \in [Instance -> SUBSET (Key \X Suffix)]
  /\ since \in [Instance -> Nat]
  /\ answer \in [Instance -> File \cup {None}]
  /\ now \in Nat
  /\ calls \in Nat
  /\ restarts \in Nat
  /\ \A i \in Instance :
       /\ resolved[i] => suffix[i] # None
       /\ pc[i] \in {"check", "stat", "read", "open", "write"} => resolved[i] /\ key[i] # None
       /\ pc[i] \in {"find", "compute", "infer"} => key[i] # None

-----------------------------------------------------------------------------
IsFile(p) == folder[p].is # "absent"

\* is_file_stale: the age exceeds the lifetime
IsStale(f) == TTL # None /\ now - f.at > TTL

\* A format writes the values of its own kind; pickle writes every value.
Writes(s, k) == s \in {Pickle, setup.kindOf[k]}

\* get_path
Path(i) == <<key[i], suffix[i]>>

Goto(i, from, to) == pc[i] = from /\ pc' = [pc EXCEPT ![i] = to]

\* FileStore.__init__: the serialiser is known at once for a given suffix that
\* is not tabular, or is with a backend.
ResolvedAtFirst == setup.given # None /\ (setup.given = Tabular => setup.backend)

Init ==
  /\ setup \in Setups
  /\ folder = [p \in Key \X Suffix |-> NoFile]
  /\ suffix = [i \in Instance |-> setup.given]
  /\ resolved = [i \in Instance |-> ResolvedAtFirst]
  /\ pc = [i \in Instance |-> "idle"]
  /\ key = [i \in Instance |-> None]
  /\ doomed = [i \in Instance |-> {}]
  /\ since = [i \in Instance |-> 0]
  /\ answer = [i \in Instance |-> None]
  /\ now = 0
  /\ calls = 0
  /\ restarts = 0

\* A new process builds the store again, over whatever the last one left.
Restart(i) ==
  /\ restarts < MaxRestarts
  /\ restarts' = restarts + 1
  /\ suffix' = [suffix EXCEPT ![i] = setup.given]
  /\ resolved' = [resolved EXCEPT ![i] = ResolvedAtFirst]
  /\ pc' = [pc EXCEPT ![i] = "idle"]
  /\ key' = [key EXCEPT ![i] = None]
  /\ doomed' = [doomed EXCEPT ![i] = {}]
  /\ answer' = [answer EXCEPT ![i] = None]
  /\ UNCHANGED <<setup, folder, since, now, calls>>

\* cache.__call__: get begins
Call(i, k) ==
  /\ calls < MaxCalls
  /\ Goto(i, "idle", "find")
  /\ calls' = calls + 1
  /\ key' = [key EXCEPT ![i] = k]
  /\ since' = [since EXCEPT ![i] = now]
  /\ answer' = [answer EXCEPT ![i] = None]
  /\ UNCHANGED <<setup, folder, suffix, resolved, doomed, now, restarts>>

\* Mutant of Find: a fresh store does not look at the folder.
FindBlind(i) ==
  /\ Goto(i, "find", IF resolved[i] THEN "check" ELSE "compute")
  /\ UNCHANGED <<setup, folder, suffix, resolved, key, doomed, since, answer, now, calls, restarts>>

\* get: _resolve_from_disk takes the suffix of the first file of the folder,
\* in the order of the names; without one the lookup is a miss.
Find(i) ==
  LET seen == {p \in Key \X Suffix : IsFile(p)}
      may == ~resolved[i] /\ suffix[i] = None /\ seen # {}
  IN
  /\ Goto(i, "find", IF resolved[i] \/ may THEN "check" ELSE "compute")
  /\ IF may
     THEN \E p \in seen : suffix' = [suffix EXCEPT ![i] = p[2]]
     ELSE UNCHANGED suffix
  /\ resolved' = [resolved EXCEPT ![i] = @ \/ may]
  /\ UNCHANGED <<setup, folder, key, doomed, since, answer, now, calls, restarts>>

\* get: path.is_file()
Check(i) ==
  /\ Goto(i, "check", IF ~IsFile(Path(i)) THEN "compute" ELSE "stat")
  /\ UNCHANGED <<setup, folder, suffix, resolved, key, doomed, since, answer, now, calls, restarts>>

\* Mutant of Stat: any file is read.
StatNothing(i) ==
  /\ Goto(i, "stat", "read")
  /\ UNCHANGED <<setup, folder, suffix, resolved, key, doomed, since, answer, now, calls, restarts>>

\* get: is_file_stale(path, ttl=self.ttl)
Stat(i) ==
  /\ pc[i] = "stat"
  /\ TTL = None \/ IsFile(Path(i))
  /\ Goto(i, "stat", IF IsStale(folder[Path(i)]) THEN "compute" ELSE "read")
  /\ UNCHANGED <<setup, folder, suffix, resolved, key, doomed, since, answer, now, calls, restarts>>

\* get: self.serialiser.read(path)
Read(i) ==
  /\ Goto(i, "read", "idle")
  /\ folder[Path(i)].is = "whole"
  /\ answer' = [answer EXCEPT ![i] = folder[Path(i)]]
  /\ UNCHANGED <<setup, folder, suffix, resolved, key, doomed, since, now, calls, restarts>>

\* The file was unlinked since, or does not parse.
GetRaises(i) ==
  /\ \/ Goto(i, "stat", "raised") /\ TTL # None /\ ~IsFile(Path(i))
     \/ Goto(i, "read", "raised") /\ folder[Path(i)].is # "whole"
  /\ UNCHANGED <<setup, folder, suffix, resolved, key, doomed, since, answer, now, calls, restarts>>

\* cache.__call__: the function returns, put begins; or it raises
Compute(i) ==
  /\ Goto(i, "compute", "infer")
  /\ UNCHANGED <<setup, folder, suffix, resolved, key, doomed, since, answer, now, calls, restarts>>

ComputeFails(i) ==
  /\ Goto(i, "compute", "raised")
  /\ UNCHANGED <<setup, folder, suffix, resolved, key, doomed, since, answer, now, calls, restarts>>

\* refresh: the function is called without a lookup
Refresh(i, k) ==
  /\ calls < MaxCalls
  /\ Goto(i, "idle", "compute")
  /\ calls' = calls + 1
  /\ key' = [key EXCEPT ![i] = k]
  /\ since' = [since EXCEPT ![i] = now]
  /\ answer' = [answer EXCEPT ![i] = None]
  /\ UNCHANGED <<setup, folder, suffix, resolved, doomed, now, restarts>>

\* The backend is inferred from the value, which is no data frame.
NoFrame(i) == ~resolved[i] /\ suffix[i] = Tabular /\ setup.kindOf[key[i]] # Tabular

\* put: the suffix is inferred from the value unless it is known by now.
Resolve(i) ==
  LET s == IF suffix[i] = None THEN setup.kindOf[key[i]] ELSE suffix[i] IN
  /\ Goto(i, "infer", "open")
  /\ ~NoFrame(i)
  /\ suffix' = [suffix EXCEPT ![i] = s]
  /\ resolved' = [resolved EXCEPT ![i] = TRUE]
  /\ UNCHANGED <<setup, folder, key, doomed, since, answer, now, calls, restarts>>

ResolveRaises(i) ==
  /\ Goto(i, "infer", "raised")
  /\ NoFrame(i)
  /\ UNCHANGED <<setup, folder, suffix, resolved, key, doomed, since, answer, now, calls, restarts>>

\* put: self.serialiser.write opens the file, which cuts it.
OpenFile(i) ==
  /\ Goto(i, "open", "write")
  /\ Writes(suffix[i], key[i])
  /\ folder' = [folder EXCEPT ![Path(i)] =
       [is |-> IF \E j \in Instance \ {i} : pc[j] = "write" /\ Path(j) = Path(i)
               THEN "mixed" ELSE "torn",
        at |-> now]]
  /\ UNCHANGED <<setup, suffix, resolved, key, doomed, since, answer, now, calls, restarts>>

\* The format does not take the value: no file is opened.
PutRaises(i) ==
  /\ Goto(i, "open", "raised")
  /\ ~Writes(suffix[i], key[i])
  /\ UNCHANGED <<setup, folder, suffix, resolved, key, doomed, since, answer, now, calls, restarts>>

\* put: self.serialiser.write closes the file.  What is written to a file
\* unlinked meanwhile is lost; two writers may leave a mixture.
Write(i) ==
  /\ Goto(i, "write", "idle")
  /\ \E f \in [is : {"whole", "mixed"}, at : {now}] :
       /\ f.is = "mixed" => folder[Path(i)].is = "mixed"
       /\ folder' = [folder EXCEPT ![Path(i)] = IF IsFile(Path(i)) THEN f ELSE @]
  /\ UNCHANGED <<setup, suffix, resolved, key, doomed, since, answer, now, calls, restarts>>

\* The write stops half way, at a value that does not pickle or a full disk.
WriteFails(i) ==
  /\ Goto(i, "write", "raised")
  /\ UNCHANGED <<setup, folder, suffix, resolved, key, doomed, since, answer, now, calls, restarts>>

\* delete: nothing when the suffix is not resolved or there is no file
Delete(i, k) ==
  /\ calls < MaxCalls
  /\ calls' = calls + 1
  /\ resolved[i]
  /\ IsFile(<<k, suffix[i]>>)
  /\ Goto(i, "idle", "unlink")
  /\ key' = [key EXCEPT ![i] = k]
  /\ doomed' = [doomed EXCEPT ![i] = {<<k, suffix[i]>>}]
  /\ UNCHANGED <<setup, folder, suffix, resolved, since, answer, now, restarts>>

\* clear: the files of the resolved suffix, as the glob lists them
Clear(i) ==
  /\ calls < MaxCalls
  /\ calls' = calls + 1
  /\ Goto(i, "idle", "unlink")
  /\ doomed' = [doomed EXCEPT ![i] =
       IF resolved[i] THEN {p \in Key \X {suffix[i]} : IsFile(p)} ELSE {}]
  /\ key' = [key EXCEPT ![i] = None]
  /\ UNCHANGED <<setup, folder, suffix, resolved, since, answer, now, restarts>>

\* delete and clear: path.unlink()
Unlink(i) ==
  /\ pc[i] = "unlink"
  /\ \E p \in doomed[i] :
       /\ IsFile(p)
       /\ folder' = [folder EXCEPT ![p] = NoFile]
       /\ doomed' = [doomed EXCEPT ![i] = @ \ {p}]
  /\ UNCHANGED <<setup, suffix, resolved, pc, key, since, answer, now, calls, restarts>>

UnlinkRaises(i) ==
  /\ \E p \in doomed[i] : ~IsFile(p)
  /\ Goto(i, "unlink", "raised")
  /\ doomed' = [doomed EXCEPT ![i] = {}]
  /\ UNCHANGED <<setup, folder, suffix, resolved, key, since, answer, now, calls, restarts>>

Unlinked(i) ==
  /\ doomed[i] = {}
  /\ Goto(i, "unlink", "idle")
  /\ UNCHANGED <<setup, folder, suffix, resolved, key, doomed, since, answer, now, calls, restarts>>

\* The caller has the exception.
Leave(i) ==
  /\ Goto(i, "raised", "idle")
  /\ UNCHANGED <<setup, folder, suffix, resolved, key, doomed, since, answer, now, calls, restarts>>

Tick ==
  /\ now < Horizon
  /\ now' = now + 1
  /\ UNCHANGED <<setup, folder, suffix, resolved, pc, key, doomed, since, answer, calls, restarts>>

Next ==
  \/ \E i \in Instance :
       \/ Find(i) \/ Check(i) \/ Stat(i) \/ Read(i) \/ GetRaises(i)
       \/ Compute(i) \/ ComputeFails(i) \/ Resolve(i) \/ ResolveRaises(i)
       \/ OpenFile(i) \/ PutRaises(i) \/ Write(i) \/ WriteFails(i)
       \/ Clear(i) \/ Unlink(i) \/ UnlinkRaises(i) \/ Unlinked(i)
       \/ Leave(i) \/ Restart(i)
       \/ \E k \in Key : Call(i, k) \/ Refresh(i, k) \/ Delete(i, k)
  \/ Tick

Spec == Init /\ [][Next]_vars

-----------------------------------------------------------------------------
Stored(k) == {s \in Suffix : folder[<<k, s>>].is = "whole" /\ ~IsStale(folder[k, s])}

(* "absent or stale" (files.py, FileStore.get): whatever is written and     *)
(* deleted during a lookup, it returns nothing that was older than the      *)
(* lifetime when it began.                                                  *)
ServedFresh ==
  \A i \in Instance : answer[i] # None /\ TTL # None => answer[i].at + TTL >= since[i]

(* "This recovers the suffix from any existing file [...] so those reads   *)
(* hit" (files.py, FileStore._resolve_from_disk): a lookup, also the first  *)
(* one of a new process, takes no key for missing that has a whole and      *)
(* fresh file.  But for an instance whose suffix is given, and is one of    *)
(* data frames, without a backend, "parquet" in the example of cache: it is *)
(* left unresolved, and finds nothing before its own first put.  The setups *)
(* are those in which the files of the folder have one suffix.              *)
MissesAreAbsent ==
  \A i \in Instance :
    /\ pc[i] \in {"find", "check", "stat"} /\ pc'[i] = "compute"
    /\ resolved[i] \/ suffix[i] = None
    => Stored(key[i]) = {}

StoredIsFound == [][MissesAreAbsent]_vars
=============================================================================
