------------------------------ MODULE Callables ------------------------------
(***************************************************************************)
(* What is made of functions and methods: Lazy of objects/functions, which *)
(* several threads use; the methods that add_method and adopt_super_methods*)
(* of objects/classes put on a class, over its base's; and the digests that*)
(* hash_callable of objects/hashing makes for the keys of caches, over     *)
(* functions that come and go, and the addresses that CPython gives to     *)
(* objects and gives again when they are gone.  SHA-256 and marshal, which *)
(* are taken to tell what they are given apart, and the allocation of      *)
(* addresses are external.                                                 *)
(***************************************************************************)
EXTENDS Integers, Sequences, SequencesExt, FiniteSets, Python

CONSTANTS
  Thread,
  Outcomes,   \* what a factory gives: None, "object" or "raises"
  MaxBuilds,  \* bound: the runs of the factory
  MaxMethods, \* bound: the methods that are added
  Code,       \* bodies of functions
  Capture,    \* objects that a function captures
  ReprOf,     \* the repr of each of them, which several may have
  Address,    \* where objects may be
  MaxFunctions  \* bound: the functions that are defined

\* An address is none of the texts that the ids of the parts are written with.
CallablesAssumption == Address \cap {"none", "empty"} = {}

VARIABLES
  object,   \* _obj of the Lazy: None, or the number of the run that made it
  at,       \* where each thread is in get
  builds,   \* what each run of the factory gave, in order
  together, \* history: two threads were in get at once
  got,      \* what each thread's last get returned
  chains,   \* the method of the name on the base and on the class, or None
  answer,   \* the last call of the method on an object of the class
  functions, \* all that were defined: code, how it holds which object, and its address
  digests,   \* history: what each function's digests were
  added      \* history: where each part of the method was added, and its name

LazyVars == <<object, at, builds, together, got>>
ClassVars == <<chains, answer, added>>
HashVars == <<functions, digests>>

CallablesInit ==
  /\ object = None /\ at = [t \in Thread |-> "idle"] /\ builds = <<>> /\ together = FALSE
  /\ got = [t \in Thread |-> None]
  /\ chains = [base |-> <<"own">>, class |-> None]  \* the method that the base has itself
  /\ answer = None /\ added = <<>>
  /\ functions = <<>> /\ digests = {}

-----------------------------------------------------------------------------
(* Lazy.get, which an attribute and a call begin with too: the check, the  *)
(* factory and the assignment; then what is asked of the object.           *)
Get(t) ==
  /\ at[t] = "idle"
  /\ IF object # None
     THEN got' = [got EXCEPT ![t] = object] /\ UNCHANGED <<at, together>>
     ELSE /\ at' = [at EXCEPT ![t] = "build"]
          /\ together' = (together \/ \E other \in Thread \ {t} : at[other] # "idle")
          /\ UNCHANGED got
  /\ UNCHANGED <<object, builds, ClassVars, HashVars>>

Build(t) ==
  /\ at[t] = "build" /\ Len(builds) < MaxBuilds
  /\ \E outcome \in Outcomes :
       /\ builds' = Append(builds, outcome)
       /\ object' = IF outcome = "object" THEN Len(builds) + 1 ELSE IF outcome = None THEN None ELSE object
       /\ at' = [at EXCEPT ![t] = IF outcome = "raises" THEN "idle" ELSE "return"]
  /\ UNCHANGED <<together, got, ClassVars, HashVars>>

\* return self._obj, which another thread may have changed by now
Return(t) ==
  /\ at[t] = "return"
  /\ got' = [got EXCEPT ![t] = object]
  /\ at' = [at EXCEPT ![t] = "idle"]
  /\ UNCHANGED <<object, builds, together, ClassVars, HashVars>>

-----------------------------------------------------------------------------
(* A method is the sequence of what it runs, in order; each part returns   *)
(* None or its own value, and sees the value of those before it.           *)
Inherited == IF chains.class # None THEN chains.class ELSE chains.base

\* add_method: over the method that the class has by now, its own or its base's
AddMethod(where, part) ==
  /\ Len(Inherited) <= MaxMethods /\ Len(chains.base) <= MaxMethods
  /\ LET previous == IF where = "base" THEN chains.base ELSE Inherited
     IN chains' = [chains EXCEPT ![where] = Append(previous, part)]
  /\ added' = Append(added, <<where, part>>)
  /\ UNCHANGED <<answer, LazyVars, HashVars>>

\* adopt_super_methods: a method that the class has not itself is the base's as it is
\* at the call, and returns the object
AdoptSuperMethods ==
  /\ chains.class = None
  /\ chains' = [chains EXCEPT !.class = <<"super">>]
  /\ added' = Append(added, <<"class", "super">>)
  /\ UNCHANGED <<answer, LazyVars, HashVars>>

\* Mutant of ValueOf: the first value stands.
ValueOfFirst(values) ==
  FoldLeft(LAMBDA prior, value : IF prior # None THEN prior ELSE value, None, values)
\* prior if result is None else result
ValueOf(values) == FoldLeft(LAMBDA prior, value : IF value = None THEN prior ELSE value, None, values)

\* A call: "super" runs the base's method and returns the object.
Runs == FlattenSeq([k \in DOMAIN Inherited |-> IF Inherited[k] = "super" THEN chains.base ELSE <<Inherited[k]>>])
CallMethod(silent) ==
  /\ answer' = [of |-> Inherited, added |-> added, ran |-> Runs, silent |-> silent,
                value |-> ValueOf([k \in DOMAIN Inherited |-> IF Inherited[k] \in silent THEN None ELSE k])]
  /\ UNCHANGED <<chains, added, LazyVars, HashVars>>

LazyNext == \E t \in Thread : Get(t) \/ Build(t) \/ Return(t)
MethodsNext ==
  \/ \E where \in {"base", "class"}, part \in {"first", "second"} : AddMethod(where, part)
  \/ AdoptSuperMethods
  \/ \E silent \in SUBSET {"own", "first", "second"} : CallMethod(silent)

-----------------------------------------------------------------------------
\* A function holds what marshal can write, or an object it cannot, in a cell of
\* its closure or as a default; or it is no plain function: a partial, of a function
\* that stays and the object, or an instance that can be called.
Holding == {"plain", "cell", "default", "partial", "instance"}
HasCode(f) == f.holding \in {"plain", "cell", "default"}

Alive == {i \in DOMAIN functions : functions[i].at # None}
Used == {functions[i].at : i \in Alive}

\* The address is that of the tuple of defaults, or of the instance.
Define(code, holding, capture, place) ==
  /\ Len(functions) < MaxFunctions /\ place \notin Used
  /\ functions' = Append(functions, [code |-> code, holding |-> holding, capture |-> capture, at |-> place])
  /\ UNCHANGED <<digests, LazyVars, ClassVars>>

Delete(i) ==
  /\ i \in Alive
  /\ functions' = [functions EXCEPT ![i].at = None]
  /\ UNCHANGED <<digests, LazyVars, ClassVars>>

\* Mutant of BoundPayload: the bytecode alone.
BoundPayloadNone(f, temporary) == <<"value", None>>
\* the marshalled values, or the ids of the three parts: of the tuple of defaults,
\* and of a tuple made of the cells for the call, which is gone after it; or the repr,
\* which shows the reprs of what a partial is made of, and the address of an instance
BoundPayload(f, temporary) ==
  CASE f.holding = "plain" -> <<"value", f.capture>>
    [] f.holding = "default" -> <<"ids", f.at, "empty">>
    [] f.holding = "cell" -> <<"ids", "none", temporary>>
    [] f.holding = "partial" -> <<"shown", f.code, ReprOf[f.capture]>>
    [] f.holding = "instance" -> <<"repr", f.at>>

\* hash_callable
HashCallable(i, temporary) ==
  /\ i \in Alive /\ temporary \notin Used
  /\ LET f == functions[i] IN
     digests' = digests \cup
       {[of |-> i, code |-> IF HasCode(f) THEN f.code ELSE None, payload |-> BoundPayload(f, temporary)]}
  /\ UNCHANGED <<functions, LazyVars, ClassVars>>

HashingNext ==
  \/ \E code \in Code, holding \in Holding, capture \in Capture, place \in Address : Define(code, holding, capture, place)
  \/ \E i \in DOMAIN functions : Delete(i) \/ \E temporary \in Address : HashCallable(i, temporary)

-----------------------------------------------------------------------------
(* The factory "is invoked at most once" (functions.py:80).  The code keeps*)
(* that only for one thread at a time, and factories that give an object:  *)
(* a run that gave None or raised is followed by another, and threads that *)
(* are in get together each run it.  No more is lost: alone, no run follows*)
(* one that gave an object; and together, after a run that did, there is at*)
(* most one for each other thread, until a run gives None in its place.    *)
FactoryOnce ==
  /\ ~together => \A k \in DOMAIN builds : k < Len(builds) => builds[k] # "object"
  /\ \A j, k \in DOMAIN builds :
       j < k /\ builds[j] = "object" /\ (\A i \in j .. k : builds[i] # None)
         => k - j < Cardinality(Thread)

\* What was added to the class from some place of added on, and to the base in it.
AddedTo(where, events) ==
  LET its == SelectSeq(events, LAMBDA e : e[1] = where) IN [k \in DOMAIN its |-> its[k][2]]

(* A method runs its class's own part and all that was added, each once and*)
(* in the order it was added (classes, add_method): all of the base if the *)
(* class has nothing of its own; if it adopted the base's method, all that *)
(* the base has by now and then the class's; or else what the base had when*)
(* the class was added to first, and then the class's.  Its value is that  *)
(* of the last part that gave one.                                         *)
ChainsRunInOrder ==
  answer # None =>
    LET first == SelectInSeq(answer.added, LAMBDA e : e[1] = "class")
        adopts == first # 0 /\ answer.added[first][2] = "super"
        base == AddedTo("base", IF first = 0 \/ adopts THEN answer.added ELSE SubSeq(answer.added, 1, first))
        class == AddedTo("class", answer.added)
        loud == {k \in DOMAIN answer.of : answer.of[k] \notin answer.silent}
    IN /\ answer.ran = <<"own">> \o base \o (IF adopts THEN Tail(class) ELSE class)
       /\ answer.value = IF loud = {} THEN None ELSE CHOOSE k \in loud : \A j \in loud : j <= k

SameDigest(d, e) == d.code = e.code /\ d.payload = e.payload
Held(d) == functions[d.of]

(* "Without these, two lambdas with identical bytecode but different       *)
(* captures collide" (hashing:253-256): two functions of which marshal can *)
(* write what they hold have one digest only when both body and values are *)
(* equal, also after others are gone; and those that live now and hold     *)
(* other objects as defaults, or are instances, never.  Partials, of which *)
(* the repr "avoids collisions between distinct callables" (274-276), are  *)
(* told apart only as far as their repr does: of one function, over objects*)
(* that show alike, two of them share a digest while both live.            *)
DigestsTellApart ==
  \A d, e \in digests :
    SameDigest(d, e) /\ d.of # e.of =>
      \/ Held(d).holding = "cell"
      \/ {d.of, e.of} \notin SUBSET Alive /\ Held(d).holding \in {"default", "instance"}
      \/ /\ Held(d).code = Held(e).code /\ Held(d).holding = Held(e).holding
         /\ \/ Held(d).capture = Held(e).capture
            \/ Held(d).holding = "partial" /\ ReprOf[Held(d).capture] = ReprOf[Held(e).capture]

(* "per-object identity, which is stable for the lifetime of the in-memory *)
(* cache and collision-free" (hashing:266-268): a function that captures   *)
(* objects has one digest, which no other function has while both live.    *)
CapturesHaveIdentity ==
  \A d, e \in digests :
    Held(d).holding = "cell" /\ Held(e).holding = "cell" /\ {d.of, e.of} \subseteq Alive =>
      (SameDigest(d, e) <=> d.of = e.of)
=============================================================================
