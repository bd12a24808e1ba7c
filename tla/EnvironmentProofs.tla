-------------------------- MODULE EnvironmentProofs -------------------------
(***************************************************************************)
(* What the sessions of the package promise, proved for every number of    *)
(* threads, processes, sessions, blocks, calls and rows: the Snowflake     *)
(* session's context, the handlers of the logger, the stored OAuth tokens, *)
(* the identities of the Streamlit pages and the streams of query results. *)
(* They share no state: each theorem is about the specification of its own *)
(* module.                                                                 *)
(***************************************************************************)
EXTENDS Snowflake, Logging, OAuth, StreamlitGate, DataStreams, TLAPS

Dict == INSTANCE OrderedDictLemmas

-----------------------------------------------------------------------------
(* Stacks: finite sequences, whatever their elements are.                  *)

IsStack(s) == s \in Seq({s[i] : i \in DOMAIN s})

LEMMA IsStackOf == ASSUME NEW S, NEW s \in Seq(S) PROVE IsStack(s)
BY DEF IsStack

LEMMA StackProperties ==
  ASSUME NEW s, IsStack(s)
  PROVE  Len(s) \in Nat /\ DOMAIN s = 1 .. Len(s) /\ (s = <<>> <=> Len(s) = 0)
BY DEF IsStack

LEMMA EmptyStack == IsStack(<<>>) /\ Len(<<>>) = 0
BY DEF IsStack

LEMMA Push ==
  ASSUME NEW s, IsStack(s), NEW x
  PROVE  /\ IsStack(<<x>> \o s)
         /\ Len(<<x>> \o s) = Len(s) + 1
         /\ (<<x>> \o s)[1] = x
         /\ \A i \in 2 .. Len(s) + 1 : (<<x>> \o s)[i] = s[i - 1]
<1> DEFINE S == {s[i] : i \in DOMAIN s} \cup {x}
           r == <<x>> \o s
<1>1. s \in Seq(S) /\ <<x>> \in Seq(S)
  BY DEF IsStack
<1>2. r \in Seq(S)
  BY <1>1
<1>3. IsStack(r)
  BY <1>2, IsStackOf
<1>4. /\ Len(r) = Len(s) + 1
      /\ r[1] = x
      /\ \A i \in 2 .. Len(s) + 1 : r[i] = s[i - 1]
  BY <1>1
<1> QED
  BY <1>3, <1>4

LEMMA Pop ==
  ASSUME NEW s, IsStack(s), s # <<>>
  PROVE  /\ IsStack(Tail(s))
         /\ Len(Tail(s)) = Len(s) - 1
         /\ Head(s) = s[1]
         /\ \A i \in 1 .. Len(s) - 1 : Tail(s)[i] = s[i + 1]
<1> DEFINE S == {s[i] : i \in DOMAIN s}
<1>1. s \in Seq(S)
  BY DEF IsStack
<1> HIDE DEF S
<1>2. Tail(s) \in Seq(S)
  BY <1>1
<1>3. IsStack(Tail(s))
  BY <1>2, IsStackOf
<1>4. Len(Tail(s)) = Len(s) - 1 /\ Head(s) = s[1]
  BY <1>1
<1>5. \A i \in 1 .. Len(s) - 1 : Tail(s)[i] = s[i + 1]
  BY <1>1
<1> QED
  BY <1>3, <1>4, <1>5

(* Replacing each element. *)
LEMMA Mapped ==
  ASSUME NEW s, IsStack(s), NEW r, DOMAIN r = DOMAIN s, r = [i \in DOMAIN s |-> r[i]]
  PROVE  IsStack(r) /\ Len(r) = Len(s)
<1>1. DOMAIN s = 1 .. Len(s) /\ Len(s) \in Nat
  BY StackProperties
<1>2. r \in [1 .. Len(s) -> {r[i] : i \in DOMAIN r}]
  BY <1>1
<1>3. r \in Seq({r[i] : i \in DOMAIN r})
  BY <1>1, <1>2
<1> QED
  BY <1>1, <1>3 DEF IsStack

-----------------------------------------------------------------------------
(* Snowflake: a block of using leaves the context as it found it.          *)

Asked(b) == {d \in Dimension : b.requested[d] # None}

\* What a block that is alone notes of a dimension, and what it leaves there.
ByDatabase(b, d) == d = "schema" /\ "database" \in Asked(b)
Kept(b, d) == IF ByDatabase(b, d) THEN Public ELSE b.before[d]
Final(b, d) == IF Kept(b, d) = None THEN b.requested[d] ELSE Kept(b, d)

BlockOK(b) ==
  /\ DOMAIN b = {"requested", "before", "alone", "phase", "restores", "todo"}
  /\ b.alone \in BOOLEAN
  /\ b.phase \in {"enter", "body", "exit"}
  /\ b.todo \subseteq Asked(b)
  /\ b.phase # "enter" => b.todo = {}
  /\ DOMAIN b.restores \subseteq Asked(b) \ b.todo
  /\ \A d \in Asked(b) \ b.todo, e \in b.todo : Rank[d] < Rank[e]
  /\ b.alone =>
       /\ \A d \in DOMAIN b.restores : Kept(b, d) # None /\ b.restores[d] = Kept(b, d)
       /\ b.phase # "exit" =>
            \A d \in Asked(b) \ b.todo : Kept(b, d) # None => d \in DOMAIN b.restores
       /\ "database" \in DOMAIN b.restores /\ "schema" \in Asked(b) \ b.todo =>
            "schema" \in DOMAIN b.restores

\* The context within the innermost block of a thread, if the block is alone.
TopOK(b, ctx) ==
  b.alone =>
    /\ b.phase = "enter" => \A d \in Dimension :
         ctx[d] = IF d \in Asked(b) \ b.todo THEN b.requested[d]
                  ELSE IF d = "schema" /\ "database" \in Asked(b) \ b.todo THEN Public
                  ELSE b.before[d]
    /\ b.phase = "body" => \A d \in Asked(b) : ctx[d] = b.requested[d]
    /\ b.phase = "exit" => \A d \in Asked(b) \ DOMAIN b.restores : ctx[d] = Final(b, d)
    /\ b.phase # "enter" => \A d \in Dimension \ Asked(b) : Kept(b, d) # None => ctx[d] = Kept(b, d)

\* An outer block and the one within it.
NestedOK(b, a) ==
  /\ b.phase = "body"
  /\ b.alone =>
       /\ a.alone
       /\ "database" \in Asked(a) => "database" \in a.todo
       /\ \A d \in Asked(b) : a.before[d] = b.requested[d]
       /\ \A d \in Dimension \ Asked(b) : Kept(b, d) # None => a.before[d] = Kept(b, d)

StackOK(s, ctx) ==
  /\ IsStack(s)
  /\ s # <<>> => TopOK(s[1], ctx)
  /\ \A i \in 1 .. Len(s) : BlockOK(s[i])
  /\ \A i \in 2 .. Len(s) : NestedOK(s[i], s[i - 1])

\* Inductive: every thread's blocks are nested, each noted what its body changes, and
\* the innermost accounts for the context.  That the blocks restore the context says
\* nothing of one that is still being entered.
SnowInv ==
  /\ DOMAIN context = Dimension
  /\ DOMAIN blocks = Thread
  /\ DOMAIN submitted = 1 .. Tasks
  /\ \A t \in Thread : StackOK(blocks[t], context)
  /\ \A t \in Thread \ {0} : blocks[t] # <<>> => submitted[t] = "running"

LEMMA NotAlone ==
  ASSUME NEW b, BlockOK(b), NEW ctx
  PROVE  /\ BlockOK(Aside(b))
         /\ TopOK(Aside(b), ctx)
         /\ Aside(b).phase = b.phase
         /\ ~Aside(b).alone
BY DEF Aside, BlockOK, TopOK, Asked

(* A stack of blocks none of which is alone any more. *)
LEMMA Crowded ==
  ASSUME NEW s, NEW ctx, StackOK(s, ctx), NEW ctx2,
         NEW r, r = [i \in DOMAIN s |-> Aside(s[i])]
  PROVE  StackOK(r, ctx2) /\ (r = <<>> <=> s = <<>>)
<1>1. IsStack(s) /\ DOMAIN s = 1 .. Len(s) /\ Len(s) \in Nat /\ (s = <<>> <=> Len(s) = 0)
  BY StackProperties DEF StackOK
<1>2. IsStack(r) /\ Len(r) = Len(s) /\ (r = <<>> <=> Len(r) = 0)
  BY <1>1, Mapped, StackProperties
<1>3. ASSUME NEW i \in 1 .. Len(s)
      PROVE BlockOK(r[i]) /\ TopOK(r[i], ctx2) /\ r[i].phase = s[i].phase /\ ~r[i].alone
  BY <1>1, NotAlone DEF StackOK
<1>4. ASSUME NEW i \in 2 .. Len(s) PROVE NestedOK(r[i], r[i - 1])
  BY <1>1, <1>3 DEF StackOK, NestedOK
<1>5. s # <<>> => TopOK(r[1], ctx2)
  BY <1>1, <1>3
<1> QED
  BY <1>1, <1>2, <1>3, <1>4, <1>5 DEF StackOK

(* The stack of the thread that switches: the innermost block goes on, and the outer *)
(* ones stay alone if it has another dimension than the database.                    *)
LEMMA Switched ==
  ASSUME NEW s, NEW ctx, StackOK(s, ctx), s # <<>>, NEW ctx2, NEW top,
         BlockOK(top), TopOK(top, ctx2),
         top.requested = s[1].requested, top.before = s[1].before, top.alone = s[1].alone,
         NEW r, DOMAIN r = DOMAIN s, r = [i \in DOMAIN s |-> r[i]], r[1] = top,
         \/ \A i \in DOMAIN s \ {1} : r[i] = Aside(s[i])
         \/ /\ "database" \in s[1].todo => "database" \in top.todo
            /\ \A i \in DOMAIN s \ {1} : r[i] = s[i]
  PROVE  StackOK(r, ctx2) /\ r # <<>>
<1>1. IsStack(s) /\ DOMAIN s = 1 .. Len(s) /\ Len(s) \in Nat /\ Len(s) # 0
  BY StackProperties DEF StackOK
<1>2. IsStack(r) /\ Len(r) = Len(s) /\ (r = <<>> <=> Len(r) = 0)
  BY <1>1, Mapped, StackProperties
<1>3. ASSUME NEW i \in 2 .. Len(s) PROVE BlockOK(r[i]) /\ NestedOK(r[i], r[i - 1])
  <2>1. BlockOK(s[i]) /\ NestedOK(s[i], s[i - 1]) /\ i - 1 \in 1 .. Len(s) /\ i \in DOMAIN s \ {1}
    BY <1>1 DEF StackOK
  <2>2. CASE r[i] = Aside(s[i])
    BY <2>1, <2>2, NotAlone DEF NestedOK
  <2>3. CASE r[i] = s[i] /\ ("database" \in s[1].todo => "database" \in top.todo)
             /\ \A j \in DOMAIN s \ {1} : r[j] = s[j]
    <3>1. CASE i = 2
      BY <2>1, <2>3, <3>1 DEF NestedOK, Asked
    <3>2. CASE i # 2
      <4>1. i - 1 \in DOMAIN s \ {1}
        BY <1>1, <3>2
      <4>2. r[i - 1] = s[i - 1]
        BY <2>3, <4>1
      <4> QED
        BY <2>1, <2>3, <4>2
    <3> QED
      BY <3>1, <3>2
  <2> QED
    BY <2>1, <2>2, <2>3
<1>4. ASSUME NEW i \in 1 .. Len(s) PROVE BlockOK(r[i])
  <2>1. i = 1 \/ i \in 2 .. Len(s)
    BY <1>1
  <2> QED
    BY <1>3, <2>1, Zenon
<1>5. StackOK(r, ctx2)
  BY <1>2, <1>3, <1>4 DEF StackOK
<1> QED
  BY <1>1, <1>2, <1>5

(* A block that begins within one that runs. *)
LEMMA Pushed ==
  ASSUME NEW s, NEW ctx, StackOK(s, ctx), NEW b, BlockOK(b), TopOK(b, ctx),
         s # <<>> => NestedOK(s[1], b)
  PROVE  StackOK(<<b>> \o s, ctx) /\ <<b>> \o s # <<>>
<1> DEFINE r == <<b>> \o s
<1>1. IsStack(s) /\ DOMAIN s = 1 .. Len(s) /\ Len(s) \in Nat /\ (s = <<>> <=> Len(s) = 0)
  BY StackProperties DEF StackOK
<1>2. /\ IsStack(r) /\ Len(r) = Len(s) + 1 /\ r[1] = b
      /\ \A i \in 2 .. Len(s) + 1 : r[i] = s[i - 1]
  BY <1>1, Push
<1> HIDE DEF r
<1>3. r # <<>>
  BY <1>1, <1>2, EmptyStack
<1>4. ASSUME NEW i \in 2 .. Len(s) + 1 PROVE NestedOK(r[i], r[i - 1])
  <2>1. CASE i = 2
    BY <1>1, <1>2, <2>1
  <2>2. CASE i # 2
    <3>1. r[i] = s[i - 1] /\ r[i - 1] = s[(i - 1) - 1] /\ i - 1 \in 2 .. Len(s)
      BY <1>1, <1>2, <2>2
    <3> QED
      BY <3>1 DEF StackOK
  <2> QED
    BY <2>1, <2>2
<1>5. ASSUME NEW i \in 1 .. Len(s) + 1 PROVE BlockOK(r[i])
  BY <1>1, <1>2 DEF StackOK
<1>6. StackOK(r, ctx)
  BY <1>2, <1>4, <1>5 DEF StackOK
<1> QED
  BY <1>3, <1>6 DEF r

LEMMA Entered ==
  ASSUME NEW s, NEW ctx, StackOK(s, ctx), s # <<>> => s[1].phase = "body", NEW requested, NEW b,
         b = [requested |-> requested, before |-> ctx, alone |-> TRUE,
              phase |-> "enter", restores |-> <<>>,
              todo |-> {d \in Dimension : requested[d] # None}]
  PROVE  StackOK(<<b>> \o s, ctx) /\ <<b>> \o s # <<>>
<1>1. DOMAIN b.restores = {}
  OBVIOUS
<1>2. BlockOK(b) /\ TopOK(b, ctx)
  BY <1>1 DEF BlockOK, TopOK, Asked
<1>3. ASSUME s # <<>> PROVE NestedOK(s[1], b)
  <2>1. TopOK(s[1], ctx) /\ s[1].phase = "body"
    BY <1>3 DEF StackOK
  <2>2. b.alone /\ b.before = ctx /\ ("database" \in Asked(b) => "database" \in b.todo)
    BY DEF Asked
  <2> QED
    BY <2>1, <2>2 DEF TopOK, NestedOK
<1> QED
  BY <1>2, <1>3, Pushed

(* A block that has restored what it noted, so that the one outside it goes on in the *)
(* context it had, or that ends otherwise within one that is not alone.              *)
LEMMA Popped ==
  ASSUME NEW s, NEW ctx, StackOK(s, ctx), s # <<>>,
         \/ s[1].phase = "exit" /\ DOMAIN s[1].restores = {}
         \/ Len(s) >= 2 => ~s[2].alone
  PROVE  StackOK(Tail(s), ctx)
<1> DEFINE r == Tail(s)
<1>1. IsStack(s) /\ DOMAIN s = 1 .. Len(s) /\ Len(s) \in Nat /\ Len(s) # 0
  BY StackProperties DEF StackOK
<1>2. /\ IsStack(r) /\ Len(r) = Len(s) - 1
      /\ \A i \in 1 .. Len(s) - 1 : r[i] = s[i + 1]
  BY <1>1, Pop
<1>3. r = <<>> <=> Len(r) = 0
  BY <1>2, StackProperties
<1> HIDE DEF r
<1>4. ASSUME Len(s) >= 2 PROVE TopOK(s[2], ctx)
  <2> DEFINE a == s[1]
             b == s[2]
  <2>1. BlockOK(a) /\ BlockOK(b) /\ TopOK(a, ctx) /\ NestedOK(b, a)
    BY <1>1, <1>4 DEF StackOK
  <2> HIDE DEF a, b
  <2>2. b.alone => a.phase = "exit" /\ DOMAIN a.restores = {} /\ a.todo = {}
    BY <1>4, <2>1 DEF a, b, BlockOK
  <2>3. CASE b.alone
    <3>1. /\ a.alone /\ "database" \notin Asked(a) /\ b.phase = "body"
          /\ a.phase = "exit" /\ DOMAIN a.restores = {}
      BY <2>1, <2>2, <2>3 DEF NestedOK
    <3>2. \A d \in Asked(a) : ctx[d] = IF a.before[d] = None THEN a.requested[d] ELSE a.before[d]
      BY <2>1, <3>1 DEF TopOK, Final, Kept, ByDatabase
    <3>3. \A d \in Dimension \ Asked(a) : a.before[d] # None => ctx[d] = a.before[d]
      BY <2>1, <3>1 DEF TopOK, Kept, ByDatabase
    <3>4. \A d \in Dimension : a.before[d] # None => ctx[d] = a.before[d]
      BY <3>2, <3>3
    <3>5. \A d \in Asked(b) : ctx[d] = b.requested[d]
      BY <2>1, <2>3, <3>4 DEF NestedOK, Asked
    <3>6. \A d \in Dimension \ Asked(b) : Kept(b, d) # None => ctx[d] = Kept(b, d)
      BY <2>1, <2>3, <3>4 DEF NestedOK
    <3> QED
      BY <3>1, <3>5, <3>6 DEF TopOK, b
  <2>4. CASE ~b.alone
    BY <2>4 DEF TopOK, b
  <2> QED
    BY <2>3, <2>4
<1>5. \A i \in 1 .. Len(s) - 1 : BlockOK(r[i])
  BY <1>1, <1>2 DEF StackOK
<1>6. ASSUME NEW i \in 2 .. Len(s) - 1 PROVE NestedOK(r[i], r[i - 1])
  <2>1. r[i] = s[i + 1] /\ r[i - 1] = s[(i + 1) - 1] /\ i + 1 \in 2 .. Len(s)
    BY <1>1, <1>2
  <2> QED
    BY <2>1 DEF StackOK
<1>7. r # <<>> => TopOK(r[1], ctx)
  BY <1>1, <1>2, <1>3, <1>4
<1>8. StackOK(r, ctx)
  BY <1>1, <1>2, <1>5, <1>6, <1>7 DEF StackOK
<1> QED
  BY <1>8 DEF r

(* The innermost block goes on to its next phase. *)
LEMMA Moved ==
  ASSUME NEW s, NEW ctx, StackOK(s, ctx), s # <<>>, NEW onward, NEW r,
         r = [s EXCEPT ![1].phase = onward],
         \/ s[1].phase = "enter" /\ s[1].todo = {} /\ onward = "body"
         \/ s[1].phase = "body" /\ onward = "exit"
  PROVE  StackOK(r, ctx) /\ r # <<>>
<1> DEFINE a == s[1]
           top == [a EXCEPT !.phase = onward]
<1>1. IsStack(s) /\ DOMAIN s = 1 .. Len(s) /\ Len(s) \in Nat /\ Len(s) # 0
  BY StackProperties DEF StackOK
<1>2. BlockOK(a) /\ TopOK(a, ctx)
  BY <1>1 DEF StackOK
<1> HIDE DEF a
<1>3. /\ DOMAIN top = DOMAIN a /\ top.phase = onward /\ top.requested = a.requested /\ top.before = a.before
      /\ top.alone = a.alone /\ top.restores = a.restores /\ top.todo = a.todo
  BY <1>2 DEF BlockOK
<1> HIDE DEF top
<1>4. BlockOK(top)
  BY <1>2, <1>3 DEF BlockOK, Asked, Kept, ByDatabase, a
<1>5. TopOK(top, ctx)
  <2>1. CASE onward = "body"
    <3>1. a.phase = "enter" /\ a.todo = {}
      BY <2>1 DEF a
    <3>2. Asked(top) = Asked(a) /\ Asked(a) \subseteq Dimension
      BY <1>3 DEF Asked
    <3>3. ASSUME a.alone, NEW d \in Dimension
          PROVE  ctx[d] = IF d \in Asked(a) THEN a.requested[d]
                          ELSE IF d = "schema" /\ "database" \in Asked(a) THEN Public
                          ELSE a.before[d]
      BY <1>2, <3>1, <3>3 DEF TopOK
    <3>4. ASSUME NEW d \in Dimension
          PROVE  Kept(top, d) = IF d = "schema" /\ "database" \in Asked(a) THEN Public ELSE a.before[d]
      BY <1>3, <3>2 DEF Kept, ByDatabase
    <3>5. ASSUME a.alone, NEW d \in Asked(a) PROVE ctx[d] = top.requested[d]
      BY <1>3, <3>2, <3>3, <3>5
    <3>6. ASSUME a.alone, NEW d \in Dimension \ Asked(a) PROVE ctx[d] = Kept(top, d)
      BY <3>3, <3>4, <3>6
    <3> QED
      BY <1>3, <2>1, <3>2, <3>5, <3>6 DEF TopOK
  <2>2. CASE onward = "exit"
    BY <1>2, <1>3, <2>2 DEF TopOK, BlockOK, Asked, Final, Kept, ByDatabase, a
  <2> QED
    BY <2>1, <2>2
<1>6. /\ DOMAIN r = DOMAIN s /\ r = [i \in DOMAIN s |-> r[i]] /\ r[1] = top
      /\ \A i \in 2 .. Len(s) : r[i] = s[i]
  <2>1. 1 \in DOMAIN s /\ 1 .. Len(s) = DOMAIN s
    BY <1>1
  <2>2. r = [i \in DOMAIN s |-> IF i = 1 THEN top ELSE s[i]]
    BY <1>1 DEF top, a, IsStack
  <2>3. DOMAIN r = DOMAIN s /\ r = [i \in DOMAIN s |-> r[i]]
    BY <2>2
  <2>4. r[1] = top
    BY <2>1, <2>2
  <2>5. ASSUME NEW i \in 2 .. Len(s) PROVE r[i] = s[i]
    <3>1. i \in DOMAIN s /\ i # 1
      BY <1>1
    <3> QED
      BY <2>2, <3>1
  <2> QED
    BY <2>3, <2>4, <2>5
<1>7. IsStack(r) /\ Len(r) = Len(s) /\ (r = <<>> <=> Len(r) = 0)
  BY <1>1, <1>6, Mapped, StackProperties
<1>8. ASSUME NEW i \in 2 .. Len(s) PROVE BlockOK(r[i]) /\ NestedOK(r[i], r[i - 1])
  <2>1. BlockOK(s[i]) /\ NestedOK(s[i], s[i - 1])
    BY DEF StackOK
  <2>2. CASE i = 2
    BY <1>3, <1>6, <2>1, <2>2 DEF NestedOK, Asked, a
  <2>3. CASE i # 2
    <3>1. r[i - 1] = s[i - 1]
      BY <1>1, <1>6, <2>3
    <3> QED
      BY <1>6, <2>1, <3>1
  <2> QED
    BY <2>2, <2>3
<1> QED
  BY <1>1, <1>4, <1>5, <1>6, <1>7, <1>8 DEF StackOK

LEMMA EmptyStackOK == ASSUME NEW ctx PROVE StackOK(<<>>, ctx)
BY EmptyStack DEF StackOK

LEMMA SnowInit == SnowflakeInit => SnowInv
<1> SUFFICES ASSUME SnowflakeInit PROVE SnowInv
  OBVIOUS
<1>1. DOMAIN context = Dimension
  BY DEF SnowflakeInit, Begins
<1>2. ASSUME NEW t \in Thread PROVE blocks[t] = <<>> /\ StackOK(blocks[t], context)
  BY EmptyStackOK DEF SnowflakeInit
<1> QED
  BY <1>1, <1>2 DEF SnowflakeInit, SnowInv

(* A step that changes the blocks of one thread. *)
LEMMA StackStep ==
  ASSUME SnowInv, NEW t \in Thread, NEW r, StackOK(r, context),
         blocks' = [blocks EXCEPT ![t] = r],
         r # <<>> /\ t # 0 => submitted[t] = "running",
         UNCHANGED <<context, submitted>>
  PROVE  SnowInv'
<1>1. ASSUME NEW u \in Thread PROVE StackOK(blocks'[u], context)
  BY DEF SnowInv
<1>2. ASSUME NEW u \in Thread \ {0}, blocks'[u] # <<>> PROVE submitted[u] = "running"
  BY <1>2 DEF SnowInv
<1> QED
  BY <1>1, <1>2 DEF SnowInv

(* The context once the innermost block of t, alone, has moved one dimension. *)
LEMMA SwitchStep ==
  ASSUME SnowInv, NEW t \in Thread, blocks[t] # <<>>,
         NEW d \in Dimension, NEW v, NEW top, Switches(t, d, v, top),
         BlockOK(top), TopOK(top, context'),
         top.requested = blocks[t][1].requested, top.before = blocks[t][1].before,
         top.alone = blocks[t][1].alone,
         d # "database" /\ "database" \in blocks[t][1].todo => "database" \in top.todo,
         UNCHANGED submitted
  PROVE  SnowInv'
<1>1. DOMAIN context' = Dimension
  BY DEF Switches, Use, SnowInv
<1>2. DOMAIN blocks' = Thread
  BY DEF Switches
<1>3. StackOK(blocks[t], context)
  BY DEF SnowInv
<1>4. StackOK(blocks'[t], context') /\ blocks'[t] # <<>>
  <2> DEFINE s == blocks[t]
             r == [i \in DOMAIN s |->
                     IF i = 1 THEN top
                     ELSE IF d # "database" THEN s[i] ELSE Aside(s[i])]
  <2>1. blocks'[t] = r
    BY DEF Switches
  <2>2. StackOK(s, context) /\ s # <<>>
    BY <1>3
  <2>3. /\ top.requested = s[1].requested /\ top.before = s[1].before /\ top.alone = s[1].alone
    OBVIOUS
  <2>4. /\ DOMAIN r = DOMAIN s /\ r = [i \in DOMAIN s |-> r[i]]
        /\ \/ \A i \in DOMAIN s \ {1} : r[i] = Aside(s[i])
           \/ /\ "database" \in s[1].todo => "database" \in top.todo
              /\ \A i \in DOMAIN s \ {1} : r[i] = s[i]
    OBVIOUS
  <2>6. r[1] = top
    <3>1. 1 \in DOMAIN s
      BY <2>2, StackProperties DEF StackOK
    <3> QED
      BY <3>1
  <2> HIDE DEF s, r
  <2>5. StackOK(r, context') /\ r # <<>>
    BY <2>2, <2>3, <2>4, <2>6, Switched
  <2> QED
    BY <2>1, <2>5, Zenon
<1>5. ASSUME NEW u \in Thread \ {t}
      PROVE StackOK(blocks'[u], context') /\ (blocks'[u] = <<>> <=> blocks[u] = <<>>)
  <2>1. StackOK(blocks[u], context)
    BY DEF SnowInv
  <2>2. blocks'[u] = [i \in DOMAIN blocks[u] |-> Aside(blocks[u][i])]
    BY DEF Switches
  <2> QED
    BY <2>1, <2>2, Crowded
<1>6. ASSUME NEW u \in Thread PROVE StackOK(blocks'[u], context')
  BY <1>4, <1>5
<1>7. ASSUME NEW u \in Thread \ {0}, blocks'[u] # <<>> PROVE submitted[u] = "running"
  BY <1>5, <1>7 DEF SnowInv
<1> QED
  BY <1>1, <1>2, <1>6, <1>7 DEF SnowInv

LEMMA InnermostOK ==
  ASSUME SnowInv, NEW t \in Thread, blocks[t] # <<>>
  PROVE  /\ Top(t) = blocks[t][1]
         /\ BlockOK(Top(t))
         /\ TopOK(Top(t), context)
<1>1. StackOK(blocks[t], context)
  BY DEF SnowInv
<1>2. Top(t) = blocks[t][1] /\ Len(blocks[t]) \in Nat \ {0}
  BY <1>1, Pop, StackProperties DEF StackOK, Top
<1> QED
  BY <1>1, <1>2 DEF StackOK

LEMMA EnterStep ==
  ASSUME SnowInv, NEW t \in Thread, Enter(t), ~Refused(t)
  PROVE  SnowInv'
<1>1. PICK d \in Dimension :
        /\ IsNext(d, Top(t).todo)
        /\ Switches(t, d, Top(t).requested[d], Noted(Top(t), d))
        /\ UNCHANGED <<raising, submitted, uses, refusals>>
  BY DEF Enter
<1>2. blocks[t] # <<>> /\ Top(t).phase = "enter"
  BY DEF Enter
<1> DEFINE b == Top(t)
           top == Noted(b, d)
           v == b.requested[d]
<1>3. b = blocks[t][1] /\ BlockOK(b) /\ TopOK(b, context) /\ b.phase = "enter" /\ IsNext(d, b.todo)
  BY <1>1, <1>2, InnermostOK
<1> HIDE DEF b
<1>4. /\ DOMAIN top = DOMAIN b /\ top.requested = b.requested /\ top.before = b.before
      /\ top.alone = b.alone /\ top.phase = b.phase /\ top.todo = b.todo \ {d}
      /\ top.restores = IF context[d] = None THEN b.restores
                        ELSE [e \in DOMAIN b.restores \cup {d} |->
                                IF e = d THEN context[d] ELSE b.restores[e]]
  BY <1>3 DEF Noted, BlockOK
<1> HIDE DEF top
<1>5. d \in b.todo /\ d \in Asked(b) /\ \A e \in b.todo \ {d} : Rank[d] < Rank[e]
  BY <1>3 DEF IsNext, BlockOK, Asked, Dimension, Rank
<1>6. b.alone => context[d] = Kept(b, d)
  <2> SUFFICES ASSUME b.alone PROVE context[d] = Kept(b, d)
    OBVIOUS
  <2>1. d = "schema" => "database" \notin b.todo
    BY <1>5 DEF Rank
  <2>2. d # "schema" => context[d] = b.before[d]
    BY <1>3, <1>5 DEF TopOK
  <2>3. d = "schema" => context[d] = IF "database" \in Asked(b) THEN Public ELSE b.before[d]
    BY <1>3, <1>5, <2>1 DEF TopOK
  <2> QED
    BY <2>2, <2>3 DEF Kept, ByDatabase
<1>7. Asked(top) = Asked(b) /\ \A e \in Dimension : Kept(top, e) = Kept(b, e)
  BY <1>4 DEF Asked, Kept, ByDatabase
<1>8. BlockOK(top)
  <2>1. \A e \in Asked(b) \ (b.todo \ {d}), f \in b.todo \ {d} : Rank[e] < Rank[f]
    BY <1>3, <1>5 DEF BlockOK
  <2>2. DOMAIN top.restores = IF context[d] = None THEN DOMAIN b.restores ELSE DOMAIN b.restores \cup {d}
    BY <1>4
  <2>3. DOMAIN top.restores \subseteq Asked(b) \ (b.todo \ {d})
    BY <1>3, <1>5, <2>2 DEF BlockOK
  <2>4. ASSUME b.alone
        PROVE /\ \A e \in DOMAIN top.restores : Kept(b, e) # None /\ top.restores[e] = Kept(b, e)
              /\ \A e \in Asked(b) \ (b.todo \ {d}) : Kept(b, e) # None => e \in DOMAIN top.restores
    <3>1. \A e \in DOMAIN b.restores : e # d /\ Kept(b, e) # None /\ b.restores[e] = Kept(b, e)
      BY <1>3, <1>5, <2>4 DEF BlockOK
    <3>2. \A e \in Asked(b) \ b.todo : Kept(b, e) # None => e \in DOMAIN b.restores
      BY <1>3, <2>4 DEF BlockOK
    <3> QED
      BY <1>4, <1>6, <2>2, <2>4, <3>1, <3>2
  <2>5. b.alone /\ "schema" \in Asked(b) /\ "database" \in DOMAIN top.restores => Kept(b, "schema") # None
    BY <1>7, <2>3, SnowflakeAssumption DEF Kept, ByDatabase
  <2>6. b.alone /\ "database" \in DOMAIN top.restores /\ "schema" \in Asked(b) \ (b.todo \ {d}) =>
          "schema" \in DOMAIN top.restores
    BY <2>4, <2>5
  <2>7. top.alone =>
          /\ \A e \in DOMAIN top.restores : Kept(top, e) # None /\ top.restores[e] = Kept(top, e)
          /\ \A e \in Asked(top) \ top.todo : Kept(top, e) # None => e \in DOMAIN top.restores
    BY <1>4, <1>7, <2>3, <2>4 DEF Asked
  <2>8. /\ top.todo \subseteq Asked(top)
        /\ top.phase = "enter" /\ top.alone \in BOOLEAN
        /\ DOMAIN top = {"requested", "before", "alone", "phase", "restores", "todo"}
    BY <1>3, <1>4, <1>7 DEF BlockOK
  <2> QED
    BY <1>4, <1>7, <2>1, <2>3, <2>6, <2>7, <2>8 DEF BlockOK
<1>9. TopOK(top, context')
  <2> DEFINE done == Asked(b) \ b.todo
  <2>1. context' = Use(d, v) /\ DOMAIN context = Dimension
    BY <1>1 DEF Switches, SnowInv, b, top
  <2>2. Asked(top) \ top.todo = done \cup {d}
    BY <1>4, <1>5, <1>7
  <2>3. \A e \in done : e # d /\ Rank[e] < Rank[d]
    BY <1>3, <1>5 DEF BlockOK
  <2>4. d = "database" => "schema" \notin done
    BY <2>3 DEF Rank
  <2>5. ASSUME b.alone, NEW e \in Dimension
        PROVE context'[e] = IF e \in done \cup {d} THEN b.requested[e]
                            ELSE IF e = "schema" /\ "database" \in done \cup {d} THEN Public
                            ELSE b.before[e]
    <3>1. context[e] = IF e \in done THEN b.requested[e]
                       ELSE IF e = "schema" /\ "database" \in done THEN Public
                       ELSE b.before[e]
      BY <1>3, <2>5 DEF TopOK
    <3>2. CASE d = "database"
      <4>1. context'[e] = IF e = "schema" THEN Public ELSE IF e = d THEN v ELSE context[e]
        BY <2>1, <3>2 DEF Use, Dimension
      <4> QED
        BY <2>4, <3>1, <3>2, <4>1
    <3>3. CASE d # "database"
      <4>1. context'[e] = IF e = d THEN v ELSE context[e]
        BY <2>1, <3>3 DEF Use
      <4> QED
        BY <3>1, <3>3, <4>1
    <3> QED
      BY <3>2, <3>3
  <2> QED
    BY <1>3, <1>4, <2>2, <2>5 DEF TopOK
<1>10. d # "database" /\ "database" \in b.todo => "database" \in top.todo
  BY <1>4
<1> QED
  BY <1>1, <1>2, <1>3, <1>4, <1>8, <1>9, <1>10, SwitchStep DEF top, b

LEMMA RestoreStep ==
  ASSUME SnowInv, NEW t \in Thread, Restore(t), ~Refused(t)
  PROVE  SnowInv'
<1>1. PICK d \in Dimension :
        /\ IsNext(d, DOMAIN Top(t).restores)
        /\ Switches(t, d, Top(t).restores[d], Restored(Top(t), d))
        /\ UNCHANGED <<raising, submitted, uses, refusals>>
  BY DEF Restore
<1>2. blocks[t] # <<>> /\ Top(t).phase = "exit"
  BY DEF Restore
<1> DEFINE b == Top(t)
           top == Restored(b, d)
<1>3. b = blocks[t][1] /\ BlockOK(b) /\ TopOK(b, context) /\ b.phase = "exit" /\ IsNext(d, DOMAIN b.restores)
  BY <1>1, <1>2, InnermostOK
<1> HIDE DEF b
<1>4. /\ DOMAIN top = DOMAIN b /\ top.requested = b.requested /\ top.before = b.before
      /\ top.alone = b.alone /\ top.phase = "exit" /\ top.todo = b.todo
      /\ DOMAIN top.restores = DOMAIN b.restores \ {d}
      /\ \A e \in DOMAIN b.restores \ {d} : top.restores[e] = b.restores[e]
  BY <1>3 DEF Restored, BlockOK
<1> HIDE DEF top
<1>5. Asked(top) = Asked(b) /\ \A e \in Dimension : Kept(top, e) = Kept(b, e) /\ Final(top, e) = Final(b, e)
  BY <1>4 DEF Asked, Kept, Final, ByDatabase
<1>6. b.todo = {} /\ d \in DOMAIN b.restores /\ DOMAIN b.restores \subseteq Asked(b)
  BY <1>3 DEF BlockOK, IsNext
<1>7. d = "schema" => "database" \notin DOMAIN b.restores
  BY <1>3 DEF IsNext, Rank
<1>8. BlockOK(top)
  <2>1. top.alone => \A e \in DOMAIN top.restores : Kept(top, e) # None /\ top.restores[e] = Kept(top, e)
    BY <1>3, <1>4, <1>5, <1>6 DEF BlockOK, Asked
  <2>2. top.alone /\ "database" \in DOMAIN top.restores /\ "schema" \in Asked(top) \ top.todo =>
          "schema" \in DOMAIN top.restores
    BY <1>3, <1>4, <1>5, <1>7 DEF BlockOK
  <2>3. /\ top.alone \in BOOLEAN /\ top.todo = {} /\ DOMAIN top.restores \subseteq Asked(top) \ top.todo
        /\ DOMAIN top = {"requested", "before", "alone", "phase", "restores", "todo"}
    BY <1>3, <1>4, <1>5, <1>6 DEF BlockOK
  <2> QED
    BY <1>4, <2>1, <2>2, <2>3 DEF BlockOK
<1>9. TopOK(top, context')
  <2> SUFFICES ASSUME b.alone
               PROVE /\ \A e \in Asked(b) \ (DOMAIN b.restores \ {d}) : context'[e] = Final(b, e)
                     /\ \A e \in Dimension \ Asked(b) : Kept(b, e) # None => context'[e] = Kept(b, e)
    <3>1. Asked(b) \subseteq Dimension
      BY DEF Asked
    <3>2. \A e \in Asked(top) \ DOMAIN top.restores :
            e \in Asked(b) \ (DOMAIN b.restores \ {d}) /\ Final(top, e) = Final(b, e)
      BY <1>4, <1>5, <3>1
    <3>3. \A e \in Dimension \ Asked(top) : e \in Dimension \ Asked(b) /\ Kept(top, e) = Kept(b, e)
      BY <1>5
    <3> QED
      BY <1>4, <3>2, <3>3 DEF TopOK
  <2>1. context' = Use(d, b.restores[d]) /\ DOMAIN context = Dimension
    BY <1>1 DEF Switches, SnowInv, b, top
  <2>2. b.restores[d] = Final(b, d)
    BY <1>1, <1>3, <1>6, <2>1 DEF BlockOK, Final, Kept
  <2>3. /\ \A e \in Asked(b) \ DOMAIN b.restores : context[e] = Final(b, e)
        /\ \A e \in Dimension \ Asked(b) : Kept(b, e) # None => context[e] = Kept(b, e)
    BY <1>3 DEF TopOK
  <2>4. CASE d = "database"
    <3>1. \A e \in Dimension : context'[e] = IF e = "schema" THEN Public
                                             ELSE IF e = d THEN b.restores[d] ELSE context[e]
      BY <2>1, <2>4 DEF Use, Dimension
    <3>2. "schema" \in Asked(b) => "schema" \in DOMAIN b.restores
      BY <1>3, <1>6, <2>4 DEF BlockOK
    <3>3. ASSUME NEW e \in Asked(b) \ (DOMAIN b.restores \ {d}) PROVE context'[e] = Final(b, e)
      <4>0. e \in Dimension
        BY DEF Asked
      <4>1. CASE e = d
        BY <2>2, <2>4, <3>1, <4>0, <4>1
      <4>2. CASE e # d
        <5>1. e \in Asked(b) \ DOMAIN b.restores /\ e # "schema"
          BY <3>2, <4>2
        <5>2. context'[e] = context[e]
          BY <3>1, <4>0, <4>2, <5>1
        <5> QED
          BY <2>3, <5>1, <5>2
      <4> QED
        BY <4>1, <4>2
    <3>4. ASSUME NEW e \in Dimension \ Asked(b), Kept(b, e) # None PROVE context'[e] = Kept(b, e)
      <4>1. e # d /\ "database" \in Asked(b)
        BY <1>6, <2>4
      <4>2. CASE e = "schema"
        <5>1. Kept(b, e) = Public
          BY <4>1, <4>2 DEF Kept, ByDatabase
        <5> QED
          BY <3>1, <4>2, <5>1
      <4>3. CASE e # "schema"
        <5>1. context'[e] = context[e]
          BY <3>1, <4>1, <4>3
        <5> QED
          BY <2>3, <3>4, <5>1
      <4> QED
        BY <4>2, <4>3
    <3> QED
      BY <3>3, <3>4
  <2>5. CASE d # "database"
    <3>1. \A e \in Dimension : context'[e] = IF e = d THEN b.restores[d] ELSE context[e]
      BY <2>1, <2>5 DEF Use
    <3> QED
      BY <1>6, <2>2, <2>3, <3>1 DEF Asked
  <2> QED
    BY <2>4, <2>5
<1> QED
  BY <1>1, <1>2, <1>3, <1>4, <1>8, <1>9, SwitchStep DEF top, b

LEMMA SnowNext == SnowInv /\ [SnowflakeNext]_snowflakeVars => SnowInv'
<1> SUFFICES ASSUME SnowInv, [SnowflakeNext]_snowflakeVars PROVE SnowInv'
  OBVIOUS
<1>0. ASSUME NEW t \in Thread, blocks[t] # <<>>, Refused(t) PROVE SnowInv'
  <2> DEFINE s == [i \in DOMAIN blocks[t] |-> Aside(blocks[t][i])]
  <2>1. StackOK(blocks[t], context)
    BY DEF SnowInv
  <2>2. StackOK(s, context) /\ s # <<>>
    BY <1>0, <2>1, Crowded
  <2>3. Len(s) >= 2 => ~s[2].alone
    <3>1. DOMAIN s = 1 .. Len(s) /\ Len(s) \in Nat
      BY <2>2, StackProperties DEF StackOK
    <3>2. ASSUME 2 \in DOMAIN s PROVE ~s[2].alone
      <4>1. 2 \in DOMAIN blocks[t] /\ s[2] = Aside(blocks[t][2])
        BY <3>2
      <4>2. BlockOK(blocks[t][2])
        BY <2>1, <4>1, StackProperties DEF StackOK
      <4> QED
        BY <4>1, <4>2, NotAlone
    <3> HIDE DEF s
    <3> QED
      BY <3>1, <3>2
  <2>4. blocks' = [blocks EXCEPT ![t] = Tail(s)] /\ UNCHANGED <<context, submitted>>
    BY <1>0 DEF Refused
  <2>5. t # 0 => submitted[t] = "running"
    BY <1>0 DEF SnowInv
  <2> HIDE DEF s
  <2>6. StackOK(Tail(s), context)
    BY <2>2, <2>3, Popped
  <2> QED
    BY <2>4, <2>5, <2>6, StackStep
<1>1. ASSUME NEW t \in Thread, NEW r \in Blocks, Using(t, r) PROVE SnowInv'
  <2> DEFINE b == [requested |-> r, before |-> context, alone |-> TRUE,
                   phase |-> "enter", restores |-> <<>>,
                   todo |-> {d \in Dimension : r[d] # None}]
             s == <<b>> \o blocks[t]
  <2>1. blocks[t] # <<>> => blocks[t][1].phase = "body"
    BY <1>1, InnermostOK DEF Using, InBody
  <2>2. StackOK(blocks[t], context)
    BY DEF SnowInv
  <2>3. StackOK(s, context)
    BY <2>1, <2>2, Entered
  <2>4. /\ blocks' = [blocks EXCEPT ![t] = s]
        /\ UNCHANGED <<context, submitted>>
        /\ t # 0 => submitted[t] = "running"
    BY <1>1 DEF Using, InBody
  <2> HIDE DEF s
  <2> QED
    BY <2>3, <2>4, StackStep
<1>2. ASSUME NEW t \in Thread, Enter(t) PROVE SnowInv'
  <2>1. blocks[t] # <<>>
    BY <1>2 DEF Enter
  <2>2. CASE Refused(t)
    BY <1>0, <2>1, <2>2
  <2>3. CASE ~Refused(t)
    BY <1>2, <2>3, EnterStep
  <2> QED
    BY <2>2, <2>3
<1>3. ASSUME NEW t \in Thread, Restore(t) PROVE SnowInv'
  <2>1. blocks[t] # <<>>
    BY <1>3 DEF Restore
  <2>2. CASE Refused(t)
    BY <1>0, <2>1, <2>2
  <2>3. CASE ~Refused(t)
    BY <1>3, <2>3, RestoreStep
  <2> QED
    BY <2>2, <2>3
<1>4. ASSUME NEW t \in Thread, NEW onward,
             blocks[t] # <<>>, blocks' = [blocks EXCEPT ![t][1].phase = onward],
             \/ Top(t).phase = "enter" /\ Top(t).todo = {} /\ onward = "body"
             \/ Top(t).phase = "body" /\ onward = "exit",
             UNCHANGED <<context, submitted>>
      PROVE  SnowInv'
  <2> DEFINE s == [blocks[t] EXCEPT ![1].phase = onward]
  <2>1. StackOK(blocks[t], context) /\ Top(t) = blocks[t][1]
    BY <1>4, InnermostOK DEF SnowInv
  <2>2. StackOK(s, context)
    BY <1>4, <2>1, Moved
  <2>3. blocks' = [blocks EXCEPT ![t] = s]
    BY <1>4
  <2>4. t # 0 => submitted[t] = "running"
    BY <1>4 DEF SnowInv
  <2> HIDE DEF s
  <2> QED
    BY <1>4, <2>2, <2>3, <2>4, StackStep
<1>5. ASSUME NEW t \in Thread, Yield(t) PROVE SnowInv'
  BY <1>4, <1>5 DEF Yield
<1>6. ASSUME NEW t \in Thread, NEW fails \in BOOLEAN, Leave(t, fails) PROVE SnowInv'
  BY <1>4, <1>6 DEF Leave, InBody
<1>7. ASSUME NEW t \in Thread, Left(t) PROVE SnowInv'
  <2>1. StackOK(blocks[t], context) /\ Top(t) = blocks[t][1]
    BY <1>7, InnermostOK DEF SnowInv, Left
  <2>2. StackOK(Tail(blocks[t]), context)
    BY <1>7, <2>1, Popped DEF Left
  <2>3. t # 0 => submitted[t] = "running"
    BY <1>7 DEF SnowInv, Left
  <2> QED
    BY <1>7, <2>2, <2>3, StackStep DEF Left
<1>8. CASE Submit
  BY <1>8, SnowflakeAssumption DEF Submit, SnowInv, Thread
<1>9. CASE Gather
  <2>1. \A t \in Thread \ {0} : blocks[t] = <<>>
    BY <1>9, SnowflakeAssumption DEF Gather, SnowInv, Thread
  <2> QED
    BY <1>9, <2>1 DEF Gather, SnowInv
<1>10. CASE Handle
  BY <1>10 DEF Handle, SnowInv
<1>11. ASSUME NEW i \in 1 .. Tasks, EndTask(i) PROVE SnowInv'
  BY <1>11 DEF EndTask, SnowInv
<1>12. ASSUME NEW config \in Config \cup {ToConfig(<<>>)}, NEW fresh \in BOOLEAN, Open(config, fresh)
       PROVE  SnowInv'
  <2>1. \A t \in Thread : blocks[t] = <<>>
    BY <1>12, SnowflakeAssumption DEF Open, InBody, SnowInv, Thread
  <2>2. DOMAIN context' = Dimension
    BY <1>12 DEF Open, Begins, SnowInv
  <2>3. \A t \in Thread : StackOK(blocks[t], context')
    BY <2>1, EmptyStackOK
  <2> QED
    BY <1>12, <2>2, <2>3 DEF Open, SnowInv
<1>13. CASE UNCHANGED snowflakeVars
  BY <1>13 DEF snowflakeVars, SnowInv
<1> QED
  BY <1>1, <1>2, <1>3, <1>5, <1>6, <1>7, <1>8, <1>9, <1>10, <1>11, <1>12, <1>13 DEF SnowflakeNext

(* "On exit every recorded value is restored" (snowflake.py, using), with   *)
(* the exceptions that the property names: in however many threads and     *)
(* tasks blocks are entered, nested, left and refused, and whichever       *)
(* configurations they ask for, a block that is alone in switching has     *)
(* what it asked for in its body and leaves the role, the warehouse and    *)
(* the database as it found them.  The schema it leaves as found only if   *)
(* it asked for no database: otherwise it leaves PUBLIC.                   *)
THEOREM UsingIsUndone == SnowflakeSpec => []UsingRestores
<1>1. SnowflakeInit => SnowInv
  BY SnowInit
<1>2. SnowInv /\ [SnowflakeNext]_snowflakeVars => SnowInv'
  BY SnowNext
<1>3. SnowInv => UsingRestores
  <2> SUFFICES ASSUME SnowInv, NEW t \in Thread, blocks[t] # <<>>, Top(t).alone,
                      NEW d \in Dimension
               PROVE  LET b == Top(t)
                          by(e) == e = "schema" /\ b.requested.database # None
                          kept(e) == IF by(e) THEN Public ELSE b.before[e] IN
                      /\ b.phase = "body" /\ b.requested[d] # None => context[d] = b.requested[d]
                      /\ b.phase = "exit" /\ DOMAIN b.restores = {} /\ b.requested[d] # None =>
                           context[d] = IF kept(d) = None THEN b.requested[d] ELSE kept(d)
                      /\ b.phase # "enter" /\ b.requested[d] = None /\ kept(d) # None =>
                           context[d] = kept(d)
    BY DEF UsingRestores
  <2>1. TopOK(Top(t), context)
    BY InnermostOK
  <2>2. ByDatabase(Top(t), d) <=> d = "schema" /\ Top(t).requested.database # None
    BY DEF ByDatabase, Asked, Dimension
  <2>3. d \in Asked(Top(t)) <=> Top(t).requested[d] # None
    BY DEF Asked
  <2> QED
    BY <2>1, <2>2, <2>3 DEF TopOK, Final, Kept
<1> QED
  BY <1>1, <1>2, <1>3, PTL DEF SnowflakeSpec

-----------------------------------------------------------------------------
(* Logging: the handlers of the decorated calls.                           *)

Messages == {"entry", "outcome"}

\* Of one decorated call: until its end its handlers are on the logger once they are
\* attached, and what it sent they all got, unless another call shared one.
FrameOK(x, attached) ==
  /\ DOMAIN x = {"f", "phase", "todo", "sent", "got", "alone"}
  /\ x.f.handlers \subseteq Handler
  /\ x.todo \subseteq x.f.handlers
  /\ x.phase \in {"attach", "entry", "body", "detach"}
  /\ x.alone =>
       /\ x.phase = "attach" => x.f.handlers \ x.todo \subseteq attached
       /\ x.phase \in {"entry", "body"} => x.f.handlers \subseteq attached
       /\ \A h \in x.f.handlers, m \in x.sent : <<h, m>> \in x.got

\* The call will take h away.
Holds(x, h) == h \in x.f.handlers /\ (x.phase = "detach" => h \in x.todo)

Called == {c \in LogThread \X Nat : c[2] \in DOMAIN frames[c[1]]}
At(c) == frames[c[1]][c[2]]

\* Calls that are alone share no handler with any other.
Apart == \A c, d \in Called : c # d /\ At(c).alone => ~Shares(At(c).f, At(d).f)

\* Inductive: whose a handler on the logger is must be known of each call on its own,
\* or the end of one would say nothing of the handlers of the others.
LogInv ==
  /\ rootLevel \in Nat
  /\ logger \in Logger \cup {None}
  /\ withs # <<>> => logger \in Logger
  /\ DOMAIN frames = LogThread
  /\ \A t \in LogThread : IsStack(frames[t])
  /\ Called # {} => logger \in Logger
  /\ \A c \in Called : FrameOK(At(c), logger.handlers)
  /\ Apart
  /\ logger \in Logger => \A h \in logger.handlers : \E c \in Called : Holds(At(c), h)

LEMMA TopFrame ==
  ASSUME LogInv, NEW t \in LogThread, frames[t] # <<>>
  PROVE  /\ <<t, 1>> \in Called /\ At(<<t, 1>>) = frames[t][1] /\ Top2(t) = frames[t][1]
         /\ FrameOK(Top2(t), logger.handlers) /\ logger \in Logger
         /\ Len(frames[t]) \in Nat \ {0} /\ DOMAIN frames[t] = 1 .. Len(frames[t])
         /\ 1 \in DOMAIN frames[t] /\ DOMAIN frames = LogThread
<1>1. IsStack(frames[t])
  BY DEF LogInv
<1>2. /\ Len(frames[t]) \in Nat \ {0} /\ DOMAIN frames[t] = 1 .. Len(frames[t])
      /\ Top2(t) = frames[t][1]
  BY <1>1, Pop, StackProperties DEF Top2
<1>3. <<t, 1>> \in Called /\ At(<<t, 1>>) = frames[t][1]
  BY <1>2 DEF Called, At
<1> QED
  BY <1>2, <1>3 DEF LogInv

(* The innermost call of t goes on: it takes no handler away but its own. *)
LEMMA FrameStep ==
  ASSUME LogInv, NEW t \in LogThread, frames[t] # <<>>, NEW x,
         frames' = [frames EXCEPT ![t] = [@ EXCEPT ![1] = x]],
         logger' \in Logger, UNCHANGED <<rootLevel, withs>>,
         FrameOK(x, logger'.handlers),
         x.f = Top2(t).f, x.alone = Top2(t).alone,
         \A h \in logger.handlers \ logger'.handlers : h \in x.f.handlers,
         \A h \in logger'.handlers : h \in logger.handlers \/ Holds(x, h),
         \A h \in logger'.handlers : Holds(Top2(t), h) => Holds(x, h)
  PROVE  LogInv'
<1> DEFINE top == <<t, 1>>
<1>1. /\ top \in Called /\ At(top) = Top2(t) /\ Top2(t) = frames[t][1] /\ logger \in Logger
      /\ 1 \in DOMAIN frames[t]
  BY TopFrame
<1>2. DOMAIN frames = LogThread /\ IsStack(frames[t])
  BY DEF LogInv
<1>3. /\ frames'[t] = [i \in DOMAIN frames[t] |-> IF i = 1 THEN x ELSE frames[t][i]]
      /\ \A u \in LogThread \ {t} : frames'[u] = frames[u]
      /\ DOMAIN frames' = LogThread
  BY <1>2 DEF IsStack
<1>4. \A u \in LogThread : DOMAIN frames'[u] = DOMAIN frames[u]
  BY <1>3
<1>5. Called' = Called
  BY <1>4 DEF Called
<1>6. At(top)' = x
  BY <1>1, <1>3 DEF At
<1>7. ASSUME NEW c \in Called, c # top PROVE At(c)' = At(c)
  <2>1. PICK u \in LogThread, i \in Nat : c = <<u, i>> /\ i \in DOMAIN frames[u]
    BY DEF Called
  <2>2. u # t \/ i # 1
    BY <1>7, <2>1
  <2>3. frames'[u][i] = frames[u][i]
    BY <1>3, <2>1, <2>2
  <2> QED
    BY <2>1, <2>3 DEF At
<1>8. ASSUME NEW u \in LogThread PROVE IsStack(frames'[u])
  <2>1. CASE u = t
    <3>1. DOMAIN frames'[t] = DOMAIN frames[t] /\ frames'[t] = [i \in DOMAIN frames[t] |-> frames'[t][i]]
      BY <1>3
    <3> QED
      BY <1>2, <2>1, <3>1, Mapped
  <2>2. CASE u # t
    BY <1>3, <2>2 DEF LogInv
  <2> QED
    BY <2>1, <2>2
<1>9. ASSUME NEW c \in Called PROVE FrameOK(At(c)', logger'.handlers)
  <2>1. CASE c = top
    BY <1>6, <2>1
  <2>2. CASE c # top
    <3>1. FrameOK(At(c), logger.handlers) /\ At(c)' = At(c)
      BY <1>7, <2>2 DEF LogInv
    <3>2. At(c).alone => At(c).f.handlers \cap x.f.handlers = {}
      BY <1>1, <2>2 DEF LogInv, Apart, Shares
    <3>3. At(c).alone => \A h \in At(c).f.handlers : h \in logger.handlers => h \in logger'.handlers
      BY <3>2
    <3> QED
      BY <3>1, <3>3 DEF FrameOK
  <2> QED
    BY <2>1, <2>2
<1>10. Apart'
  <2>1. \A c \in Called : At(c)'.f = At(c).f /\ At(c)'.alone = At(c).alone
    BY <1>1, <1>6, <1>7
  <2> QED
    BY <1>5, <2>1 DEF LogInv, Apart, Shares
<1>11. ASSUME NEW h \in logger'.handlers PROVE \E c \in Called : Holds(At(c)', h)
  <2>1. CASE Holds(x, h)
    BY <1>1, <1>6, <2>1
  <2>2. CASE ~Holds(x, h)
    <3>1. h \in logger.handlers
      BY <2>2
    <3>2. PICK c \in Called : Holds(At(c), h)
      BY <1>1, <3>1 DEF LogInv
    <3>3. c # top
      BY <1>1, <2>2, <3>2
    <3> QED
      BY <1>7, <3>2, <3>3
  <2> QED
    BY <2>1, <2>2
<1> QED
  BY <1>3, <1>5, <1>8, <1>9, <1>10, <1>11 DEF LogInv

(* The innermost call of t ends, once it has taken its handlers away. *)
LEMMA FrameEnds ==
  ASSUME LogInv, NEW t \in LogThread, frames[t] # <<>>,
         Top2(t).phase = "detach", Top2(t).todo = {},
         frames' = [frames EXCEPT ![t] = Tail(@)],
         UNCHANGED <<logger, rootLevel, withs>>
  PROVE  LogInv'
<1> DEFINE out(c) == IF c[1] = t THEN <<t, c[2] + 1>> ELSE c
           in(c) == IF c[1] = t THEN <<t, c[2] - 1>> ELSE c
           top == <<t, 1>>
<1>1. /\ top \in Called /\ At(top) = Top2(t) /\ Top2(t) = frames[t][1] /\ logger \in Logger
      /\ Len(frames[t]) \in Nat \ {0} /\ DOMAIN frames[t] = 1 .. Len(frames[t])
  BY TopFrame
<1>2. DOMAIN frames = LogThread /\ IsStack(frames[t])
  BY DEF LogInv
<1>3. /\ frames'[t] = Tail(frames[t])
      /\ \A u \in LogThread \ {t} : frames'[u] = frames[u]
      /\ DOMAIN frames' = LogThread
  BY <1>2
<1>4. /\ IsStack(frames'[t]) /\ Len(frames'[t]) = Len(frames[t]) - 1
      /\ \A i \in 1 .. Len(frames[t]) - 1 : frames'[t][i] = frames[t][i + 1]
  BY <1>2, <1>3, Pop
<1>5. DOMAIN frames'[t] = 1 .. Len(frames[t]) - 1
  BY <1>1, <1>4, StackProperties
<1>6. ASSUME NEW c \in Called' PROVE out(c) \in Called \ {top} /\ At(c)' = At(out(c))
  <2>1. PICK u \in LogThread, i \in Nat : c = <<u, i>> /\ i \in DOMAIN frames'[u]
    BY DEF Called
  <2>2. CASE u = t
    BY <1>1, <1>4, <1>5, <2>1, <2>2 DEF Called, At
  <2>3. CASE u # t
    BY <1>3, <2>1, <2>3 DEF Called, At
  <2> QED
    BY <2>2, <2>3
<1>7. ASSUME NEW c \in Called \ {top} PROVE in(c) \in Called' /\ At(in(c))' = At(c)
  <2>1. PICK u \in LogThread, i \in Nat : c = <<u, i>> /\ i \in DOMAIN frames[u]
    BY DEF Called
  <2>2. CASE u = t
    <3>1. i \in 2 .. Len(frames[t])
      BY <1>1, <2>1, <2>2
    <3>2. i - 1 \in 1 .. Len(frames[t]) - 1 /\ i - 1 \in Nat
      BY <3>1
    <3>3. frames'[t][i - 1] = frames[t][i]
      BY <1>1, <1>4, <3>1, <3>2
    <3> QED
      BY <1>5, <2>1, <2>2, <3>2, <3>3 DEF Called, At
  <2>3. CASE u # t
    BY <1>3, <2>1, <2>3 DEF Called, At
  <2> QED
    BY <2>2, <2>3
<1>8. ASSUME NEW u \in LogThread PROVE IsStack(frames'[u])
  BY <1>3, <1>4 DEF LogInv
<1>9. ASSUME NEW c \in Called', NEW d \in Called', c # d PROVE out(c) # out(d)
  <2>1. PICK u \in LogThread, i \in Nat : c = <<u, i>>
    BY DEF Called
  <2>2. PICK v \in LogThread, j \in Nat : d = <<v, j>>
    BY DEF Called
  <2> QED
    BY <1>9, <2>1, <2>2
<1> HIDE DEF out, in
<1>10. ASSUME NEW c \in Called' PROVE FrameOK(At(c)', logger'.handlers)
  BY <1>6 DEF LogInv
<1>11. Apart'
  <2>1. ASSUME NEW c \in Called', NEW d \in Called', c # d, At(c)'.alone
        PROVE  ~Shares(At(c)'.f, At(d)'.f)
    BY <1>6, <1>9, <2>1 DEF LogInv, Apart
  <2> QED
    BY <2>1 DEF Apart, Shares
<1>12. ASSUME NEW h \in logger.handlers PROVE \E c \in Called' : Holds(At(c)', h)
  <2>1. PICK c \in Called : Holds(At(c), h)
    BY <1>1 DEF LogInv
  <2>2. c # top
    BY <1>1, <2>1 DEF Holds
  <2> QED
    BY <1>7, <2>1, <2>2
<1> QED
  BY <1>1, <1>3, <1>8, <1>10, <1>11, <1>12 DEF LogInv

LEMMA LoggedHandlers == ASSUME NEW f \in Logged PROVE f.handlers \subseteq Handler
BY LoggingAssumption DEF Logged, Log, LogClass, LogFunc

LEMMA CloneType == Clone \in Logger
BY DEF Clone, Logger

(* A decorated call begins: the calls that it shares a handler with are not alone. *)
LEMMA FrameBegins ==
  ASSUME LogInv, NEW t \in LogThread, NEW f \in Logged, CallLogged(t, f)
  PROVE  LogInv'
<1> DEFINE Meets(g) == Shares(g, f)
           new == [f |-> f, phase |-> "attach", todo |-> f.handlers,
                   sent |-> {}, got |-> {},
                   alone |-> ~\E u \in LogThread : \E i \in DOMAIN frames[u] : Shares(frames[u][i].f, f)]
           Met(x) == IF Shares(x.f, f) THEN [x EXCEPT !.alone = FALSE] ELSE x
           met == [u \in LogThread |-> [i \in DOMAIN frames[u] |-> Met(frames[u][i])]]
           out(c) == IF c[1] = t THEN <<t, c[2] - 1>> ELSE c
           in(c) == IF c[1] = t THEN <<t, c[2] + 1>> ELSE c
           top == <<t, 1>>
<1>1. /\ logger' = GetLogger
      /\ frames' = [met EXCEPT ![t] = <<new>> \o @]
      /\ UNCHANGED <<rootLevel, withs>>
  BY DEF CallLogged
<1>2. logger' \in Logger /\ (logger \in Logger => logger' = logger) /\ (logger \notin Logger => logger'.handlers = {})
  BY <1>1, CloneType, LoggingAssumption DEF GetLogger, LogInv, Clone
<1>3. ASSUME NEW u \in LogThread
      PROVE /\ IsStack(met[u]) /\ Len(met[u]) = Len(frames[u]) /\ Len(frames[u]) \in Nat
            /\ DOMAIN frames[u] = 1 .. Len(frames[u])
            /\ \A i \in DOMAIN frames[u] : met[u][i] = Met(frames[u][i])
  <2> DEFINE r == met[u]
  <2>1. IsStack(frames[u])
    BY DEF LogInv
  <2>2. DOMAIN r = DOMAIN frames[u] /\ r = [i \in DOMAIN frames[u] |-> r[i]]
    OBVIOUS
  <2>3. \A i \in DOMAIN frames[u] : r[i] = Met(frames[u][i])
    OBVIOUS
  <2> HIDE DEF r
  <2>4. IsStack(r) /\ Len(r) = Len(frames[u])
    BY <2>1, <2>2, Mapped
  <2> QED
    BY <2>1, <2>3, <2>4, StackProperties DEF r
<1>17. /\ new.f = f
       /\ new.alone => \A u \in LogThread : \A i \in DOMAIN frames[u] : ~Shares(frames[u][i].f, f)
  OBVIOUS
<1> HIDE DEF new
<1>4. /\ frames'[t] = <<new>> \o met[t]
      /\ \A u \in LogThread \ {t} : frames'[u] = met[u]
      /\ DOMAIN frames' = LogThread
  BY <1>1
<1> HIDE DEF met
<1>5. /\ IsStack(frames'[t]) /\ Len(frames'[t]) = Len(frames[t]) + 1 /\ frames'[t][1] = new
      /\ \A i \in 2 .. Len(frames[t]) + 1 : frames'[t][i] = met[t][i - 1]
  BY <1>3, <1>4, Push
<1>6. DOMAIN frames'[t] = 1 .. Len(frames[t]) + 1
  BY <1>5, StackProperties
<1> HIDE DEF Met
<1>7. top \in Called' /\ At(top)' = new
  BY <1>3, <1>5, <1>6 DEF Called, At
<1>8. ASSUME NEW c \in Called', c # top PROVE out(c) \in Called /\ At(c)' = Met(At(out(c)))
  <2>1. PICK u \in LogThread, i \in Nat : c = <<u, i>> /\ i \in DOMAIN frames'[u]
    BY DEF Called
  <2>2. CASE u = t
    <3>1. i \in 2 .. Len(frames[t]) + 1
      BY <1>3, <1>6, <1>8, <2>1, <2>2
    <3>2. i - 1 \in 1 .. Len(frames[t]) /\ i - 1 \in Nat
      BY <1>3, <3>1
    <3>3. frames'[t][i] = Met(frames[t][i - 1])
      BY <1>3, <1>5, <3>1, <3>2
    <3> QED
      BY <1>3, <2>1, <2>2, <3>2, <3>3 DEF Called, At
  <2>3. CASE u # t
    <3>1. frames'[u] = met[u] /\ DOMAIN met[u] = DOMAIN frames[u]
      BY <1>3, <1>4, <2>3, StackProperties
    <3> QED
      BY <1>3, <2>1, <2>3, <3>1 DEF Called, At
  <2> QED
    BY <2>2, <2>3
<1>9. ASSUME NEW c \in Called PROVE in(c) \in Called' /\ At(in(c))' = Met(At(c))
  <2>1. PICK u \in LogThread, i \in Nat : c = <<u, i>> /\ i \in DOMAIN frames[u]
    BY DEF Called
  <2>2. CASE u = t
    <3>1. i + 1 \in 2 .. Len(frames[t]) + 1 /\ i + 1 \in Nat /\ (i + 1) - 1 = i
      BY <1>3, <2>1, <2>2
    <3>2. frames'[t][i + 1] = Met(frames[t][i])
      BY <1>3, <1>5, <2>1, <2>2, <3>1
    <3> QED
      BY <1>3, <1>6, <2>1, <2>2, <3>1, <3>2 DEF Called, At
  <2>3. CASE u # t
    <3>1. frames'[u] = met[u] /\ DOMAIN met[u] = DOMAIN frames[u]
      BY <1>3, <1>4, <2>3, StackProperties
    <3> QED
      BY <1>3, <2>1, <2>3, <3>1 DEF Called, At
  <2> QED
    BY <2>2, <2>3
<1>10. ASSUME NEW u \in LogThread PROVE IsStack(frames'[u])
  BY <1>3, <1>4, <1>5
<1>11. ASSUME NEW c \in Called', NEW d \in Called', c # d, c # top, d # top PROVE out(c) # out(d)
  <2>1. PICK u \in LogThread, i \in Nat : c = <<u, i>>
    BY DEF Called
  <2>2. PICK v \in LogThread, j \in Nat : d = <<v, j>>
    BY DEF Called
  <2> QED
    BY <1>11, <2>1, <2>2
<1> HIDE DEF out, in
<1>12. \A c \in Called : FrameOK(At(c), logger.handlers) /\ logger \in Logger /\ logger' = logger
  BY <1>2 DEF LogInv
<1>13. ASSUME NEW x, NEW attached, FrameOK(x, attached)
       PROVE /\ FrameOK(Met(x), attached) /\ Met(x).f = x.f
             /\ Met(x).alone => x.alone /\ ~Shares(x.f, f)
             /\ \A h : Holds(x, h) => Holds(Met(x), h)
  BY <1>13 DEF Met, FrameOK, Holds
<1>14. ASSUME NEW c \in Called' PROVE FrameOK(At(c)', logger'.handlers)
  <2>1. CASE c = top
    BY <1>7, <2>1, LoggedHandlers DEF new, FrameOK
  <2>2. CASE c # top
    BY <1>8, <1>12, <1>13, <2>2
  <2> QED
    BY <2>1, <2>2
<1>15. Apart'
  <2>1. ASSUME NEW c \in Called', NEW d \in Called', c # d, At(c)'.alone
        PROVE  ~Shares(At(c)'.f, At(d)'.f)
    <3>1. CASE c # top /\ d # top
      <4> DEFINE x == At(out(c))
                 y == At(out(d))
      <4>1. /\ At(c)' = Met(x) /\ FrameOK(x, logger.handlers)
            /\ At(d)' = Met(y) /\ FrameOK(y, logger.handlers)
            /\ out(c) \in Called /\ out(d) \in Called /\ out(c) # out(d)
        BY <1>8, <1>11, <1>12, <2>1, <3>1
      <4>2. x.alone => ~Shares(x.f, y.f)
        BY <4>1 DEF LogInv, Apart
      <4> HIDE DEF x, y
      <4>3. Met(x).f = x.f /\ Met(y).f = y.f /\ (Met(x).alone => x.alone)
        BY <1>13, <4>1
      <4> QED
        BY <2>1, <4>1, <4>2, <4>3
    <3>2. CASE c # top /\ d = top
      <4>1. At(c)' = Met(At(out(c))) /\ FrameOK(At(out(c)), logger.handlers) /\ At(d)'.f = f
        BY <1>7, <1>8, <1>12, <1>17, <3>2
      <4> QED
        BY <1>13, <2>1, <4>1
    <3>3. CASE c = top /\ d # top
      <4>1. out(d) \in Called /\ At(d)' = Met(At(out(d))) /\ FrameOK(At(out(d)), logger.handlers)
        BY <1>8, <1>12, <3>3
      <4>2. At(d)'.f = At(out(d)).f /\ At(c)'.f = f
        BY <1>7, <1>13, <1>17, <3>3, <4>1
      <4>3. \A u \in LogThread : \A i \in DOMAIN frames[u] : ~Shares(frames[u][i].f, f)
        BY <1>7, <1>17, <2>1, <3>3
      <4>4. ~Shares(At(out(d)).f, f)
        BY <4>1, <4>3 DEF Called, At
      <4> QED
        BY <4>2, <4>4 DEF Shares
    <3> QED
      BY <2>1, <3>1, <3>2, <3>3
  <2> QED
    BY <2>1 DEF Apart, Shares
<1>16. ASSUME NEW h \in logger'.handlers PROVE \E c \in Called' : Holds(At(c)', h)
  <2>1. logger \in Logger /\ h \in logger.handlers
    BY <1>2, <1>16
  <2>2. PICK c \in Called : Holds(At(c), h)
    BY <2>1 DEF LogInv
  <2> QED
    BY <1>9, <1>12, <1>13, <2>2
<1> QED
  BY <1>1, <1>2, <1>4, <1>10, <1>14, <1>15, <1>16 DEF LogInv

(* A step that leaves the calls and what is attached as they are. *)
LEMMA LevelStep ==
  ASSUME LogInv, rootLevel' \in Nat, logger' \in Logger \cup {None}, UNCHANGED frames,
         logger \in Logger => logger' \in Logger /\ logger'.handlers = logger.handlers,
         logger' \in Logger => logger \in Logger,
         withs' # <<>> => logger \in Logger
  PROVE  LogInv'
<1>1. Called' = Called /\ \A c \in Called : At(c)' = At(c)
  BY DEF Called, At
<1>2. Apart'
  BY <1>1 DEF LogInv, Apart, Shares
<1>3. \A c \in Called : logger \in Logger /\ FrameOK(At(c), logger.handlers)
  BY DEF LogInv
<1>4. Called # {} => logger' \in Logger /\ logger'.handlers = logger.handlers
  BY DEF LogInv
<1>5. logger' \in Logger => \A h \in logger'.handlers : \E c \in Called : Holds(At(c), h)
  BY DEF LogInv
<1> QED
  BY <1>1, <1>2, <1>3, <1>4, <1>5 DEF LogInv

LEMMA EnabledType ==
  ASSUME LogInv, logger \in Logger, NEW level
  PROVE  LevelInt(logger, level) \in Nat /\ Enabled(logger, LevelInt(logger, level)) \in BOOLEAN
<1>1. Effective(logger) \in Nat
  BY DEF Effective, LogInv, Logger
<1>2. LevelInt(logger, level) \in Nat
  BY <1>1 DEF LevelInt, Debug, Warning, Error
<1>3. Enabled(logger, LevelInt(logger, level)) \in BOOLEAN
  BY DEF Enabled
<1> QED
  BY <1>2, <1>3

LEMMA DispatchStep ==
  ASSUME LogInv, NEW t \in LogThread, NEW message, NEW level, NEW onward,
         frames[t] # <<>>,
         \/ Top2(t).phase = "entry" /\ onward = "body"
         \/ Top2(t).phase = "body" /\ onward = "detach",
         Dispatch(t, message, level, onward), UNCHANGED <<rootLevel, withs>>
  PROVE  LogInv'
<1> DEFINE l == LevelInt(logger, level)
           on == Enabled(logger, l)
           a == Top2(t)
           y == Heard(frames[t][1], message, on)
           x == Turn(y, onward)
<1>1. /\ a = frames[t][1] /\ FrameOK(a, logger.handlers) /\ logger \in Logger
      /\ 1 \in DOMAIN frames[t] /\ DOMAIN frames = LogThread
  BY TopFrame
<1>2. l \in Nat /\ on \in BOOLEAN
  BY <1>1, EnabledType
<1>3. logger' = [logger EXCEPT !.cache = @ \cup {<<l, on>>}]
  BY DEF Dispatch
<1>4. frames' = [frames EXCEPT ![t] = [@ EXCEPT ![1] = x]]
  BY DEF Dispatch
<1> HIDE DEF y
<1>9. /\ DOMAIN y = DOMAIN a /\ y.f = a.f /\ y.phase = a.phase /\ y.todo = a.todo /\ y.alone = a.alone
      /\ y.sent = IF on THEN a.sent \cup {message} ELSE a.sent
      /\ y.got = IF on THEN a.got \cup {<<h, message>> : h \in logger.handlers} ELSE a.got
  BY <1>1 DEF FrameOK, y, Heard
<1> HIDE DEF l, on, a
<1>5. logger' \in Logger /\ logger'.handlers = logger.handlers
  <2>1. <<l, on>> \in Nat \X BOOLEAN
    BY <1>2
  <2> QED
    BY <1>1, <1>3, <2>1 DEF Logger
<1>6. /\ DOMAIN x = DOMAIN a /\ x.f = a.f /\ x.phase = onward /\ x.todo = a.f.handlers /\ x.alone = a.alone
      /\ x.sent = IF on THEN a.sent \cup {message} ELSE a.sent
      /\ x.got = IF on THEN a.got \cup {<<h, message>> : h \in logger.handlers} ELSE a.got
  BY <1>1, <1>9 DEF FrameOK, Turn
<1> HIDE DEF x
<1>7. FrameOK(x, logger'.handlers)
  <2>1. a.alone => \A h \in a.f.handlers : h \in logger.handlers
    BY <1>1 DEF FrameOK, a
  <2>2. a.alone => \A h \in a.f.handlers, m \in x.sent : <<h, m>> \in x.got
    BY <1>1, <1>6, <2>1 DEF FrameOK
  <2> QED
    BY <1>1, <1>5, <1>6, <2>1, <2>2 DEF FrameOK
<1>8. \A h : Holds(a, h) => Holds(x, h)
  BY <1>1, <1>6 DEF Holds, FrameOK
<1> QED
  BY <1>4, <1>5, <1>6, <1>7, <1>8, FrameStep DEF a

LEMMA QuietStep ==
  ASSUME LogInv, NEW t \in LogThread, NEW onward, frames[t] # <<>>,
         \/ Top2(t).phase = "entry" /\ onward = "body"
         \/ Top2(t).phase = "body" /\ onward = "detach",
         Quietly(t, onward), UNCHANGED <<rootLevel, withs>>
  PROVE  LogInv'
<1> DEFINE a == Top2(t)
           x == Turn(a, onward)
<1>1. /\ a = frames[t][1] /\ FrameOK(a, logger.handlers) /\ logger \in Logger
      /\ 1 \in DOMAIN frames[t] /\ DOMAIN frames = LogThread
  BY TopFrame
<1>2. frames' = [frames EXCEPT ![t] = [@ EXCEPT ![1] = x]] /\ logger' = logger
  BY <1>1 DEF Quietly
<1>3. FrameOK(x, logger.handlers) /\ x.f = a.f /\ x.alone = a.alone
  BY <1>1 DEF FrameOK, Turn
<1>4. \A h : Holds(a, h) => Holds(x, h)
  BY <1>1 DEF Holds, FrameOK, Turn
<1> HIDE DEF x
<1> QED
  BY <1>1, <1>2, <1>3, <1>4, FrameStep

LEMMA LogInit == LoggingInit => LogInv
<1> SUFFICES ASSUME LoggingInit PROVE LogInv
  OBVIOUS
<1>1. Called = {} /\ \A t \in LogThread : IsStack(frames[t])
  BY EmptyStack DEF LoggingInit, Called
<1> QED
  BY <1>1, LoggingAssumption DEF LoggingInit, LogInv, Apart, Warning

LEMMA LogNext == LogInv /\ [LoggingNext]_loggingVars => LogInv'
<1> SUFFICES ASSUME LogInv, [LoggingNext]_loggingVars PROVE LogInv'
  OBVIOUS
<1>1. ASSUME NEW t \in LogThread, NEW f \in Logged, CallLogged(t, f) PROVE LogInv'
  BY <1>1, FrameBegins
<1>2. ASSUME NEW t \in LogThread, Attach(t) PROVE LogInv'
  <2> DEFINE a == Top2(t)
  <2>1. /\ frames[t] # <<>> /\ a.phase = "attach" /\ UNCHANGED <<rootLevel, withs>>
        /\ a = frames[t][1] /\ FrameOK(a, logger.handlers) /\ logger \in Logger
        /\ 1 \in DOMAIN frames[t] /\ DOMAIN frames = LogThread
    BY <1>2, TopFrame DEF Attach, Phase
  <2>2. CASE a.todo = {} /\ frames' = [frames EXCEPT ![t][1].phase = "entry"] /\ UNCHANGED logger
    <3> DEFINE x == [a EXCEPT !.phase = "entry"]
    <3>1. frames' = [frames EXCEPT ![t] = [@ EXCEPT ![1] = x]]
      BY <2>1, <2>2
    <3>2. FrameOK(x, logger.handlers) /\ x.f = a.f /\ x.alone = a.alone /\ \A h : Holds(a, h) => Holds(x, h)
      BY <2>1, <2>2 DEF FrameOK, Holds
    <3> HIDE DEF x
    <3> QED
      BY <2>1, <2>2, <3>1, <3>2, FrameStep
  <2>3. ASSUME NEW h \in a.todo, logger' = [logger EXCEPT !.handlers = @ \cup {h}],
               frames' = [frames EXCEPT ![t][1].todo = @ \ {h}]
        PROVE  LogInv'
    <3> DEFINE x == [a EXCEPT !.todo = @ \ {h}]
    <3>1. frames' = [frames EXCEPT ![t] = [@ EXCEPT ![1] = x]]
      BY <2>1, <2>3
    <3>2. logger' \in Logger /\ logger'.handlers = logger.handlers \cup {h}
      BY <2>1, <2>3 DEF Logger, FrameOK
    <3>3. /\ FrameOK(x, logger'.handlers) /\ x.f = a.f /\ x.alone = a.alone
          /\ \A g : Holds(a, g) => Holds(x, g)
          /\ Holds(x, h)
      BY <2>1, <2>3, <3>2 DEF FrameOK, Holds
    <3> HIDE DEF x
    <3> QED
      BY <2>1, <3>1, <3>2, <3>3, FrameStep
  <2> QED
    BY <1>2, <2>2, <2>3 DEF Attach
<1>3. ASSUME NEW t \in LogThread, LogEntry(t) PROVE LogInv'
  BY <1>3, DispatchStep, QuietStep DEF LogEntry, Phase
<1>4. ASSUME NEW t \in LogThread, NEW raised \in BOOLEAN, LogOutcome(t, raised) PROVE LogInv'
  BY <1>4, DispatchStep, QuietStep DEF LogOutcome, Phase
<1>5. ASSUME NEW t \in LogThread, Detach(t) PROVE LogInv'
  <2> DEFINE a == Top2(t)
  <2>1. /\ frames[t] # <<>> /\ a.phase = "detach" /\ UNCHANGED <<rootLevel, withs>>
        /\ a = frames[t][1] /\ FrameOK(a, logger.handlers) /\ logger \in Logger
        /\ 1 \in DOMAIN frames[t] /\ DOMAIN frames = LogThread
    BY <1>5, TopFrame DEF Detach, Phase
  <2>2. CASE a.todo = {} /\ frames' = [frames EXCEPT ![t] = Tail(@)] /\ UNCHANGED logger
    BY <2>1, <2>2, FrameEnds
  <2>3. ASSUME NEW h \in a.todo, logger' = [logger EXCEPT !.handlers = @ \ {h}],
               frames' = [frames EXCEPT ![t][1].todo = @ \ {h}]
        PROVE  LogInv'
    <3> DEFINE x == [a EXCEPT !.todo = @ \ {h}]
    <3>1. frames' = [frames EXCEPT ![t] = [@ EXCEPT ![1] = x]]
      BY <2>1, <2>3
    <3>2. logger' \in Logger /\ logger'.handlers = logger.handlers \ {h}
      BY <2>1, <2>3 DEF Logger
    <3>3. /\ FrameOK(x, logger'.handlers) /\ x.f = a.f /\ x.alone = a.alone
          /\ \A g \in logger'.handlers : Holds(a, g) => Holds(x, g)
          /\ h \in x.f.handlers
      BY <2>1, <2>3, <3>2 DEF FrameOK, Holds
    <3> HIDE DEF x
    <3> QED
      BY <2>1, <3>1, <3>2, <3>3, FrameStep
  <2> QED
    BY <1>5, <2>2, <2>3 DEF Detach
<1>6. CASE EnterWith
  <2>1. logger \in Logger /\ logger' \in Logger /\ logger'.handlers = logger.handlers
    BY <1>6 DEF EnterWith, LogInv, Logger
  <2> QED
    BY <1>6, <2>1, LevelStep DEF EnterWith, LogInv
<1>7. CASE Configure
  BY <1>7, LevelStep DEF Configure, LogInv, Debug
<1>8. CASE ExitWith
  <2>1. logger \in Logger
    BY <1>8 DEF ExitWith, LogInv
  <2>2. logger' \in Logger /\ logger'.handlers = logger.handlers
    BY <1>8, <2>1 DEF ExitWith, Logger
  <2> QED
    BY <1>8, <2>1, <2>2, LevelStep DEF ExitWith, LogInv
<1>9. ASSUME NEW level \in SetLevels, SetLevel(level) PROVE LogInv'
  <2>1. logger \in Logger /\ level \in Nat
    BY <1>9, LoggingAssumption DEF SetLevel, LogInv
  <2>2. logger' \in Logger /\ logger'.handlers = logger.handlers
    BY <1>9, <2>1 DEF SetLevel, Logger
  <2> QED
    BY <1>9, <2>1, <2>2, LevelStep DEF SetLevel, LogInv
<1>10. CASE UNCHANGED loggingVars
  BY <1>10, LevelStep DEF loggingVars, LogInv
<1> QED
  BY <1>1, <1>2, <1>3, <1>4, <1>5, <1>6, <1>7, <1>8, <1>9, <1>10 DEF LoggingNext

(* However many decorated calls run in however many threads, return or     *)
(* raise, every handler on the logger is that of a call that has not ended,*)
(* and what a call that shares no handler sends reaches all its handlers   *)
(* (logging.py, log_call and attach_handler).                              *)
THEOREM HandlersAreTemporary == LoggingSpec => []HandlersServeTheirCalls
<1>1. LoggingInit => LogInv
  BY LogInit
<1>2. LogInv /\ [LoggingNext]_loggingVars => LogInv'
  BY LogNext
<1>3. LogInv => HandlersServeTheirCalls
  <2> SUFFICES ASSUME LogInv PROVE HandlersLeave /\ MessagesArrive
    BY DEF HandlersServeTheirCalls
  <2>1. HandlersLeave
    <3> SUFFICES ASSUME logger # None, NEW h \in logger.handlers
                 PROVE \E t \in LogThread : \E i \in DOMAIN frames[t] : h \in frames[t][i].f.handlers
      BY DEF HandlersLeave
    <3>1. PICK c \in Called : Holds(At(c), h)
      BY DEF LogInv
    <3> QED
      BY <3>1 DEF Called, At, Holds
  <2>2. MessagesArrive
    <3> SUFFICES ASSUME NEW t \in LogThread, NEW i \in DOMAIN frames[t], frames[t][i].alone
                 PROVE \A h \in frames[t][i].f.handlers, m \in frames[t][i].sent : <<h, m>> \in frames[t][i].got
      BY DEF MessagesArrive
    <3>1. <<t, i>> \in Called /\ At(<<t, i>>) = frames[t][i]
      BY StackProperties DEF LogInv, Called, At
    <3> QED
      BY <3>1 DEF LogInv, FrameOK
  <2> QED
    BY <2>1, <2>2
<1> QED
  BY <1>1, <1>2, <1>3, PTL DEF LoggingSpec

-----------------------------------------------------------------------------
(* OAuth: the token of a key.                                              *)

Step == {"idle", "delete", "authorise", "login", "save"}

Held == [key : Key \cup {None}, seen : Stored \cup {None}, token : Token \cup {None}]

\* What a process at a step with its variables knows: the token that it has is the
\* stored one that it read, if that was of its own key.
HeldOK(l, h) ==
  /\ l \in Step
  /\ h \in Held
  /\ l = "delete" => h.key # None /\ h.seen # None /\ h.seen.key # h.key
  /\ l \in {"authorise", "login"} /\ h.seen # None /\ h.seen.key = h.key => h.token = h.seen.token
  /\ l = "login" => h.token = None
  /\ l = "save" => h.token # None

\* Inductive: what the other processes store does not touch what one has read.
TokensInv ==
  /\ keyring \in Stored \cup {None}
  /\ issued \in Nat
  /\ step \in [Process -> Step]
  /\ held \in [Process -> Held]
  /\ \A p \in Process : HeldOK(step[p], held[p])

LEMMA NothingHeld == HeldOK("idle", Nothing)
BY DEF HeldOK, Held, Nothing, Step

LEMMA TokensInit == OAuthInit => TokensInv
<1>1. Nothing \in Held /\ "idle" \in Step
  BY DEF Nothing, Held, Step
<1> QED
  BY <1>1, NothingHeld DEF OAuthInit, TokensInv

(* A step of one process, after which its variables are as they should be. *)
LEMMA HeldStep ==
  ASSUME TokensInv, NEW p \in Process, NEW l, NEW h, To(p, l, h), HeldOK(l, h),
         keyring' \in Stored \cup {None}, issued' \in Nat, UNCHANGED expired
  PROVE  TokensInv'
<1>1. l \in Step /\ h \in Held
  BY DEF HeldOK
<1> QED
  BY <1>1 DEF TokensInv, To

(* A call reads the keyring; where it goes on it has what it read. *)
LEMMA LoadStep ==
  ASSUME TokensInv, NEW p \in Process, NEW key \in Key \cup {None}, LoadToken(p, key)
  PROVE  TokensInv'
<1> DEFINE text == DecryptToken(keyring, key)
           h == [key |-> key, seen |-> keyring, token |-> None]
<1>1. h \in Held /\ h.key = key /\ h.seen = keyring /\ h.token = None
  BY DEF TokensInv, Held
<1>2. UNCHANGED <<keyring, expired, issued>>
  BY DEF LoadToken
<1>3. CASE keyring = None
  <2>1. To(p, "authorise", h) /\ HeldOK("authorise", h)
    BY <1>1, <1>3 DEF LoadToken, HeldOK, Step
  <2> QED
    BY <1>2, <2>1, HeldStep DEF TokensInv
<1>4. CASE keyring # None /\ text = None
  <2>1. keyring \in Stored /\ keyring.key # key /\ key # None
    BY <1>4, OAuthAssumption DEF TokensInv, DecryptToken, EncryptToken, Stored
  <2>2. To(p, "delete", h) /\ HeldOK("delete", h)
    BY <1>1, <1>4, <2>1 DEF LoadToken, HeldOK, Step
  <2> QED
    BY <1>2, <2>2, HeldStep DEF TokensInv
<1>5. CASE keyring # None /\ text # None
  <2> DEFINE g == [h EXCEPT !.token = ParseToken(text)]
  <2>1. keyring \in Stored /\ keyring.token \in Token
    BY <1>5 DEF TokensInv, Stored
  <2>2. /\ ParseToken(text) \in Token \cup {None}
        /\ keyring.key = key => ParseToken(text) = keyring.token
    BY <1>5, <2>1 DEF DecryptToken, EncryptToken, ParseToken
  <2>3. g \in Held /\ g.key = key /\ g.seen = keyring /\ g.token = ParseToken(text)
    BY <1>1, <2>2 DEF Held
  <2>4. To(p, "authorise", g)
    BY <1>5 DEF LoadToken
  <2>5. HeldOK("authorise", g)
    BY <2>2, <2>3 DEF HeldOK, Step
  <2> QED
    BY <1>2, <2>4, <2>5, HeldStep DEF TokensInv
<1> QED
  BY <1>3, <1>4, <1>5

LEMMA IssueStep ==
  ASSUME TokensInv, NEW p \in Process, NEW refreshable \in BOOLEAN, Issue(p, "save", refreshable),
         UNCHANGED <<keyring, expired>>
  PROVE  TokensInv'
<1> DEFINE token == [serial |-> issued + 1, refreshable |-> refreshable]
           h == [held[p] EXCEPT !.token = token]
<1>1. token \in Token /\ issued' \in Nat
  BY DEF TokensInv, Token, Issue
<1>2. token # None
  BY <1>1, OAuthAssumption
<1> HIDE DEF token
<1>3. h \in Held /\ h.token = token
  BY <1>1 DEF TokensInv, Held
<1>4. To(p, "save", h)
  BY DEF Issue, token
<1>5. HeldOK("save", h)
  BY <1>2, <1>3 DEF HeldOK, Step
<1> QED
  BY <1>1, <1>4, <1>5, HeldStep DEF TokensInv

LEMMA TokensNext == TokensInv /\ [OAuthNext]_oauthVars => TokensInv'
<1> SUFFICES ASSUME TokensInv, [OAuthNext]_oauthVars PROVE TokensInv'
  OBVIOUS
<1>1. ASSUME NEW p \in Process, NEW key \in Key \cup {None}, LoadToken(p, key) PROVE TokensInv'
  BY <1>1, LoadStep
<1>2. ASSUME NEW p \in Process, DeletePassword(p) PROVE TokensInv'
  <2>1. HeldOK("authorise", held[p])
    BY <1>2 DEF DeletePassword, TokensInv, HeldOK, Step
  <2> QED
    BY <1>2, <2>1, NothingHeld, HeldStep DEF DeletePassword, TokensInv
<1>3. ASSUME NEW p \in Process, GoogleOAuth(p) PROVE TokensInv'
  <2>1. CASE Unreadable(p) /\ To(p, "idle", Nothing) /\ UNCHANGED issued
    BY <1>3, <2>1, NothingHeld, HeldStep DEF GoogleOAuth, TokensInv
  <2>2. CASE Valid(p) /\ To(p, "save", held[p]) /\ UNCHANGED issued
    <3>1. HeldOK("save", held[p])
      BY <2>2 DEF Valid, TokensInv, HeldOK, Step
    <3> QED
      BY <1>3, <2>2, <3>1, HeldStep DEF GoogleOAuth, TokensInv
  <2>3. CASE Refreshes(p) /\ Issue(p, "save", TRUE)
    BY <1>3, <2>3, IssueStep DEF GoogleOAuth
  <2>4. CASE held[p].token = None /\ To(p, "login", held[p]) /\ UNCHANGED issued
    <3>1. HeldOK("login", held[p])
      BY <1>3, <2>4 DEF GoogleOAuth, TokensInv, HeldOK, Step
    <3> QED
      BY <1>3, <2>4, <3>1, HeldStep DEF GoogleOAuth, TokensInv
  <2> QED
    BY <1>3, <2>1, <2>2, <2>3, <2>4 DEF GoogleOAuth
<1>4. ASSUME NEW p \in Process, Login(p) PROVE TokensInv'
  BY <1>4, IssueStep DEF Login
<1>5. ASSUME NEW p \in Process, SaveToken(p) PROVE TokensInv'
  <2>1. EncryptToken(held[p].token, held[p].key) \in Stored
    BY <1>5 DEF SaveToken, TokensInv, HeldOK, Held, EncryptToken, Stored
  <2> QED
    BY <1>5, <2>1, NothingHeld, HeldStep DEF SaveToken, TokensInv
<1>6. ASSUME NEW p \in Process, Gone(p) PROVE TokensInv'
  BY <1>6, NothingHeld, HeldStep DEF Gone, TokensInv
<1>7. ASSUME NEW p \in Process, ResetServiceOAuth(p) PROVE TokensInv'
  BY <1>7 DEF ResetServiceOAuth, TokensInv
<1>8. CASE Expire
  BY <1>8 DEF Expire, TokensInv
<1>9. CASE UNCHANGED oauthVars
  BY <1>9 DEF oauthVars, TokensInv
<1> QED
  BY <1>1, <1>2, <1>3, <1>4, <1>5, <1>6, <1>7, <1>8, <1>9 DEF OAuthNext

(* "Resetting token as failed to decrypt or parse" (oauth.py, load_token):  *)
(* for any number of processes, keys and crashes a call deletes what is    *)
(* stored, or asks the user to log in, only when it read none that was     *)
(* stored under its own key: one that was is used or refreshed.            *)
THEOREM TokensAreKept == OAuthSpec => []TokensLast
<1>1. OAuthInit => TokensInv
  BY TokensInit
<1>2. TokensInv /\ [OAuthNext]_oauthVars => TokensInv'
  BY TokensNext
<1>3. TokensInv => TokensLast
  <2>1. ASSUME NEW s \in Stored PROVE s.token # None
    BY OAuthAssumption DEF Stored
  <2> QED
    BY <2>1 DEF TokensInv, TokensLast, HeldOK, Held
<1> QED
  BY <1>1, <1>2, <1>3, PTL DEF OAuthSpec

-----------------------------------------------------------------------------
(* StreamlitGate: the identity of a page.                                  *)

SessionState == [user_email : Email \cup {None}, welcomed : BOOLEAN \cup {None}, seeded : BOOLEAN]

\* What holds of one session: its page is that of the identity it had when the page
\* was made, as only a run or a new session changes the page, and a log-in or a
\* log-out has the script begin again.
SessionOK(s) ==
  /\ state[s].user_email # None \/ page[s] = "login" => user[s] = None
  /\ page[s] = "login" /\ ~rerun[s] => state[s].user_email = None
  /\ IF state[s].welcomed = TRUE
     THEN CurrentUserEmail(s) \in Whitelist /\ toasts[s] = 1
     ELSE toasts[s] = 0 /\ ~(page[s] = "app" /\ ~rerun[s])

\* Inductive: how the page that a session shows came about tells which identity it has.
IdentityInv ==
  /\ cookie \in Email \cup {None}
  /\ user \in [Session -> Email \cup {None}]
  /\ state \in [Session -> SessionState]
  /\ page \in [Session -> {"none", "login", "forbidden", "app"}]
  /\ rerun \in [Session -> BOOLEAN]
  /\ toasts \in [Session -> Nat]
  /\ \A s \in Session : SessionOK(s)

LEMMA FreshType == Fresh \in SessionState
BY DEF Fresh, SessionState

LEMMA WelcomedType ==
  ASSUME NEW st \in SessionState, NEW x, x = [st EXCEPT !.seeded = TRUE, !.welcomed = TRUE]
  PROVE  x \in SessionState /\ x.welcomed = TRUE /\ x.user_email = st.user_email
<1>1. TRUE \in BOOLEAN \cup {None}
  BY Zenon
<1> QED
  BY <1>1 DEF SessionState

LEMMA IdentityInit == StreamlitInit => IdentityInv
<1> SUFFICES ASSUME StreamlitInit PROVE IdentityInv
  OBVIOUS
<1>1. None # TRUE
  BY StreamlitAssumption
<1>2. ASSUME NEW s \in Session PROVE SessionOK(s)
  <2>1. state[s].welcomed = None /\ state[s].user_email = None
    BY DEF StreamlitInit, Fresh
  <2>2. state[s].welcomed # TRUE
    BY <1>1, <2>1, Zenon
  <2> QED
    BY <2>1, <2>2 DEF StreamlitInit, SessionOK
<1> QED
  BY <1>2, FreshType DEF StreamlitInit, IdentityInv

(* A step of one session leaves the others as they are. *)
LEMMA SessionStep ==
  ASSUME IdentityInv, NEW s \in Session,
         cookie' \in Email \cup {None},
         NEW u \in Email \cup {None}, user' = [user EXCEPT ![s] = u],
         NEW x \in SessionState, state' = [state EXCEPT ![s] = x],
         NEW g \in {"none", "login", "forbidden", "app"}, page' = [page EXCEPT ![s] = g],
         NEW r \in BOOLEAN, rerun' = [rerun EXCEPT ![s] = r],
         NEW n \in Nat, toasts' = [toasts EXCEPT ![s] = n],
         SessionOK(s)'
  PROVE  IdentityInv'
<1>1. ASSUME NEW t \in Session, t # s PROVE SessionOK(t)'
  BY <1>1 DEF IdentityInv, SessionOK, CurrentUserEmail
<1> QED
  BY <1>1 DEF IdentityInv

LEMMA BeginStep ==
  ASSUME IdentityInv, NEW s \in Session, NEW c \in Email \cup {None}, BeginSession(s, c),
         cookie' \in Email \cup {None}
  PROVE  IdentityInv'
<1>1. SessionOK(s)'
  BY StreamlitAssumption DEF BeginSession, IdentityInv, SessionOK, Fresh
<1> QED
  BY <1>1, SessionStep, FreshType DEF BeginSession

LEMMA IdentityNext == IdentityInv /\ [StreamlitNext]_streamlitVars => IdentityInv'
<1> SUFFICES ASSUME IdentityInv, [StreamlitNext]_streamlitVars PROVE IdentityInv'
  OBVIOUS
<1>1. ASSUME NEW s \in Session, SetupApp(s) PROVE IdentityInv'
  <2> DEFINE x == IF Welcomes(s) THEN [Initialise(state[s]) EXCEPT !.welcomed = TRUE] ELSE Initialise(state[s])
             n == IF Welcomes(s) THEN toasts[s] + 1 ELSE toasts[s]
  <2>1. /\ x \in SessionState
        /\ x.user_email = state[s].user_email
        /\ Welcomes(s) => x.welcomed = TRUE
        /\ ~Welcomes(s) => x.welcomed = state[s].welcomed
        /\ n \in Nat
    <3>1. CASE Welcomes(s)
      <4>1. x = [state[s] EXCEPT !.seeded = TRUE, !.welcomed = TRUE]
        BY <3>1 DEF Initialise
      <4>2. toasts[s] + 1 \in Nat
        BY DEF IdentityInv
      <4> HIDE DEF x
      <4>3. x \in SessionState /\ x.welcomed = TRUE /\ x.user_email = state[s].user_email
        BY <4>1, WelcomedType DEF IdentityInv
      <4> QED
        BY <3>1, <4>2, <4>3
    <3>2. CASE ~Welcomes(s)
      BY <3>2 DEF IdentityInv, Initialise, SessionState
    <3> QED
      BY <3>1, <3>2
  <2>2. /\ state' = [state EXCEPT ![s] = x]
        /\ toasts' = [toasts EXCEPT ![s] = n]
        /\ page' = [page EXCEPT ![s] = CheckAuthorisation(s)]
        /\ rerun' = [rerun EXCEPT ![s] = FALSE]
        /\ UNCHANGED <<user, cookie>>
    BY <1>1 DEF SetupApp
  <2>3. /\ state'[s] = x /\ toasts'[s] = n /\ page'[s] = CheckAuthorisation(s)
        /\ rerun'[s] = FALSE /\ user'[s] = user[s] /\ user' = [user EXCEPT ![s] = user[s]]
    BY <2>2 DEF IdentityInv
  <2>4. CheckAuthorisation(s) \in {"none", "login", "forbidden", "app"}
    BY DEF CheckAuthorisation
  <2>5. CurrentUserEmail(s)' = CurrentUserEmail(s)
    BY <2>1, <2>3 DEF CurrentUserEmail
  <2>6. CheckAuthorisation(s) = "app" => CurrentUserEmail(s) \in Whitelist
    BY DEF CheckAuthorisation
  <2>7. CheckAuthorisation(s) = "login" => user[s] = None /\ state[s].user_email = None
    BY DEF CheckAuthorisation, CurrentUserEmail
  <2>8. SessionOK(s)'
    <3>1. CASE Welcomes(s)
      <4>1. toasts[s] = 0 /\ CheckAuthorisation(s) = "app"
        BY <3>1 DEF SessionOK, IdentityInv, Welcomes
      <4>2. state'[s].welcomed = TRUE /\ toasts'[s] = 1
        BY <2>1, <2>3, <3>1, <4>1
      <4> QED
        BY <2>1, <2>3, <2>5, <2>6, <4>1, <4>2 DEF SessionOK, IdentityInv
    <3>2. CASE ~Welcomes(s)
      <4>1. state'[s].welcomed = state[s].welcomed /\ toasts'[s] = toasts[s]
        BY <2>1, <2>3, <3>2
      <4>2. state[s].welcomed = TRUE \/ CheckAuthorisation(s) # "app"
        BY <3>2 DEF Welcomes
      <4> QED
        BY <2>1, <2>3, <2>5, <2>7, <4>1, <4>2 DEF SessionOK, IdentityInv
    <3> QED
      BY <3>1, <3>2
  <2> QED
    BY <2>1, <2>2, <2>3, <2>4, <2>8, SessionStep DEF IdentityInv
<1>2. ASSUME NEW s \in Session, LogOut(s) PROVE IdentityInv'
  <2>1. CASE state[s].user_email # None
    <3> DEFINE x == [state[s] EXCEPT !.user_email = None, !.welcomed = FALSE]
    <3>1. x \in SessionState /\ x.user_email = None /\ x.welcomed = FALSE
      BY DEF IdentityInv, SessionState
    <3>2. /\ state' = [state EXCEPT ![s] = x]
          /\ rerun' = [rerun EXCEPT ![s] = TRUE]
          /\ toasts' = [toasts EXCEPT ![s] = 0]
          /\ user' = [user EXCEPT ![s] = user[s]]
          /\ page' = [page EXCEPT ![s] = page[s]]
          /\ UNCHANGED <<cookie, user, page>>
      BY <1>2, <2>1 DEF LogOut, IdentityInv
    <3>3. SessionOK(s)'
      BY <2>1, <3>1, <3>2 DEF IdentityInv, SessionOK
    <3> QED
      BY <3>1, <3>2, <3>3, SessionStep DEF IdentityInv
  <2>2. CASE state[s].user_email = None
    BY <1>2, <2>2, BeginStep DEF LogOut
  <2> QED
    BY <2>1, <2>2
<1>3. ASSUME NEW s \in Session, Visit(s) PROVE IdentityInv'
  BY <1>3, BeginStep DEF Visit, IdentityInv
<1>4. ASSUME NEW s \in Session, NEW email \in Email, LoginByPassword(s, email) PROVE IdentityInv'
  <2> DEFINE x == [state[s] EXCEPT !.user_email = email]
  <2>1. x \in SessionState /\ x.user_email = email /\ x.welcomed = state[s].welcomed
    BY DEF IdentityInv, SessionState
  <2>2. /\ state' = [state EXCEPT ![s] = x]
        /\ rerun' = [rerun EXCEPT ![s] = TRUE]
        /\ toasts' = [toasts EXCEPT ![s] = 0]
        /\ user' = [user EXCEPT ![s] = user[s]]
        /\ page' = [page EXCEPT ![s] = page[s]]
        /\ UNCHANGED <<cookie, user, page>>
    BY <1>4 DEF LoginByPassword, IdentityInv
  <2>3. page[s] = "login" /\ ~rerun[s] /\ SessionOK(s)
    BY <1>4 DEF LoginByPassword, IdentityInv
  <2>4. CurrentUserEmail(s) = None /\ None \notin Whitelist
    BY <2>3, StreamlitAssumption DEF SessionOK, CurrentUserEmail
  <2>5. SessionOK(s)'
    BY <2>1, <2>2, <2>3, <2>4 DEF IdentityInv, SessionOK
  <2> QED
    BY <2>1, <2>2, <2>5, SessionStep DEF IdentityInv
<1>5. ASSUME NEW s \in Session, NEW email \in Email, LoginByOAuth(s, email) PROVE IdentityInv'
  BY <1>5, BeginStep DEF LoginByOAuth
<1>6. CASE Restart
  <2>1. \A s \in Session : SessionOK(s)'
    BY <1>6, StreamlitAssumption DEF Restart, IdentityInv, SessionOK, Fresh
  <2> QED
    BY <1>6, <2>1, FreshType DEF Restart, IdentityInv
<1>7. CASE UNCHANGED streamlitVars
  BY <1>7 DEF streamlitVars, IdentityInv, SessionOK, CurrentUserEmail
<1> QED
  BY <1>1, <1>2, <1>3, <1>4, <1>5, <1>6, <1>7 DEF StreamlitNext

(* For any number of sessions, addresses and restarts, no session has the  *)
(* identity of a password and that of an OAuth log-in at once, and whom    *)
(* the app is shown to is on the whitelist and was welcomed once           *)
(* (streamlit.py, log_out and check_authorisation).                        *)
THEOREM IdentitiesAreSingle == StreamlitSpec => []OneIdentity
<1>1. StreamlitInit => IdentityInv
  BY IdentityInit
<1>2. IdentityInv /\ [StreamlitNext]_streamlitVars => IdentityInv'
  BY IdentityNext
<1>3. IdentityInv => OneIdentity
  BY DEF IdentityInv, OneIdentity, SessionOK, CurrentUserEmail
<1> QED
  BY <1>1, <1>2, <1>3, PTL DEF StreamlitSpec

-----------------------------------------------------------------------------
(* The frames of a stream, one after the other.                            *)

\* FlattenSeq's recursive function.
Flat(s) ==
  CHOOSE flatten :
    flatten = [i \in 1 .. Len(s) |-> IF i = 1 THEN s[i] ELSE flatten[i - 1] \o s[i]]

(* It adds the parts one after the other. *)
LEMMA FlatSteps ==
  ASSUME NEW S, NEW s \in Seq(Seq(S)), s # <<>>
  PROVE  /\ Flat(s)[1] = s[1]
         /\ \A i \in 2 .. Len(s) : Flat(s)[i] = Flat(s)[i - 1] \o s[i]
         /\ \A i \in 1 .. Len(s) : Flat(s)[i] \in Seq(S)
         /\ FlattenSeq(s) = Flat(s)[Len(s)]
<1> DEFINE n == Len(s)
           D == Seq(S)
           g == [i \in 1 .. n |-> [t \in D |-> t \o s[i]]]
           Steps(u) == u = [i \in 1 .. n |-> IF i = 1 THEN s[i] ELSE u[i - 1] \o s[i]]
<1>1. n \in Nat \ {0} /\ <<>> \in D /\ \A i \in 1 .. n : s[i] \in D
  OBVIOUS
<1>2. PICK u \in [0 .. n -> D] : Dict!Iterates(u, n, <<>>, g)
  <2>1. g \in [1 .. n -> [D -> D]]
    BY <1>1
  <2> HIDE DEF g, D, n
  <2> QED
    BY <1>1, <2>1, Dict!Iterated
<1> DEFINE w == [i \in 1 .. n |-> u[i]]
<1>3. ASSUME NEW i \in 1 .. n
      PROVE  u[i] \in D /\ u[i] = u[i - 1] \o s[i] /\ (i = 1 => u[i] = s[i])
  <2>1. i \in 0 .. n /\ i - 1 \in 0 .. n /\ i # 0 /\ 0 \in 0 .. n
    BY <1>1
  <2>2. u[i] = g[i][u[i - 1]] /\ u[0] = <<>>
    BY <1>2, <2>1 DEF Dict!Iterates
  <2>3. g[i][u[i - 1]] = u[i - 1] \o s[i]
    BY <1>2, <2>1
  <2>4. <<>> \o s[i] = s[i]
    BY <1>1
  <2>5. u[i] \in D
    BY <1>2, <2>1
  <2>6. u[i] = u[i - 1] \o s[i]
    BY <2>2, <2>3
  <2>7. i = 1 => u[i] = s[i]
    <3>1. i = 1 => u[i - 1] = <<>>
      BY <2>2
    <3> HIDE DEF g
    <3> QED
      BY <2>4, <2>6, <3>1
  <2> QED
    BY <2>5, <2>6, <2>7
<1>4. Steps(w)
  <2>1. ASSUME NEW i \in 1 .. n PROVE w[i] = IF i = 1 THEN s[i] ELSE w[i - 1] \o s[i]
    <3>1. CASE i = 1
      BY <1>3, <3>1
    <3>2. CASE i # 1
      <4>1. i - 1 \in 1 .. n
        BY <1>1, <3>2
      <4> QED
        BY <1>3, <3>2, <4>1
    <3> QED
      BY <3>1, <3>2
  <2> QED
    BY <2>1
<1> HIDE DEF w, g
<1> DEFINE f == Flat(s)
<1>5. f = [i \in 1 .. n |-> IF i = 1 THEN s[i] ELSE f[i - 1] \o s[i]]
  <2>1. Flat(s) = CHOOSE u1 : Steps(u1)
    BY DEF Flat
  <2> HIDE DEF Steps, f
  <2>2. Steps(Flat(s))
    BY <1>4, <2>1
  <2> QED
    BY <2>2 DEF Steps, f
<1>6. FlattenSeq(s) = f[n]
  BY <1>1 DEF FlattenSeq, Flat
<1> HIDE DEF f
<1>7. f[1] = s[1] /\ \A i \in 2 .. n : f[i] = f[i - 1] \o s[i]
  <2>1. 1 \in 1 .. n /\ \A i \in 2 .. n : i \in 1 .. n /\ i # 1
    BY <1>1
  <2> HIDE DEF n
  <2> QED
    BY <1>5, <2>1
<1>8. \A i \in 0 .. n : i \in {j \in 0 .. n : j # 0 => f[j] \in D}
  <2> DEFINE G == {j \in 0 .. n : j # 0 => f[j] \in D}
  <2> HIDE DEF n, D
  <2>1. 0 \in G
    BY <1>1
  <2>2. ASSUME NEW i \in 1 .. n, i - 1 \in G PROVE i \in G
    <3>1. CASE i = 1
      BY <1>1, <1>7, <3>1
    <3>2. CASE i # 1
      <4>1. i \in 2 .. n /\ f[i - 1] \in D /\ s[i] \in D
        BY <1>1, <2>2, <3>2
      <4>2. f[i] \in D
        <5>1. \A a, b \in D : a \o b \in D
          BY DEF D
        <5> QED
          BY <1>7, <4>1, <5>1
      <4> QED
        BY <1>1, <4>2
    <3> QED
      BY <3>1, <3>2
  <2> HIDE DEF G
  <2>3. \A i \in 0 .. n : i \in G
    BY <1>1, <2>1, <2>2, Dict!Reached
  <2> QED
    BY <2>3 DEF G
<1>9. \A i \in 1 .. n : f[i] \in D
  BY <1>1, <1>8
<1> QED
  BY <1>6, <1>7, <1>9 DEF f

(* A part at the end. *)
LEMMA Appended ==
  ASSUME NEW D, NEW s \in Seq(D), NEW x \in D
  PROVE  /\ Append(s, x) \in Seq(D) /\ Append(s, x) # <<>> /\ Len(Append(s, x)) = Len(s) + 1
         /\ Append(s, x)[Len(s) + 1] = x
         /\ \A i \in 1 .. Len(s) : Append(s, x)[i] = s[i]
OBVIOUS

(* One more frame adds its rows at the end. *)
LEMMA FlatAppend ==
  ASSUME NEW S, NEW s \in Seq(Seq(S)), NEW x \in Seq(S)
  PROVE  /\ FlattenSeq(s) \in Seq(S)
         /\ FlattenSeq(Append(s, x)) = FlattenSeq(s) \o x
<1> DEFINE t == Append(s, x)
           n == Len(s)
<1>1. /\ t \in Seq(Seq(S)) /\ t # <<>> /\ Len(t) = n + 1 /\ n \in Nat
      /\ t[n + 1] = x /\ \A i \in 1 .. n : t[i] = s[i]
  BY Appended
<1>0. /\ Flat(t)[1] = t[1]
      /\ \A i \in 2 .. n + 1 : Flat(t)[i] = Flat(t)[i - 1] \o t[i]
      /\ FlattenSeq(t) = Flat(t)[n + 1]
  <2> HIDE DEF t, n
  <2> QED
    BY <1>1, FlatSteps
<1>4. s # <<>> => /\ Flat(s)[1] = s[1]
                  /\ \A i \in 2 .. n : Flat(s)[i] = Flat(s)[i - 1] \o s[i]
                  /\ FlattenSeq(s) = Flat(s)[n]
                  /\ \A i \in 1 .. n : Flat(s)[i] \in Seq(S)
  BY FlatSteps
<1> HIDE DEF t, n
<1>2. CASE s = <<>>
  <2>1. n = 0 /\ FlattenSeq(s) = <<>>
    BY <1>2 DEF FlattenSeq, n
  <2>2. FlattenSeq(t) = x
    <3>1. n + 1 = 1
      BY <2>1
    <3> QED
      BY <1>0, <1>1, <3>1
  <2>3. <<>> \o x = x
    OBVIOUS
  <2> QED
    BY <2>1, <2>2, <2>3 DEF t
<1>3. CASE s # <<>>
  <2> DEFINE G == {i \in 0 .. n : i # 0 => Flat(t)[i] = Flat(s)[i]}
  <2>1. 0 \in G
    BY <1>1
  <2>2. ASSUME NEW i \in 1 .. n, i - 1 \in G PROVE i \in G
    <3>1. CASE i = 1
      <4>1. Flat(t)[1] = Flat(s)[1]
        BY <1>0, <1>1, <1>3, <1>4, <3>1
      <4> QED
        BY <1>1, <3>1, <4>1
    <3>2. CASE i # 1
      <4>1. i \in 2 .. n /\ i \in 2 .. n + 1 /\ i \in 0 .. n /\ Flat(t)[i - 1] = Flat(s)[i - 1] /\ t[i] = s[i]
        BY <1>1, <2>2, <3>2
      <4>2. Flat(t)[i] = Flat(t)[i - 1] \o t[i] /\ Flat(s)[i] = Flat(s)[i - 1] \o s[i]
        BY <1>0, <1>3, <1>4, <4>1
      <4>3. Flat(t)[i] = Flat(s)[i]
        BY <4>1, <4>2
      <4> QED
        BY <4>1, <4>3
    <3> QED
      BY <3>1, <3>2
  <2>3. n \in 0 .. n /\ n \in 1 .. n
    <3>1. n # 0
      BY <1>3 DEF n
    <3> QED
      BY <1>1, <3>1
  <2> HIDE DEF G
  <2>4. \A i \in 0 .. n : i \in G
    BY <1>1, <2>1, <2>2, Dict!Reached
  <2>5. Flat(t)[n] = Flat(s)[n]
    BY <2>3, <2>4 DEF G
  <2>6. Flat(t)[n + 1] = Flat(t)[n] \o x
    <3>1. n + 1 \in 2 .. n + 1
      BY <1>1, <2>3
    <3>2. \A i \in 2 .. n + 1 : i = n + 1 => Flat(t)[i] = Flat(t)[n] \o t[i]
      <4>1. \A i \in 2 .. n + 1 : i = n + 1 => i - 1 = n
        BY <1>1
      <4> QED
        BY <1>0, <4>1
    <3> QED
      BY <1>1, <3>1, <3>2
  <2>7. FlattenSeq(s) = Flat(s)[n] /\ FlattenSeq(t) = Flat(t)[n + 1] /\ Flat(s)[n] \in Seq(S)
    BY <1>0, <1>3, <1>4, <2>3
  <2> QED
    BY <2>5, <2>6, <2>7 DEF t
<1> QED
  BY <1>2, <1>3

-----------------------------------------------------------------------------
(* Readers and streamers of query results.                                 *)

(* A new last element. *)
LEMMA StackAppend ==
  ASSUME NEW s, IsStack(s), NEW x
  PROVE  /\ IsStack(Append(s, x)) /\ Len(s) \in Nat /\ DOMAIN s = 1 .. Len(s)
         /\ DOMAIN Append(s, x) = 1 .. Len(s) + 1
         /\ Append(s, x)[Len(s) + 1] = x
         /\ \A i \in 1 .. Len(s) : Append(s, x)[i] = s[i]
<1> DEFINE S == {s[i] : i \in DOMAIN s} \cup {x}
<1>1. s \in Seq(S)
  BY DEF IsStack
<1> HIDE DEF S
<1>2. Append(s, x) \in Seq(S) /\ x \in S
  BY <1>1 DEF S
<1>3. IsStack(Append(s, x))
  BY <1>2, IsStackOf
<1> QED
  BY <1>1, <1>2, <1>3

\* The rows of the frames, and the numbers of the first n rows of the result.
RowsOf == [i \in DOMAIN chunks |-> chunks[i].rows]

UpTo(n) == [i \in 1 .. n |-> i]

Pulled == Len(Yielded)

\* Inductive: what was yielded are the first rows of the result, in frames that
\* have the columns of the read; a cursor is open as long as the stream is.
StreamsInv ==
  /\ source.rows \in Nat
  /\ stream.chunk \in Nat \ {0}
  /\ IsStack(chunks) /\ RowsOf \in Seq(Seq(Int))
  /\ \A i \in DOMAIN chunks : chunks[i].columns = Read.columns
  /\ Pulled \in 0 .. source.rows /\ Yielded = UpTo(Pulled)
  /\ phase = "ended" => Pulled = source.rows
  /\ cursor = "open" => phase = "open"

(* A sequence is given by its elements. *)
LEMMA StackIsFunction ==
  ASSUME NEW s, IsStack(s)
  PROVE  s = [i \in DOMAIN s |-> s[i]]
BY DEF IsStack

(* The frames after a pull, seen as the sequence of their rows. *)
LEMMA RowsAppend ==
  ASSUME IsStack(chunks), NEW f, chunks' = Append(chunks, f)
  PROVE  /\ IsStack(chunks')
         /\ RowsOf' = Append(RowsOf, f.rows)
         /\ \A i \in DOMAIN chunks' : i \notin DOMAIN chunks => chunks'[i] = f
         /\ \A i \in DOMAIN chunks : chunks'[i] = chunks[i]
<1> DEFINE n == Len(chunks)
<1>1. /\ IsStack(chunks') /\ n \in Nat /\ DOMAIN chunks = 1 .. n /\ DOMAIN chunks' = 1 .. n + 1
      /\ chunks'[n + 1] = f /\ \A i \in 1 .. n : chunks'[i] = chunks[i]
  BY StackAppend
<1>2. IsStack(RowsOf) /\ Len(RowsOf) = n
  BY <1>1 DEF RowsOf, IsStack
<1>3. /\ IsStack(Append(RowsOf, f.rows)) /\ DOMAIN Append(RowsOf, f.rows) = 1 .. n + 1
      /\ Append(RowsOf, f.rows)[n + 1] = f.rows
      /\ \A i \in 1 .. n : Append(RowsOf, f.rows)[i] = RowsOf[i]
  BY <1>2, StackAppend
<1> HIDE DEF n
<1>4. RowsOf' = [i \in 1 .. n + 1 |-> chunks'[i].rows]
  BY <1>1 DEF RowsOf
<1>5. ASSUME NEW i \in 1 .. n + 1 PROVE Append(RowsOf, f.rows)[i] = chunks'[i].rows
  <2>1. CASE i = n + 1
    BY <1>1, <1>3, <2>1
  <2>2. CASE i \in 1 .. n
    BY <1>1, <1>3, <2>2 DEF RowsOf
  <2>3. i = n + 1 \/ i \in 1 .. n
    BY <1>1
  <2> QED
    BY <2>1, <2>2, <2>3
<1>6. Append(RowsOf, f.rows) = [i \in 1 .. n + 1 |-> chunks'[i].rows]
  <2>1. Append(RowsOf, f.rows) = [i \in 1 .. n + 1 |-> Append(RowsOf, f.rows)[i]]
    BY <1>3, StackIsFunction
  <2> QED
    BY <1>5, <2>1
<1> QED
  BY <1>1, <1>4, <1>6

(* The elements of the one and then of the other. *)
LEMMA Concatenated ==
  ASSUME NEW S, NEW s \in Seq(S), NEW t \in Seq(S)
  PROVE  /\ s \o t \in Seq(S) /\ Len(s \o t) = Len(s) + Len(t)
         /\ \A i \in 1 .. Len(s) : (s \o t)[i] = s[i]
         /\ \A i \in Len(s) + 1 .. Len(s) + Len(t) : (s \o t)[i] = t[i - Len(s)]
OBVIOUS

(* The rows that follow the first m ones. *)
LEMMA UpToFollowed ==
  ASSUME NEW m \in Nat, NEW n \in Nat, NEW s \in Seq(Int), Len(s) = n, \A i \in 1 .. n : s[i] = m + i
  PROVE  UpTo(m) \o s = UpTo(m + n) /\ Len(UpTo(m) \o s) = m + n
<1>1. /\ UpTo(m) \in Seq(Int) /\ Len(UpTo(m)) = m
      /\ \A i \in 1 .. m : UpTo(m)[i] = i
  BY DEF UpTo
<1>2. /\ UpTo(m) \o s \in Seq(Int) /\ Len(UpTo(m) \o s) = m + n
      /\ \A i \in 1 .. m : (UpTo(m) \o s)[i] = i
      /\ \A i \in m + 1 .. m + n : (UpTo(m) \o s)[i] = s[i - m]
  BY <1>1, Concatenated
<1>3. ASSUME NEW i \in 1 .. m + n PROVE (UpTo(m) \o s)[i] = i
  <2>1. CASE i \in 1 .. m
    BY <1>2, <2>1
  <2>2. CASE i \in m + 1 .. m + n
    <3>1. i - m \in 1 .. n /\ m + (i - m) = i
      BY <2>2
    <3> QED
      BY <1>2, <2>2, <3>1
  <2>3. i \in 1 .. m \/ i \in m + 1 .. m + n
    OBVIOUS
  <2> QED
    BY <2>1, <2>2, <2>3
<1> QED
  BY <1>2, <1>3 DEF UpTo

(* A frame of a result has the columns of the read and the rows that follow. *)
LEMMA PulledFrame ==
  ASSUME source.rows \in Nat, stream.chunk \in Nat \ {0}, Pulled \in 0 .. source.rows,
         NEW f \in Frames, f # None
  PROVE  /\ f.columns = Read.columns
         /\ \E n \in 0 .. Rest : f.rows = NextRows(n)
<1>1. Rest \in Nat
  BY DEF Rest, Pulled
<1>2. EngineBatches \subseteq 0 .. Rest /\ ServiceBatches \subseteq 0 .. Rest
  BY <1>1 DEF EngineBatches, ServiceBatches
<1>3. CASE stream.provider = "engine"
  BY <1>2, <1>3 DEF Frames, EngineStreamer, EngineStreamPandas, EngineStreamPolars, EngineReadPandas,
                    EngineReadPolars, PolarsFrame, Frame, Read, EngineReader
<1>4. CASE stream.provider = "connection"
  BY <1>2, <1>4 DEF Frames, ConnectionStreamer, StreamPandas, StreamPolars, StreamArrow, ReadPandas, ReadArrow,
                    ReadPolars, PolarsFrame, Frame, Read, ConnectionReader
<1>5. CASE stream.provider \notin {"engine", "connection"}
  <2>1. PICK n \in 0 .. Rest : f = Frame(source.columns, NextRows(n))
    BY <1>1, <1>5 DEF Frames, StreamLists
  <2> QED
    BY <1>5, <2>1 DEF Read, ReadLists, Frame
<1> QED
  BY <1>3, <1>4, <1>5

(* There is another frame as long as rows are left. *)
LEMMA RowsLeft ==
  ASSUME source.rows \in Nat, stream.chunk \in Nat \ {0}, Pulled \in 0 .. source.rows, Frames = {}
  PROVE  Rest = 0
<1> SUFFICES ASSUME Rest # 0 PROVE FALSE
  OBVIOUS
<1>1. Rest \in Nat /\ Rest > 0
  BY DEF Rest, Pulled
<1>2. EngineBatches # {} /\ ServiceBatches # {}
  BY <1>1 DEF EngineBatches, ServiceBatches
<1>3. CASE stream.provider = "engine"
  BY <1>2, <1>3 DEF Frames, EngineStreamer, EngineStreamPandas, EngineStreamPolars
<1>4. CASE stream.provider = "connection"
  BY <1>2, <1>4 DEF Frames, ConnectionStreamer, StreamPandas, StreamPolars, StreamArrow
<1>5. CASE stream.provider \notin {"engine", "connection"}
  BY <1>1, <1>5 DEF Frames, StreamLists
<1> QED
  BY <1>3, <1>4, <1>5

(* A streamer that has just been called has yielded nothing. *)
LEMMA StreamsBegin == StreamsInit => StreamsInv
<1> SUFFICES ASSUME StreamsInit PROVE StreamsInv
  OBVIOUS
<1>1. source.rows \in Nat /\ stream.chunk \in Nat \ {0} /\ phase # "ended"
  BY DataStreamsAssumption DEF StreamsInit
<1>2. chunks = <<>> /\ cursor = None
  BY DEF StreamsInit
<1>3. RowsOf = <<>>
  BY <1>2 DEF RowsOf
<1>4. Yielded = <<>>
  BY <1>3 DEF RowsOf, Yielded, FlattenSeq
<1>5. Pulled = 0 /\ Yielded = UpTo(0) /\ RowsOf \in Seq(Seq(Int))
  BY <1>3, <1>4 DEF Pulled, UpTo
<1>6. IsStack(chunks)
  BY <1>2 DEF IsStack
<1> QED
  BY <1>1, <1>2, <1>5, <1>6, DataStreamsAssumption DEF StreamsInv

(* A pull keeps the invariant, and so does whatever ends the stream. *)
LEMMA StreamsStep == StreamsInv /\ [StreamsNext]_streamsVars => StreamsInv'
<1> SUFFICES ASSUME StreamsInv, [StreamsNext]_streamsVars PROVE StreamsInv'
  OBVIOUS
<1>1. ASSUME UNCHANGED <<source, stream, chunks>>,
             phase' = "ended" => Rest = 0, cursor' = "open" => phase' = "open"
      PROVE  StreamsInv'
  <2>1. Read' = Read /\ Yielded' = Yielded /\ RowsOf' = RowsOf /\ Pulled' = Pulled /\ UpTo(Pulled)' = UpTo(Pulled)
    BY <1>1 DEF Read, EngineReader, EngineReadPandas, EngineReadPolars, ConnectionReader, ReadPandas, ReadPolars,
                ReadArrow, ReadLists, All, Lowered, Yielded, RowsOf, Pulled, UpTo
  <2>2. phase' = "ended" => Pulled = source.rows
    BY <1>1 DEF Rest, Pulled, StreamsInv
  <2> QED
    BY <1>1, <2>1, <2>2 DEF StreamsInv
<1>2. CASE Execute
  BY <1>1, <1>2 DEF Execute, StreamsInv
<1>3. CASE Exhaust
  <2>1. Rest = 0
    BY <1>3, RowsLeft DEF Exhaust, StreamsInv
  <2> QED
    BY <1>1, <1>3, <2>1 DEF Exhaust, Close
<1>4. CASE Abandon
  BY <1>1, <1>4 DEF Abandon, Close
<1>5. CASE UNCHANGED streamsVars
  <2>1. phase' = "ended" => Rest = 0
    BY <1>5 DEF streamsVars, StreamsInv, Rest, Pulled
  <2> QED
    BY <1>1, <1>5, <2>1 DEF streamsVars, StreamsInv
<1>6. CASE Pull
  <2>1. PICK f \in Frames :
          /\ phase' = IF f = None THEN "raised" ELSE "open"
          /\ cursor' = IF f = None THEN Close ELSE cursor
          /\ chunks' = IF f = None THEN chunks ELSE Append(chunks, f)
    BY <1>6 DEF Pull
  <2>2. UNCHANGED <<source, stream>> /\ phase = "open"
    BY <1>6 DEF Pull
  <2>3. CASE f = None
    BY <1>1, <2>1, <2>2, <2>3 DEF Close
  <2>4. CASE f # None
    <3>1. phase' = "open" /\ cursor' = cursor /\ chunks' = Append(chunks, f)
      BY <2>1, <2>4
    <3>2. PICK n \in 0 .. Rest : f.columns = Read.columns /\ f.rows = NextRows(n)
      BY <2>4, PulledFrame DEF StreamsInv
    <3>3. /\ source.rows \in Nat /\ Pulled \in 0 .. source.rows /\ Rest = source.rows - Pulled
          /\ RowsOf \in Seq(Seq(Int)) /\ Yielded = UpTo(Pulled)
      BY DEF StreamsInv, Rest, Pulled
    <3>4. f.rows \in Seq(Int) /\ Len(f.rows) = n /\ n \in Nat /\ \A i \in 1 .. n : f.rows[i] = Pulled + i
      BY <3>2, <3>3 DEF NextRows, Pulled
    <3>5. /\ RowsOf' = Append(RowsOf, f.rows) /\ IsStack(chunks')
          /\ \A i \in DOMAIN chunks' : i \notin DOMAIN chunks => chunks'[i] = f
          /\ \A i \in DOMAIN chunks : chunks'[i] = chunks[i]
      BY <3>1, RowsAppend DEF StreamsInv
    <3>6. RowsOf' \in Seq(Seq(Int)) /\ Yielded' = Yielded \o f.rows
      <4>1. Yielded = FlattenSeq(RowsOf) /\ Yielded' = FlattenSeq(RowsOf')
        BY DEF Yielded, RowsOf
      <4>2. f.rows \in Seq(Int) /\ RowsOf \in Seq(Seq(Int))
        BY <3>3, <3>4
      <4>3. Append(RowsOf, f.rows) \in Seq(Seq(Int))
        BY <4>2, Appended
      <4>4. FlattenSeq(Append(RowsOf, f.rows)) = FlattenSeq(RowsOf) \o f.rows
        BY <4>2, FlatAppend
      <4> QED
        BY <3>5, <4>1, <4>3, <4>4
    <3>7. Pulled' = Pulled + n /\ Yielded' = UpTo(Pulled + n)
      <4>1. Pulled \in Nat /\ n \in Nat /\ f.rows \in Seq(Int)
        BY <3>3, <3>4
      <4>2. UpTo(Pulled) \o f.rows = UpTo(Pulled + n) /\ Len(UpTo(Pulled) \o f.rows) = Pulled + n
        <5> HIDE DEF Pulled
        <5> QED
          BY <3>4, <4>1, UpToFollowed
      <4>3. Yielded' = UpTo(Pulled) \o f.rows
        BY <3>3, <3>6
      <4>4. Pulled' = Len(Yielded')
        BY DEF Pulled
      <4> QED
        BY <4>2, <4>3, <4>4
    <3>8. Pulled' \in 0 .. source.rows
      BY <3>2, <3>3, <3>7
    <3>9. Read' = Read
      BY <2>2 DEF Read, EngineReader, EngineReadPandas, EngineReadPolars, ConnectionReader, ReadPandas, ReadPolars,
                  ReadArrow, ReadLists, All, Lowered
    <3>10. \A i \in DOMAIN chunks' : chunks'[i].columns = Read.columns
      BY <3>2, <3>5 DEF StreamsInv
    <3> QED
      BY <2>2, <3>1, <3>5, <3>6, <3>7, <3>8, <3>9, <3>10 DEF StreamsInv, UpTo
  <2> QED
    BY <2>3, <2>4
<1> QED
  BY <1>2, <1>3, <1>4, <1>5, <1>6 DEF StreamsNext

(* "Stream a SQL query through *streamer* in DataFrame chunks" (read.py,   *)
(* stream_query): for any result, chunk size and driver that cuts it, the  *)
(* frames are the rows of a read in order, with its columns, and all of    *)
(* them when the stream ends; a cursor is closed however it ends.          *)
THEOREM StreamsAreWhole == StreamsSpec => []StreamsComeToAnEnd
<1>1. StreamsInv => StreamsComeToAnEnd
  <2> SUFFICES ASSUME StreamsInv PROVE StreamIsRead /\ CursorsClose
    BY DEF StreamsComeToAnEnd
  <2>1. /\ source.rows \in Nat /\ Pulled \in 0 .. source.rows /\ Pulled = Len(Yielded)
        /\ Yielded = UpTo(Pulled) /\ All = UpTo(source.rows)
    BY DEF StreamsInv, Pulled, All, UpTo
  <2>2. IsPrefix(Yielded, All)
    <3>1. Len(All) = source.rows
      BY <2>1 DEF UpTo
    <3>2. SubSeq(UpTo(Pulled), 1, Pulled) = SubSeq(UpTo(source.rows), 1, Pulled)
      <4> HIDE DEF Pulled
      <4> QED
        BY <2>1 DEF UpTo
    <3> QED
      BY <2>1, <3>1, <3>2 DEF IsPrefix
  <2> QED
    BY <2>1, <2>2 DEF StreamsInv, StreamIsRead, CursorsClose
<1> QED
  BY <1>1, StreamsBegin, StreamsStep, PTL DEF StreamsSpec
=============================================================================
