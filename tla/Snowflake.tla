----------------------------- MODULE Snowflake ------------------------------
(***************************************************************************)
(* The context of one Snowpark session (mayutils.interfaces.data.snowflake:*)
(* role, warehouse, database and schema), that blocks of using switch for a*)
(* while and that the threads of read_concurrent_queries share.  The       *)
(* service is external: USE DATABASE also makes the schema PUBLIC.         *)
(***************************************************************************)
EXTENDS Integers, Sequences, Python

CONSTANTS
  Config,    \* the configurations: what from_env read and update changed
  Blocks,    \* what blocks of using request
  Public,    \* the schema PUBLIC
  Tasks,     \* how many callables read_concurrent_queries is given
  MaxUses,   \* bound: the blocks of using in all
  MaxRefusals \* bound: how many switches the service refuses

\* The program and the threads of the pool.
Thread == 0 .. Tasks

\* What using goes through, and where it stands in that.
Dimension == {"role", "warehouse", "database", "schema"}
Rank == [role |-> 1, warehouse |-> 2, database |-> 3, schema |-> 4]

IsNext(d, ds) == d \in ds /\ \A e \in ds : Rank[d] <= Rank[e]

ASSUME SnowflakeAssumption ==
  /\ Tasks \in Nat
  /\ MaxUses \in Nat
  /\ MaxRefusals \in Nat
  /\ \A r \in Blocks : DOMAIN r = Dimension
  /\ Public # None

VARIABLES
  context,   \* the current role, warehouse, database and schema
  blocks,    \* each thread's open blocks of using, the innermost first
  raising,   \* the threads that an exception is passing through
  submitted, \* the callables: what has become of each
  uses,
  refusals

snowflakeVars == <<context, blocks, raising, submitted, uses, refusals>>

-----------------------------------------------------------------------------
(* Configurations: a record of authentication, key and the dimensions.     *)

\* from_env: what is set and not empty in the environment, and then the overrides
FromEnv(env, overrides) ==
  [f \in {"authentication", "key"} \cup Dimension |->
     IF f \in DOMAIN overrides THEN overrides[f]
     ELSE IF f \in DOMAIN env /\ env[f] # "" THEN env[f]
     ELSE IF f = "authentication" THEN "browser" ELSE None]

\* update, to which an override with None also sets the field
Update(config, updates) ==
  [f \in DOMAIN config |-> IF f \in DOMAIN updates THEN updates[f] ELSE config[f]]

\* connection_parameters, of which url is made
ConnectionParameters(config) ==
  [f \in {d \in Dimension : config[d] # None}
         \cup (IF config.authentication = "browser" THEN {"authenticator"} ELSE {}) |->
     IF f = "authenticator" THEN "externalbrowser" ELSE config[f]]

\* unencrypted_private_key: the key, or "raises" for the browser's authentication
UnencryptedPrivateKey(config) ==
  IF config.key = None THEN None
  ELSE IF config.authentication = "browser" THEN "raises" ELSE config.key

\* get_connection_arguments: the caller's, and the key for PEM and DER but not for raw
ConnectionArguments(config, arguments) ==
  [a \in DOMAIN arguments
         \cup (IF config.authentication \in {"private_key_pem", "private_key_der"}
               THEN {"private_key"} ELSE {}) |->
     IF a = "private_key" /\ config.authentication # "private_key_raw"
     THEN UnencryptedPrivateKey(config) ELSE arguments[a]]

\* to_connection: the parameters, the arguments and then the caller's own
Connection(config, arguments, kwargs) ==
  LET args == ConnectionArguments(config, arguments)
      params == ConnectionParameters(config)
  IN [a \in DOMAIN params \cup DOMAIN args \cup DOMAIN kwargs |->
        IF a \in DOMAIN kwargs THEN kwargs[a] ELSE IF a \in DOMAIN args THEN args[a] ELSE params[a]]

\* SnowflakeExtendedConnection.to_config, of a session through its connection
ToConfig(kwargs) ==
  [f \in {"authentication", "key"} \cup Dimension |->
     IF f \in Dimension THEN context[f]
     ELSE IF f \in DOMAIN kwargs THEN kwargs[f]
     ELSE IF f = "authentication" THEN "browser" ELSE None]

\* The context that a session begins in: that of its connection.
Begins(config) ==
  LET connection == Connection(config, <<>>, <<>>) IN
  [d \in Dimension |-> IF d \in DOMAIN connection THEN connection[d] ELSE None]

-----------------------------------------------------------------------------
\* The service: USE for a dimension.
Use(d, v) == IF d = "database" THEN [context EXCEPT !.database = v, !.schema = Public]
             ELSE [context EXCEPT ![d] = v]

Top(t) == Head(blocks[t])

\* A thread that runs the program's own statements.
InBody(t) ==
  /\ blocks[t] # <<>> => Top(t).phase = "body"
  /\ IF t = 0 THEN \A i \in DOMAIN submitted : submitted[i] # "running" ELSE submitted[t] = "running"

SnowflakeInit ==
  /\ \E config \in Config : context = Begins(config)
  /\ blocks = [t \in Thread |-> <<>>]
  /\ raising = {}
  /\ submitted = [i \in 1 .. Tasks |-> "none"]
  /\ uses = 0
  /\ refusals = 0

\* A block that is not alone any more in switching.
Aside(b) == [b EXCEPT !.alone = FALSE]

\* Thread t switches the context, and its block becomes top: the blocks of other
\* threads are not alone with it, nor are the outer ones of t when it is the database.
Switches(t, d, v, top) ==
  /\ context' = Use(d, v)
  /\ blocks' = [u \in Thread |-> [i \in DOMAIN blocks[u] |->
       IF u = t /\ i = 1 THEN top
       ELSE IF u = t /\ d # "database" THEN blocks[u][i]
       ELSE Aside(blocks[u][i])]]

\* The service refuses the setter: the exception leaves the block as it stands, and
\* with it what the outer blocks have around them.
Refused(t) ==
  /\ refusals < MaxRefusals
  /\ refusals' = refusals + 1
  /\ blocks' = [blocks EXCEPT ![t] = Tail([i \in DOMAIN @ |-> Aside(@[i])])]
  /\ raising' = raising \cup {t}
  /\ UNCHANGED <<context, submitted, uses>>

\* using: the dimensions that are requested, in their order
Using(t, requested) ==
  /\ InBody(t) /\ t \notin raising
  /\ uses < MaxUses
  /\ uses' = uses + 1
  /\ blocks' = [blocks EXCEPT ![t] =
       <<[requested |-> requested, before |-> context, alone |-> TRUE,
          phase |-> "enter", restores |-> <<>>,
          todo |-> {d \in Dimension : requested[d] # None}]>> \o @]
  /\ UNCHANGED <<context, raising, submitted, refusals>>

\* The block b once it has noted the value of d, if there is one, and once it has
\* restored it.
Noted(b, d) ==
  [b EXCEPT !.todo = @ \ {d},
            !.restores = IF context[d] = None THEN @
                         ELSE [e \in DOMAIN @ \cup {d} |-> IF e = d THEN context[d] ELSE @[e]]]
Restored(b, d) == [b EXCEPT !.restores = [e \in DOMAIN @ \ {d} |-> @[e]]]

\* using: the getter and the setter of the next dimension, before the try
Enter(t) ==
  /\ blocks[t] # <<>> /\ Top(t).phase = "enter"
  /\ \E d \in Dimension :
       /\ IsNext(d, Top(t).todo)
       /\ \/ /\ Switches(t, d, Top(t).requested[d], Noted(Top(t), d))
             /\ UNCHANGED <<raising, submitted, uses, refusals>>
          \/ Refused(t)

\* using: yield
Yield(t) ==
  /\ blocks[t] # <<>> /\ Top(t).phase = "enter" /\ Top(t).todo = {}
  /\ blocks' = [blocks EXCEPT ![t][1].phase = "body"]
  /\ UNCHANGED <<context, raising, submitted, uses, refusals>>

\* Mutant of Leave: the restores come after the yield, without the finally.
LeaveUnprotected(t, fails) ==
  /\ InBody(t) /\ blocks[t] # <<>>
  /\ t \in raising => fails
  /\ blocks' = [blocks EXCEPT ![t][1].phase = "exit",
                              ![t][1].restores = IF fails THEN <<>> ELSE @]
  /\ raising' = IF fails THEN raising \cup {t} ELSE raising
  /\ UNCHANGED <<context, submitted, uses, refusals>>

\* The block ends, or raises; a query that fails raises as well.
Leave(t, fails) ==
  /\ InBody(t) /\ blocks[t] # <<>>
  /\ t \in raising => fails
  /\ blocks' = [blocks EXCEPT ![t][1].phase = "exit"]
  /\ raising' = IF fails THEN raising \cup {t} ELSE raising
  /\ UNCHANGED <<context, submitted, uses, refusals>>

\* using: the next setter of the finally
Restore(t) ==
  /\ blocks[t] # <<>> /\ Top(t).phase = "exit"
  /\ \E d \in Dimension :
       /\ IsNext(d, DOMAIN Top(t).restores)
       /\ \/ /\ Switches(t, d, Top(t).restores[d], Restored(Top(t), d))
             /\ UNCHANGED <<raising, submitted, uses, refusals>>
          \/ Refused(t)

Left(t) ==
  /\ blocks[t] # <<>> /\ Top(t).phase = "exit" /\ DOMAIN Top(t).restores = {}
  /\ blocks' = [blocks EXCEPT ![t] = Tail(@)]
  /\ UNCHANGED <<context, raising, submitted, uses, refusals>>

\* read_concurrent_queries: submit, each to a thread of its own
Submit ==
  /\ InBody(0) /\ 0 \notin raising
  /\ submitted = [i \in 1 .. Tasks |-> "none"]
  /\ submitted' = [i \in 1 .. Tasks |-> "running"]
  /\ UNCHANGED <<context, blocks, raising, uses, refusals>>

\* A callable returns, or raises.
EndTask(i) ==
  /\ submitted[i] = "running" /\ blocks[i] = <<>>
  /\ submitted' = [submitted EXCEPT ![i] = IF i \in raising THEN "raised" ELSE "returned"]
  /\ raising' = raising \ {i}
  /\ UNCHANGED <<context, blocks, uses, refusals>>

\* read_concurrent_queries: the results in order, or the first exception, once the
\* pool is joined
Gather ==
  /\ \A i \in DOMAIN submitted : submitted[i] \in {"returned", "raised"}
  /\ Tasks > 0
  /\ submitted' = [i \in 1 .. Tasks |-> "none"]
  /\ raising' = IF \E i \in DOMAIN submitted : submitted[i] = "raised" THEN {0} ELSE {}
  /\ UNCHANGED <<context, blocks, uses, refusals>>

\* The program handles what was raised, and it may open a session: a fresh one, of
\* a configuration or of that of the session it has (to_config), where
\* to_snowpark_session would otherwise return the one that is open.
Handle ==
  /\ 0 \in raising /\ blocks[0] = <<>>
  /\ raising' = raising \ {0}
  /\ UNCHANGED <<context, blocks, submitted, uses, refusals>>

Open(config, fresh) ==
  /\ InBody(0) /\ blocks[0] = <<>>
  /\ context' = IF fresh THEN Begins(config) ELSE context
  /\ UNCHANGED <<blocks, raising, submitted, uses, refusals>>

SnowflakeNext ==
  \/ \E t \in Thread :
       \/ \E r \in Blocks : Using(t, r)
       \/ Enter(t) \/ Yield(t) \/ Restore(t) \/ Left(t)
       \/ \E fails \in BOOLEAN : Leave(t, fails)
  \/ Submit \/ Gather \/ Handle
  \/ \E i \in 1 .. Tasks : EndTask(i)
  \/ \E config \in Config \cup {ToConfig(<<>>)}, fresh \in BOOLEAN : Open(config, fresh)

SnowflakeSpec == SnowflakeInit /\ [][SnowflakeNext]_snowflakeVars

-----------------------------------------------------------------------------
(* "on exit every recorded value is restored, even if the block raises"    *)
(* (snowflake, using), and within the block it is as requested, while what *)
(* is not requested stays: so long as no other thread of the session       *)
(* switches and no inner block takes another database.  Less than the      *)
(* docstring says: a database takes the schema to PUBLIC, where it stays   *)
(* after the block, requested or not; a value that was None is not         *)
(* restored; and a setter that the service refuses ends the block with     *)
(* whatever was switched or not yet restored (the first setters are called *)
(* before the try, and the restores one after the other).                  *)
UsingRestores ==
  \A t \in Thread : blocks[t] # <<>> /\ Top(t).alone =>
    LET b == Top(t)
        by(d) == d = "schema" /\ b.requested.database # None
        kept(d) == IF by(d) THEN Public ELSE b.before[d] IN
    \A d \in Dimension :
      /\ b.phase = "body" /\ b.requested[d] # None => context[d] = b.requested[d]
      /\ b.phase = "exit" /\ DOMAIN b.restores = {} /\ b.requested[d] # None =>
           context[d] = IF kept(d) = None THEN b.requested[d] ELSE kept(d)
      /\ b.phase # "enter" /\ b.requested[d] = None /\ kept(d) # None => context[d] = kept(d)
=============================================================================
