--------------------------- MODULE MCEnvironment ----------------------------
(***************************************************************************)
(* The components of mayutils.environment, of the sessions of the package  *)
(* and of Google's documents (MCGoogle), which share no state, each on a   *)
(* small instance: a behaviour is one of one of them.                      *)
(***************************************************************************)
EXTENDS MCGoogle, Snowflake, DataStreams, Logging, OAuth, StreamlitGate

CONSTANTS h1, h2  \* handlers

\* The values of part, beside those of MCGoogle.
Sessions == {"snowflake", "streams", "logging", "oauth", "streamlit"}

Wanted(r, w, d, s) == [role |-> r, warehouse |-> w, database |-> d, schema |-> s]

SmallRequests ==
  {Wanted("a", None, "a", None), Wanted(None, None, "b", "b"), Wanted(None, None, None, "a")}
SmallConfigs ==
  {FromEnv([role |-> "r", schema |-> "s", database |-> "d"],
           [authentication |-> "private_key_pem", key |-> "k"]),
   Update(FromEnv([role |-> "", database |-> "d"], [warehouse |-> None]), [schema |-> None])}

Col(name, capital) == [name |-> name, capital |-> capital]
SmallColumns == {<<Col("a", TRUE)>>, <<Col("a", FALSE), Col("a", TRUE)>>}

Decoration(handlers, level, entry, exit, exception, attributes) ==
  [handlers |-> handlers, level |-> level, entry |-> entry, exit |-> exit,
   exception |-> exception, attributes |-> attributes]
SmallTargets ==
  {Decoration({h1, None}, Debug, TRUE, TRUE, FALSE, None),
   Decoration({h1, h2}, Warning, FALSE, TRUE, TRUE,
              {[dunder |-> TRUE, callable |-> TRUE], [dunder |-> FALSE, callable |-> TRUE]}),
   Decoration({None}, 0, TRUE, FALSE, TRUE, None)}

AllInit ==
  /\ \/ PartsInit
     \/ part \in Sessions /\ Init /\ Len(decks) = 1 /\ NoSheets
  /\ SnowflakeInit /\ (part # "snowflake" => context = Begins(CHOOSE c \in Config : TRUE))
  /\ IF part = "streams" THEN StreamsInit
     ELSE /\ source = [columns |-> <<>>, rows |-> 0]
          /\ stream = [provider |-> "lists", backend |-> None, lower |-> FALSE, chunk |-> 1, query |-> FALSE]
          /\ phase = "ended" /\ cursor = None /\ chunks = <<>>
  /\ LoggingInit
  /\ OAuthInit
  /\ StreamlitInit /\ (part # "streamlit" => hashed)

googleVars == <<vars, sheetsVars>>
sessionsVars == <<snowflakeVars, streamsVars, loggingVars, oauthVars, streamlitVars>>

AllNext ==
  \/ PartsNext /\ UNCHANGED sessionsVars
  \/ /\ UNCHANGED <<part, googleVars>>
     /\ \/ part = "snowflake" /\ SnowflakeNext
           /\ UNCHANGED <<streamsVars, loggingVars, oauthVars, streamlitVars>>
        \/ part = "streams" /\ StreamsNext
           /\ UNCHANGED <<snowflakeVars, loggingVars, oauthVars, streamlitVars>>
        \/ part = "logging" /\ LoggingNext
           /\ UNCHANGED <<snowflakeVars, streamsVars, oauthVars, streamlitVars>>
        \/ part = "oauth" /\ OAuthNext
           /\ UNCHANGED <<snowflakeVars, streamsVars, loggingVars, streamlitVars>>
        \/ part = "streamlit" /\ StreamlitNext
           /\ UNCHANGED <<snowflakeVars, streamsVars, loggingVars, oauthVars>>
=============================================================================
