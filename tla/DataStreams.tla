---------------------------- MODULE DataStreams -----------------------------
(***************************************************************************)
(* Readers and streamers of query results: those of a database engine      *)
(* (environment.databases.EngineWrapper), of a Snowflake connection or     *)
(* session, and stream_query (data.read) over a streamer.  A read returns a*)
(* frame; a stream is a generator that runs its query at the first pull and*)
(* yields frames.  The drivers, which cut the result into batches, are     *)
(* external.                                                               *)
(***************************************************************************)
EXTENDS Integers, Sequences, SequencesExt, Python

CONSTANTS
  Columns,   \* the results: the sequences of columns that a query can have
  MaxRows,   \* bound: the rows of a result
  Chunk      \* the chunk sizes

ASSUME DataStreamsAssumption ==
  /\ MaxRows \in Nat
  /\ Chunk \subseteq Nat \ {0}
  /\ None # "open"

Provider == {"engine", "connection", "lists"}
Backend == {"pandas", "polars", "modin", None}

VARIABLES
  source,   \* the rows of the result, by number, and its columns
  stream,   \* the generator: whose it is, and how it was called
  phase,    \* "fresh", "open", "ended", "closed" or "raised"
  cursor,   \* the connection's cursor: None, "open" or "closed"
  chunks    \* the frames it has yielded

streamsVars == <<source, stream, phase, cursor, chunks>>

-----------------------------------------------------------------------------
\* A column is its name and whether it is written in capitals; two columns may
\* have one name but for that.
Lowered(columns, lower) ==
  IF lower THEN [i \in DOMAIN columns |-> [columns[i] EXCEPT !.capital = FALSE]] ELSE columns

Frame(columns, rows) == [columns |-> columns, rows |-> rows]

\* A polars frame has no two columns of one name: what makes it raises.
PolarsFrame(columns, rows) ==
  IF IsInjective(columns) THEN Frame(columns, rows) ELSE None

\* read_pandas and read_polars of an engine
EngineReadPandas(lower, rows) == Frame(Lowered(source.columns, lower), rows)
EngineReadPolars(lower, rows) == PolarsFrame(Lowered(source.columns, lower), rows)

\* read_pandas, read_arrow and read_polars of a connection
ReadPandas(lower, rows) == Frame(Lowered(source.columns, lower), rows)
ReadArrow(lower, rows) == Frame(Lowered(source.columns, lower), rows)
ReadPolars(lower, rows) ==
  LET table == ReadArrow(lower, rows) IN PolarsFrame(table.columns, table.rows)

\* default_backend
OrDefault(backend) == IF backend = None THEN "pandas" ELSE backend

\* to_reader of an engine: None when it raises
EngineReader(backend, lower, rows) ==
  CASE OrDefault(backend) = "pandas" -> EngineReadPandas(lower, rows)
    [] OrDefault(backend) = "polars" -> EngineReadPolars(lower, rows)
    [] OTHER -> None

\* to_reader of a connection, which a session's is
ConnectionReader(backend, lower, rows) ==
  CASE OrDefault(backend) = "pandas" -> ReadPandas(lower, rows)
    [] OrDefault(backend) = "polars" -> ReadPolars(lower, rows)
    [] OTHER -> None

\* read_lists
ReadLists(rows) == Frame(source.columns, rows)

All == [i \in 1 .. source.rows |-> i]

\* What a read returns for the query of the stream.
Read ==
  CASE stream.provider = "engine" -> EngineReader(stream.backend, stream.lower, All)
    [] stream.provider = "connection" -> ConnectionReader(stream.backend, stream.lower, All)
    [] OTHER -> ReadLists(All)

-----------------------------------------------------------------------------
Yielded == FlattenSeq([i \in DOMAIN chunks |-> chunks[i].rows])

Rest == source.rows - Len(Yielded)

NextRows(n) == [i \in 1 .. n |-> Len(Yielded) + i]

\* The batches that the drivers may cut next: pandas yields an empty frame for a
\* result without rows, and polars may.
EngineBatches ==
  IF Rest > 0 THEN {IF Rest < stream.chunk THEN Rest ELSE stream.chunk}
  ELSE IF chunks = <<>> THEN {0} ELSE {}
ServiceBatches == 1 .. Rest

\* Mutant of StreamLists: a batch that is not full is the last, and lost.
StreamFullLists ==
  {Frame(source.columns, NextRows(n)) : n \in IF Rest < stream.chunk THEN {} ELSE {stream.chunk}}

\* stream_lists: fetchmany until nothing comes
StreamLists ==
  {Frame(source.columns, NextRows(n)) :
     n \in IF Rest = 0 THEN {} ELSE {IF Rest < stream.chunk THEN Rest ELSE stream.chunk}}

\* stream_pandas and stream_polars of an engine
EngineStreamPandas == {EngineReadPandas(stream.lower, NextRows(n)) : n \in EngineBatches}
EngineStreamPolars == {EngineReadPolars(stream.lower, NextRows(n)) : n \in EngineBatches}

\* stream_pandas, stream_arrow and stream_polars of a connection
StreamPandas == {ReadPandas(stream.lower, NextRows(n)) : n \in ServiceBatches}
StreamArrow == {ReadArrow(stream.lower, NextRows(n)) : n \in ServiceBatches}
StreamPolars == {PolarsFrame(t.columns, t.rows) : t \in StreamArrow}

\* to_streamer: the next frames, None for one that cannot be made
EngineStreamer ==
  CASE OrDefault(stream.backend) = "pandas" -> EngineStreamPandas
    [] OrDefault(stream.backend) = "polars" -> EngineStreamPolars
    [] OTHER -> {None}
ConnectionStreamer ==
  CASE OrDefault(stream.backend) = "pandas" -> StreamPandas
    [] OrDefault(stream.backend) = "polars" -> StreamPolars
    [] OTHER -> {None}

Frames == CASE stream.provider = "engine" -> EngineStreamer
            [] stream.provider = "connection" -> ConnectionStreamer
            [] OTHER -> StreamLists

HasCursor == stream.provider # "engine"

-----------------------------------------------------------------------------
\* A streamer is called; a connection's refuses another backend at once, the rest
\* and stream_query at the first pull.
StreamsInit ==
  /\ \E columns \in Columns, rows \in 0 .. MaxRows :
       source = [columns |-> columns, rows |-> rows]
  /\ \E p \in Provider, b \in Backend, l \in BOOLEAN, n \in Chunk, q \in BOOLEAN :
       /\ p = "lists" => b = None /\ ~l /\ ~q
       /\ stream = [provider |-> p, backend |-> b, lower |-> l, chunk |-> n, query |-> q]
       /\ phase = IF p = "connection" /\ ~q /\ b = "modin" THEN "raised" ELSE "fresh"
  /\ cursor = None
  /\ chunks = <<>>

\* execute_query leaves: the cursor is closed, however the block ends
Close == IF cursor = "open" THEN "closed" ELSE cursor

\* stream_query and the generators: the first pull renders and executes
Execute ==
  LET supported == stream.backend # "modin" IN
  /\ phase = "fresh"
  /\ phase' = IF supported THEN "open" ELSE "raised"
  /\ cursor' = IF supported /\ HasCursor THEN "open" ELSE cursor
  /\ UNCHANGED <<source, stream, chunks>>

\* A pull: the next frame is yielded, or cannot be made.
Pull ==
  /\ phase = "open"
  /\ \E f \in Frames :
       /\ phase' = IF f = None THEN "raised" ELSE "open"
       /\ cursor' = IF f = None THEN Close ELSE cursor
       /\ chunks' = IF f = None THEN chunks ELSE Append(chunks, f)
  /\ UNCHANGED <<source, stream>>

\* A pull finds the end, as it may for polars on an empty result.
Exhaust ==
  /\ phase = "open"
  /\ Frames = {} \/ (Rest = 0 /\ OrDefault(stream.backend) = "polars")
  /\ phase' = "ended"
  /\ cursor' = Close
  /\ UNCHANGED <<source, stream, chunks>>

\* The driver fails, or the consumer closes the generator.
Abandon ==
  /\ phase = "open"
  /\ phase' \in {"raised", "closed"}
  /\ cursor' = Close
  /\ UNCHANGED <<source, stream, chunks>>

StreamsNext == Execute \/ Pull \/ Exhaust \/ Abandon

StreamsSpec == StreamsInit /\ [][StreamsNext]_streamsVars

-----------------------------------------------------------------------------
(* "Stream a SQL query through *streamer* in DataFrame chunks" (read.py,   *)
(* stream_query; databases, stream_pandas; snowflake, stream_arrow): for   *)
(* every backend and chunk size the frames are the read's rows in order,   *)
(* none twice, with its columns, and all of them when the stream ends.     *)
StreamIsRead ==
  /\ IsPrefix(Yielded, All)
  /\ phase = "ended" => Yielded = All
  /\ \A i \in DOMAIN chunks : chunks[i].columns = Read.columns

(* execute_query (snowflake) closes its cursor when the stream has ended,  *)
(* failed or was closed by a consumer that read a part of it.              *)
CursorsClose == phase \in {"ended", "closed", "raised"} => cursor # "open"

(* The two: a stream gives all that was asked for, and leaves nothing open.*)
StreamsComeToAnEnd == StreamIsRead /\ CursorsClose
=============================================================================
