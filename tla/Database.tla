------------------------------ MODULE Database ------------------------------
(***************************************************************************)
(* core/database.py as the storages use it: every storage gets its session  *)
(* from Database.get_session, an async_scoped_session keyed by the running  *)
(* coroutine.  A session takes a connection of the pool with its first      *)
(* statement and gives it back when it commits or closes; row locks last as *)
(* long as the transaction, so no longer than the connection is held.  The  *)
(* settings choose the database.  On MySQL, at its default isolation level  *)
(* REPEATABLE READ, SELECT ... FOR UPDATE locks a missing row too: the gap  *)
(* of the primary key it would lie in, which any number of sessions may     *)
(* lock together and into which none but the only holder can then insert.   *)
(* PostgreSQL has no such locks.  SQLite, which the settings also allow, is *)
(* left out: FOR UPDATE is no part of its statements.                       *)
(***************************************************************************)
EXTENDS Naturals, FiniteSets

CONSTANTS Clients,     \* coroutines (asyncio tasks) that use the database
          Rows,        \* rows that SELECT ... FOR UPDATE may lock
          PoolSize,    \* pool_size + max_overflow
          Nobody       \* no session

ASSUME PoolAssumption ==
    /\ IsFiniteSet(Clients)
    /\ PoolSize \in Nat \ {0}
    /\ Nobody \notin Clients \X {0, 1}

VARIABLES engine,      \* settings.ENGINE
          conn,        \* the sessions that hold a connection
          lockedBy,    \* the session that holds each row's lock
          gaps         \* the sessions that lock a missing row, with the row

lockVars == <<engine, lockedBy, gaps>>

Engines == {"mysql", "postgresql"}

\* A faulty variant: every `async with` block has a session of its own.
SessionPerBlock(c, depth) == <<c, depth>>

\* The session an `async with` block gets, depth blocks deep: scopefunc is
\* asyncio.current_task, so nested blocks of a coroutine share one.
SessionOf(c, depth) == <<c, 0>>

Sessions == Clients \X {0, 1}

DbTypeOK ==
    /\ engine \in Engines
    /\ gaps \subseteq Sessions \X Rows
    /\ conn \subseteq Sessions
    /\ Cardinality(conn) <= PoolSize
    /\ lockedBy \in [Rows -> Sessions \cup {Nobody}]

DbInit ==
    /\ engine \in Engines
    /\ gaps = {}
    /\ conn = {}
    /\ lockedBy = [r \in Rows |-> Nobody]

PoolFull(s) == s \notin conn /\ Cardinality(conn) >= PoolSize

\* A faulty variant: the pool has no bound.
ConnectUnbounded(s) == conn' = conn \cup {s}

\* The first statement of a transaction waits for a connection.
Connect(s) ==
    /\ ~PoolFull(s)
    /\ conn' = conn \cup {s}

\* SELECT ... FOR UPDATE waits for the row.
LockRow(s, r) ==
    /\ lockedBy[r] \in {Nobody, s}
    /\ lockedBy' = [lockedBy EXCEPT ![r] = s]
    /\ UNCHANGED <<engine, gaps>>

\* ... or, where there is no row, locks the gap of the index and waits for none.
LockGap(s, r) ==
    /\ gaps' = IF engine = "mysql" THEN gaps \cup {<<s, r>>} ELSE gaps
    /\ UNCHANGED <<engine, lockedBy>>

\* commit, rollback or close: locks and connection are given back.
Close(s) ==
    /\ conn' = conn \ {s}
    /\ lockedBy' = [r \in Rows |-> IF lockedBy[r] = s THEN Nobody
                                                      ELSE lockedBy[r]]
    /\ gaps' = {g \in gaps : g[1] # s}
    /\ UNCHANGED engine
=============================================================================
