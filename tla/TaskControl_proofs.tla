------------------------- MODULE TaskControl_proofs -------------------------
(***************************************************************************)
(* Theorems about TaskControl, for any number of clients, tasks, operators, *)
(* connections and faults.                                                  *)
(***************************************************************************)
EXTENDS TaskControl, FiniteSetTheorems, TLAPS

-----------------------------------------------------------------------------
(* The inductive invariant *)

\* A connection belongs to a call between a statement and the commit or close
\* after it, a row's lock to the one call that is about to write the row.
ConnHolders == {"operators", "fetched", "select", "write", "insert"}

\* On MySQL the gap of a missing row belongs to the calls about to insert it.
GapInv ==
    \A r \in Rows, c \in Clients :
        /\ <<<<c, 0>>, r>> \in gaps <=>
              engine = "mysql" /\ pc[c] = "insert" /\ target[c] = r
        /\ <<<<c, 1>>, r>> \notin gaps

HolderInv ==
    /\ \A s \in conn : s[2] = 0 /\ pc[s[1]] \in ConnHolders
    /\ \A r \in Rows, c \in Clients :
          /\ lockedBy[r] = <<c, 0>> <=> pc[c] = "write" /\ target[c] = r
          /\ lockedBy[r] # <<c, 1>>
    /\ GapInv

\* The row a call is about to write is the one it has checked.
VersionInv ==
    /\ VersionCountsWrites
    /\ \A t \in Tasks : Missing(t) => version[t] = 0
    /\ \A c \in Clients : pc[c] = "write" =>
          /\ ~Missing(target[c])
          /\ op[c] \notin Updates => seen[c] = version[target[c]]

\* The version a control call has loaded is never newer than its row's, and
\* only a submission inserts; a call that reads an operator had one to read.
SeenInv ==
    /\ \A c \in Clients : pc[c] \notin {"idle", "load"} /\ op[c] \in Controls =>
          ~Missing(target[c]) /\ seen[c] <= version[target[c]]
    /\ \A c \in Clients : pc[c] = "insert" => op[c] = "submit"
    /\ \A c \in Clients : pc[c] = "fetched" => left[c] > 0
    /\ \A c \in Clients : outcome[c] = "conflict" => pc[c] = "idle"
    /\ ConflictIsReal

-----------------------------------------------------------------------------
(* What a step does to the pool, the locks and the rows *)

\* A client moves, and its calls' targets stay unless it begins one.
Moves(c, to) ==
    /\ pc' = [pc EXCEPT ![c] = to]
    /\ \A d \in Clients : d # c => target'[d] = target[d]

\* Finitely many sessions hold a connection.
LEMMA ConnFinite == TypeOK => IsFiniteSet(conn)
<1>1. IsFiniteSet(Clients \X {0, 1})
  <2>1. IsFiniteSet({0} \cup {1})
    BY FS_Singleton, FS_AddElement
  <2>2. {0} \cup {1} = {0, 1}
    OBVIOUS
  <2>. QED
    BY <2>1, <2>2, PoolAssumption, FS_Product
<1>. QED
  BY <1>1, FS_Subset DEF TypeOK, DbTypeOK, Sessions

\* Three ways a step treats the gaps: it leaves them, a call about to insert
\* locks one, or a call gives back its own.
LEMMA GapEffect ==
    ASSUME TypeOK, GapInv, NEW c \in Clients, NEW to, Moves(c, to),
           engine' = engine,
           \/ gaps' = gaps /\ pc[c] # "insert" /\ to # "insert"
           \/ /\ LockGap(<<c, 0>>, target[c]) /\ target' = target
              /\ pc[c] # "insert" /\ to = "insert"
           \/ gaps' = {g \in gaps : g[1] # <<c, 0>>} /\ to # "insert"
    PROVE  /\ engine' \in Engines /\ gaps' \subseteq Sessions \X Rows
           /\ GapInv'
<1>1. engine \in Engines /\ gaps \subseteq Sessions \X Rows
      /\ target[c] \in Rows /\ <<c, 0>> \in Sessions
  BY ControlAssumption DEF TypeOK, DbTypeOK, Sessions
<1>2. engine' \in Engines /\ gaps' \subseteq Sessions \X Rows
  BY <1>1 DEF LockGap
<1>3. ASSUME NEW r \in Rows, NEW d \in Clients
      PROVE  /\ <<<<d, 0>>, r>> \in gaps' <=>
                   engine' = "mysql" /\ pc'[d] = "insert" /\ target'[d] = r
             /\ <<<<d, 1>>, r>> \notin gaps'
  <2>1. /\ <<<<d, 0>>, r>> \in gaps <=>
              engine = "mysql" /\ pc[d] = "insert" /\ target[d] = r
        /\ <<<<d, 1>>, r>> \notin gaps
    BY DEF GapInv
  <2>2. CASE d = c
    <3>1. pc'[d] = to
      BY <2>2 DEF TypeOK, Moves
    <3>. QED
      BY <2>1, <2>2, <3>1 DEF LockGap
  <2>3. CASE d # c
    <3>1. pc'[d] = pc[d] /\ target'[d] = target[d]
      BY <2>3 DEF TypeOK, Moves
    <3>. QED
      BY <2>1, <2>3, <3>1 DEF LockGap
  <2>. QED
    BY <2>2, <2>3
<1>. QED
  BY <1>2, <1>3 DEF GapInv

\* No connection and no lock is touched.
LEMMA KeepEffect ==
    ASSUME TypeOK, HolderInv, NEW c \in Clients, NEW to,
           Moves(c, to), UNCHANGED <<conn, lockVars>>,
           pc[c] \notin {"write", "insert"}, to # "write", to # "insert",
           pc[c] \in ConnHolders => to \in ConnHolders
    PROVE  DbTypeOK' /\ HolderInv'
<1>1. /\ engine' \in Engines /\ gaps' \subseteq Sessions \X Rows
      /\ GapInv'
  BY GapEffect DEF HolderInv, lockVars
<1>. QED
  BY <1>1 DEF TypeOK, DbTypeOK, Sessions, HolderInv, Moves, lockVars

\* A call locks the gap it is about to insert into.
LEMMA GapLockEffect ==
    ASSUME TypeOK, HolderInv, NEW c \in Clients,
           Moves(c, "insert"), target' = target, UNCHANGED conn,
           LockGap(SessionOf(c, 0), target[c]), pc[c] = "select"
    PROVE  DbTypeOK' /\ HolderInv'
<1>1. /\ engine' \in Engines /\ gaps' \subseteq Sessions \X Rows
      /\ GapInv'
  BY GapEffect DEF HolderInv, LockGap, SessionOf
<1>. QED
  BY <1>1 DEF TypeOK, DbTypeOK, Sessions, HolderInv, Moves, LockGap, ConnHolders

\* A connection is taken, or kept, without a lock.
LEMMA ConnectEffect ==
    ASSUME TypeOK, HolderInv, NEW c \in Clients, NEW d \in {0, 1}, NEW to,
           Moves(c, to), Connect(SessionOf(c, d)), UNCHANGED lockVars,
           pc[c] \notin {"write", "insert"},
           to \in ConnHolders \ {"write", "insert"}
    PROVE  DbTypeOK' /\ HolderInv'
<1>1. conn' = conn \cup {<<c, 0>>}
      /\ (<<c, 0>> \in conn \/ Cardinality(conn) < PoolSize)
  <2>1. Cardinality(conn) \in Nat
    BY ConnFinite, FS_CardinalityType
  <2>. QED
    BY <2>1, PoolAssumption DEF Connect, PoolFull, SessionOf
<1>2. Cardinality(conn') <= PoolSize
  <2>1. CASE <<c, 0>> \in conn
    <3>1. conn' = conn
      BY <1>1, <2>1
    <3>. QED
      BY <3>1 DEF TypeOK, DbTypeOK
  <2>2. CASE <<c, 0>> \notin conn
    <3>1. Cardinality(conn') = Cardinality(conn) + 1
      BY <1>1, <2>2, ConnFinite, FS_AddElement
    <3>2. Cardinality(conn) \in Nat
      BY ConnFinite, FS_CardinalityType
    <3>. QED
      BY <1>1, <2>2, <3>1, <3>2, PoolAssumption
  <2>. QED
    BY <2>1, <2>2
<1>3. /\ engine' \in Engines /\ gaps' \subseteq Sessions \X Rows
      /\ GapInv'
  BY GapEffect DEF HolderInv, lockVars
<1>4. DbTypeOK'
  BY <1>1, <1>2, <1>3 DEF TypeOK, DbTypeOK, Sessions, lockVars
<1>5. HolderInv'
  BY <1>1, <1>3 DEF TypeOK, DbTypeOK, Sessions, HolderInv, Moves, lockVars
<1>. QED
  BY <1>4, <1>5

\* The row's lock is taken by the call that goes on to write it.
LEMMA LockEffect ==
    ASSUME TypeOK, HolderInv, NEW c \in Clients,
           Moves(c, "write"), target' = target, UNCHANGED conn,
           LockRow(SessionOf(c, 0), target[c]), pc[c] = "select"
    PROVE  DbTypeOK' /\ HolderInv'
<1>1. /\ target[c] \in Rows /\ lockedBy \in [Rows -> Sessions \cup {Nobody}]
      /\ lockedBy' = [lockedBy EXCEPT ![target[c]] = <<c, 0>>]
      /\ lockedBy[target[c]] = Nobody \/ lockedBy[target[c]] = <<c, 0>>
  BY ControlAssumption DEF TypeOK, DbTypeOK, LockRow, SessionOf
<1>0. /\ engine' \in Engines /\ gaps' \subseteq Sessions \X Rows
      /\ GapInv'
  BY GapEffect DEF HolderInv, LockRow
<1>2. DbTypeOK'
  BY <1>0, <1>1 DEF TypeOK, DbTypeOK, Sessions
<1>3. lockedBy[target[c]] = Nobody
  BY <1>1 DEF HolderInv
<1>4. \A d \in Clients : lockedBy[target[c]] # <<d, 0>>
  BY <1>3, PoolAssumption
<1>5. \A s \in conn' : s[2] = 0 /\ pc'[s[1]] \in ConnHolders
  BY DEF TypeOK, DbTypeOK, Sessions, HolderInv, Moves, ConnHolders
<1>6. ASSUME NEW r \in Rows, NEW d \in Clients
      PROVE  /\ lockedBy'[r] = <<d, 0>> <=> pc'[d] = "write" /\ target'[d] = r
             /\ lockedBy'[r] # <<d, 1>>
  <2>1. CASE r = target[c]
    BY <1>1, <1>4, <2>1 DEF TypeOK, HolderInv, Moves
  <2>2. CASE r # target[c]
    BY <1>1, <2>2 DEF TypeOK, HolderInv, Moves
  <2>. QED
    BY <2>1, <2>2
<1>. QED
  BY <1>0, <1>2, <1>5, <1>6 DEF HolderInv

\* A commit, a rollback or a close gives everything back.
LEMMA CloseEffect ==
    ASSUME TypeOK, HolderInv, NEW c \in Clients, NEW d \in {0, 1}, NEW to,
           Moves(c, to), target' = target, Close(SessionOf(c, d)),
           to # "write", to # "insert"
    PROVE  DbTypeOK' /\ HolderInv'
<1>1. /\ conn' = conn \ {<<c, 0>>}
      /\ lockedBy' = [r \in Rows |-> IF lockedBy[r] = <<c, 0>> THEN Nobody
                                                              ELSE lockedBy[r]]
  BY DEF Close, SessionOf
<1>2. Cardinality(conn') <= Cardinality(conn) /\ Cardinality(conn') \in Nat
      /\ Cardinality(conn) \in Nat
  BY <1>1, ConnFinite, FS_Subset, FS_CardinalityType
<1>0. /\ engine' \in Engines /\ gaps' \subseteq Sessions \X Rows
      /\ GapInv'
  BY GapEffect DEF HolderInv, Close, SessionOf
<1>3. DbTypeOK'
  BY <1>0, <1>1, <1>2, PoolAssumption DEF TypeOK, DbTypeOK, Sessions
<1>4. \A s \in conn' : s[2] = 0 /\ pc'[s[1]] \in ConnHolders
  BY <1>1 DEF TypeOK, DbTypeOK, Sessions, HolderInv, Moves
<1>5. ASSUME NEW r \in Rows, NEW e \in Clients
      PROVE  /\ lockedBy'[r] = <<e, 0>> <=> pc'[e] = "write" /\ target'[e] = r
             /\ lockedBy'[r] # <<e, 1>>
  <2>1. Nobody # <<e, 0>> /\ Nobody # <<e, 1>>
    BY PoolAssumption
  <2>2. lockedBy'[r] = IF lockedBy[r] = <<c, 0>> THEN Nobody ELSE lockedBy[r]
    BY <1>1
  <2>3. CASE e = c
    <3>1. pc'[e] # "write"
      BY <2>3 DEF TypeOK, Moves
    <3>. QED
      BY <2>1, <2>2, <2>3, <3>1 DEF HolderInv
  <2>4. CASE e # c
    <3>1. pc'[e] = pc[e] /\ <<c, 0>> # <<e, 0>>
      BY <2>4 DEF TypeOK, Moves
    <3>. QED
      BY <2>1, <2>2, <3>1 DEF HolderInv
  <2>. QED
    BY <2>3, <2>4
<1>. QED
  BY <1>0, <1>3, <1>4, <1>5 DEF HolderInv

\* The three ways a step treats the table.
RowStep(c) ==
    \/ UNCHANGED rowVars
    \/ pc[c] = "write" /\ WriteRow(c)
    \/ pc[c] = "insert" /\ Missing(target[c]) /\ Put(target[c], "pending", 0)

\* Rows are never deleted, versions never fall, and only the holder of a row's
\* lock raises its version.
LEMMA RowEffect ==
    ASSUME TypeOK, VersionInv, NEW c \in Clients, RowStep(c)
    PROVE  /\ status' \in [Tasks -> {"absent", "pending"} \cup Updates]
           /\ version' \in [Tasks -> Nat]
           /\ writes' \in [Tasks -> Nat]
           /\ VersionCountsWrites'
           /\ \A t \in Tasks :
                 /\ Missing(t)' => Missing(t) /\ version'[t] = 0
                 /\ version[t] <= version'[t]
                 /\ version'[t] # version[t] => pc[c] = "write" /\ target[c] = t
<1>. USE DEF TypeOK, VersionInv, VersionCountsWrites, Missing
<1>1. CASE UNCHANGED rowVars
  BY <1>1 DEF rowVars
<1>2. CASE pc[c] = "write" /\ WriteRow(c)
  <2>1. PICK s \in {"absent", "pending"} \cup Updates :
           s # "absent" /\ Put(target[c], s, version[target[c]] + 1)
    BY <1>2, ControlAssumption DEF WriteRow
  <2>. QED
    BY <1>2, <2>1 DEF Put
<1>3. CASE pc[c] = "insert" /\ Missing(target[c]) /\ Put(target[c], "pending", 0)
  BY <1>3 DEF Put
<1>. QED
  BY <1>1, <1>2, <1>3 DEF RowStep

-----------------------------------------------------------------------------
(* Types, and who holds what *)

\* A call begins.
LEMMA HolderBegin ==
    ASSUME TypeOK, HolderInv, VersionInv, NEW c \in Clients, NEW t \in Tasks,
           Submit(c, t) \/ Control(c, t) \/ Update(c, t)
    PROVE  TypeOK' /\ HolderInv'
<1>1. PICK o \in Controls \cup Updates \cup {"submit"}, first \in {"lock", "load"} :
         Begin(c, t, o, first) /\ seen' \in [Clients -> Nat]
  BY DEF Submit, Control, Update, BuiltVersion, TypeOK
<1>2. Moves(c, first)
  BY <1>1 DEF Begin, Goto, Moves, TypeOK
<1>3. DbTypeOK' /\ HolderInv'
  BY <1>1, <1>2, KeepEffect DEF Begin, ConnHolders
<1>4. calls' \in [Clients -> 0 .. MaxCalls]
  BY <1>1, ControlAssumption DEF Begin, TypeOK
<1>5. TypeOK'
  BY <1>1, <1>3, <1>4 DEF Begin, Goto, TypeOK, Places, rowVars
<1>. QED
  BY <1>3, <1>5

\* load, and what comes after a save.
LEMMA HolderLoad ==
    ASSUME TypeOK, HolderInv, SeenInv, NEW c \in Clients,
           \/ LoadTask(c) \/ LoadFindsNothing(c) \/ LoadReturns(c)
           \/ FetchOperator(c) \/ CloseOperator(c) \/ SaveReturns(c)
    PROVE  TypeOK' /\ HolderInv'
<1>. USE DEF Moves, Goto, End, RowStep, callVars, Places, ConnHolders
<1>0. target[c] \in Tasks /\ Operators[target[c]] \in Nat /\ version[target[c]] \in Nat
  BY ControlAssumption DEF TypeOK
<1>1. CASE LoadTask(c)
  <2>1. DbTypeOK' /\ HolderInv'
    BY <1>1, ConnectEffect DEF LoadTask
  <2>. QED
    BY <1>0, <1>1, <2>1 DEF LoadTask, TypeOK, rowVars
<1>2. CASE LoadFindsNothing(c)
  <2>1. DbTypeOK' /\ HolderInv'
    BY <1>2, CloseEffect DEF LoadFindsNothing
  <2>. QED
    BY <1>2, <2>1 DEF LoadFindsNothing, TypeOK, rowVars
<1>3. CASE LoadReturns(c)
  <2>1. DbTypeOK' /\ HolderInv'
    BY <1>3, CloseEffect DEF LoadReturns
  <2>. QED
    BY <1>3, <2>1 DEF LoadReturns, TypeOK, rowVars
<1>4. CASE FetchOperator(c)
  <2>1. DbTypeOK' /\ HolderInv'
    BY <1>4, ConnectEffect DEF FetchOperator
  <2>. QED
    BY <1>4, <2>1 DEF FetchOperator, TypeOK, rowVars
<1>5. CASE CloseOperator(c)
  <2>1. DbTypeOK' /\ HolderInv'
    BY <1>5, CloseEffect DEF CloseOperator
  <2>2. left[c] > 0
    BY <1>5 DEF CloseOperator, SeenInv
  <2>. QED
    BY <1>5, <2>1, <2>2 DEF CloseOperator, TypeOK, rowVars
<1>6. CASE SaveReturns(c)
  <2>1. DbTypeOK' /\ HolderInv'
    BY <1>6, CloseEffect DEF SaveReturns
  <2>. QED
    BY <1>6, <2>1 DEF SaveReturns, TypeOK, rowVars
<1>. QED
  BY <1>1, <1>2, <1>3, <1>4, <1>5, <1>6

\* save and update_task_status.
LEMMA HolderSave ==
    ASSUME TypeOK, HolderInv, VersionInv, NEW c \in Clients,
           \/ TakeConnection(c) \/ SelectForUpdate(c) \/ SelectFindsStale(c)
           \/ SelectFindsNothing(c) \/ Commit(c) \/ Insert(c) \/ InsertRefused(c)
           \/ DeadlockVictim(c) \/ DatabaseRaises(c) \/ PoolTimesOut(c)
    PROVE  TypeOK' /\ HolderInv'
<1>. USE DEF Moves, Goto, End, callVars, Places, ConnHolders
<1>0. target[c] \in Tasks /\ Operators[target[c]] \in Nat
  BY ControlAssumption DEF TypeOK
<1>1. CASE TakeConnection(c)
  <2>1. DbTypeOK' /\ HolderInv'
    BY <1>1, ConnectEffect DEF TakeConnection
  <2>. QED
    BY <1>1, <2>1 DEF TakeConnection, TypeOK, rowVars
<1>2. CASE SelectForUpdate(c)
  <2>1. DbTypeOK' /\ HolderInv'
    BY <1>2, LockEffect DEF SelectForUpdate
  <2>. QED
    BY <1>2, <2>1 DEF SelectForUpdate, TypeOK, rowVars
<1>3. CASE SelectFindsStale(c)
  <2>1. DbTypeOK' /\ HolderInv'
    BY <1>3, CloseEffect DEF SelectFindsStale
  <2>. QED
    BY <1>3, <2>1 DEF SelectFindsStale, TypeOK, rowVars
<1>4. CASE SelectFindsNothing(c)
  <2>1. DbTypeOK' /\ HolderInv'
    BY <1>4, CloseEffect, GapLockEffect DEF SelectFindsNothing
  <2>. QED
    BY <1>4, <2>1 DEF SelectFindsNothing, TypeOK, rowVars
<1>5. CASE Commit(c)
  <2>1. DbTypeOK' /\ HolderInv'
    BY <1>5, CloseEffect DEF Commit, SaveCommitted
  <2>2. RowStep(c)
    BY <1>5 DEF Commit, RowStep
  <2>. QED
    BY <1>0, <1>5, <2>1, <2>2, RowEffect DEF Commit, SaveCommitted, TypeOK
<1>6. CASE Insert(c)
  <2>1. DbTypeOK' /\ HolderInv'
    BY <1>6, CloseEffect DEF Insert, SaveCommitted
  <2>2. RowStep(c)
    BY <1>6 DEF Insert, RowStep
  <2>. QED
    BY <1>0, <1>6, <2>1, <2>2, RowEffect DEF Insert, SaveCommitted, TypeOK
<1>7. CASE InsertRefused(c)
  <2>1. DbTypeOK' /\ HolderInv'
    BY <1>7, CloseEffect DEF InsertRefused
  <2>. QED
    BY <1>7, <2>1 DEF InsertRefused, TypeOK, rowVars
<1>8. CASE DatabaseRaises(c)
  <2>1. DbTypeOK' /\ HolderInv'
    BY <1>8, CloseEffect DEF DatabaseRaises
  <2>2. RowStep(c)
    BY <1>8 DEF DatabaseRaises, RowStep
  <2>3. faults' \in 0 .. MaxFaults
    BY <1>8, ControlAssumption DEF DatabaseRaises, TypeOK
  <2>. QED
    BY <1>8, <2>1, <2>2, <2>3, RowEffect DEF DatabaseRaises, TypeOK
<1>9. CASE PoolTimesOut(c)
  <2>1. DbTypeOK' /\ HolderInv'
    BY <1>9, CloseEffect DEF PoolTimesOut
  <2>. QED
    BY <1>9, <2>1 DEF PoolTimesOut, TypeOK, rowVars
<1>10. CASE DeadlockVictim(c)
  <2>1. DbTypeOK' /\ HolderInv'
    BY <1>10, CloseEffect DEF DeadlockVictim
  <2>. QED
    BY <1>10, <2>1 DEF DeadlockVictim, TypeOK, rowVars
<1>. QED
  BY <1>1, <1>2, <1>3, <1>4, <1>5, <1>6, <1>7, <1>8, <1>9, <1>10

-----------------------------------------------------------------------------
(* Versions *)

\* The calls of the other clients keep what they rely on; a client's own step
\* is left to show.
LEMMA VersionStep ==
    ASSUME TypeOK, HolderInv, VersionInv, NEW c \in Clients, RowStep(c),
           \A d \in Clients : d # c =>
              /\ pc'[d] = pc[d] /\ op'[d] = op[d]
              /\ target'[d] = target[d] /\ seen'[d] = seen[d],
           pc'[c] = "write" =>
              /\ ~Missing(target'[c]) /\ target'[c] \in Tasks /\ pc[c] = "select"
              /\ op'[c] \notin Updates => seen'[c] = version[target'[c]]
    PROVE  VersionInv'
<1>1. ASSUME NEW d \in Clients, pc'[d] = "write"
      PROVE  /\ ~Missing(target[d])'
             /\ op'[d] \notin Updates => seen'[d] = version'[target'[d]]
  <2>1. CASE d = c
    BY <1>1, <2>1, RowEffect DEF Missing
  <2>2. CASE d # c
    <3>1. /\ pc[d] = "write" /\ target'[d] = target[d] /\ target[d] \in Tasks
          /\ op'[d] = op[d] /\ seen'[d] = seen[d]
      BY <1>1, <2>2 DEF TypeOK
    <3>2. ~(pc[c] = "write" /\ target[c] = target[d])
      BY <2>2, <3>1, ControlAssumption DEF HolderInv
    <3>3. version'[target[d]] = version[target[d]]
      BY <3>1, <3>2, RowEffect
    <3>4. ~Missing(target[d]) /\ (op[d] \notin Updates => seen[d] = version[target[d]])
      BY <3>1 DEF VersionInv
    <3>5. Missing(target[d])' => Missing(target[d])
      BY <3>1, RowEffect DEF Missing
    <3>. QED
      BY <3>1, <3>3, <3>4, <3>5
  <2>. QED
    BY <2>1, <2>2
<1>. QED
  BY <1>1, RowEffect DEF VersionInv

\* What the other calls have seen of their rows stays no newer than the rows.
LEMMA SeenStep ==
    ASSUME TypeOK, TypeOK', VersionInv, SeenInv, NEW c \in Clients, RowStep(c),
           \A d \in Clients : d # c =>
              /\ pc'[d] = pc[d] /\ op'[d] = op[d] /\ left'[d] = left[d]
              /\ target'[d] = target[d] /\ seen'[d] = seen[d]
              /\ outcome'[d] = outcome[d],
           pc'[c] \notin {"idle", "load"} /\ op'[c] \in Controls =>
              status[target'[c]] # "absent" /\ seen'[c] <= version[target'[c]],
           pc'[c] = "insert" => op'[c] = "submit",
           pc'[c] = "fetched" => left'[c] > 0,
           outcome'[c] = "conflict" => pc'[c] = "idle",
           outcome'[c] = "conflict" =>
              \/ version[target'[c]] > seen'[c]
              \/ op'[c] = "submit" /\ status[target'[c]] # "absent"
    PROVE  SeenInv'
<1>1. \A t \in Tasks : /\ status[t] # "absent" => status'[t] # "absent"
                       /\ version[t] <= version'[t]
                       /\ version[t] \in Nat /\ version'[t] \in Nat
  BY RowEffect DEF Missing, TypeOK
<1>2. \A d \in Clients : /\ target[d] \in Tasks /\ target'[d] \in Tasks
                         /\ seen[d] \in Nat /\ seen'[d] \in Nat
  BY DEF TypeOK
<1>3. ASSUME NEW d \in Clients, pc'[d] \notin {"idle", "load"}, op'[d] \in Controls
      PROVE  status'[target'[d]] # "absent" /\ seen'[d] <= version'[target'[d]]
  <2>1. status[target'[d]] # "absent" /\ seen'[d] <= version[target'[d]]
    BY <1>3 DEF SeenInv, Missing
  <2>. QED
    BY <2>1, <1>1, <1>2
<1>4. ASSUME NEW d \in Clients, outcome'[d] = "conflict"
      PROVE  \/ version'[target'[d]] > seen'[d]
             \/ op'[d] = "submit" /\ status'[target'[d]] # "absent"
  <2>1. \/ version[target'[d]] > seen'[d]
        \/ op'[d] = "submit" /\ status[target'[d]] # "absent"
    BY <1>4 DEF SeenInv, ConflictIsReal, Missing
  <2>. QED
    BY <2>1, <1>1, <1>2
<1>5. \A d \in Clients : /\ pc'[d] = "insert" => op'[d] = "submit"
                         /\ pc'[d] = "fetched" => left'[d] > 0
                         /\ outcome'[d] = "conflict" => pc'[d] = "idle"
  BY DEF SeenInv
<1>. QED
  BY <1>3, <1>4, <1>5 DEF SeenInv, ConflictIsReal, Missing

\* A step in which the client's call ends keeps both, whatever it did before.
LEMMA EndStep ==
    ASSUME TypeOK, TypeOK', HolderInv, VersionInv, SeenInv,
           NEW c \in Clients, RowStep(c), NEW how, End(c, how),
           UNCHANGED <<op, target, seen, left>>,
           how = "conflict" =>
              \/ version[target[c]] > seen[c]
              \/ op[c] = "submit" /\ ~Missing(target[c])
    PROVE  VersionInv' /\ SeenInv'
<1>1. pc' = [pc EXCEPT ![c] = "idle"] /\ outcome' = [outcome EXCEPT ![c] = how]
  BY DEF End, Goto
<1>2. VersionInv'
  BY <1>1, VersionStep DEF TypeOK
<1>3. SeenInv'
  BY <1>1, SeenStep DEF TypeOK, Missing
<1>. QED
  BY <1>2, <1>3

\* A call that begins has seen nothing and locked nothing.
LEMMA CallBegin ==
    ASSUME TypeOK, TypeOK', HolderInv, VersionInv, SeenInv,
           NEW c \in Clients, NEW t \in Tasks,
           Submit(c, t) \/ Control(c, t) \/ Update(c, t)
    PROVE  VersionInv' /\ SeenInv'
<1>1. PICK o \in Controls \cup Updates \cup {"submit"}, first \in {"lock", "load"} :
         /\ Begin(c, t, o, first)
         /\ first = "lock" => o \notin Controls
         /\ \A d \in Clients : d # c => seen'[d] = seen[d]
  BY ControlAssumption DEF Submit, Control, Update, TypeOK
<1>2. RowStep(c)
  BY <1>1 DEF Begin, RowStep
<1>3. VersionInv'
  BY <1>1, <1>2, VersionStep DEF Begin, Goto, TypeOK
<1>4. SeenInv'
  BY <1>1, <1>2, SeenStep DEF Begin, Goto, TypeOK
<1>. QED
  BY <1>3, <1>4

\* Loading reads a row at its version and writes none.
LEMMA CallLoad ==
    ASSUME TypeOK, TypeOK', HolderInv, VersionInv, SeenInv, NEW c \in Clients,
           \/ LoadTask(c) \/ LoadFindsNothing(c) \/ LoadReturns(c)
           \/ FetchOperator(c) \/ CloseOperator(c) \/ SaveReturns(c)
    PROVE  VersionInv' /\ SeenInv'
<1>. USE DEF Goto, callVars
<1>0. RowStep(c)
  BY DEF RowStep, LoadTask, LoadFindsNothing, LoadReturns, FetchOperator,
         CloseOperator, SaveReturns
<1>1. CASE LoadTask(c)
  <2>1. VersionInv'
    BY <1>0, <1>1, VersionStep DEF LoadTask, TypeOK
  <2>2. SeenInv'
    BY <1>0, <1>1, SeenStep DEF LoadTask, TypeOK, Missing, SeenInv, ConflictIsReal
  <2>. QED
    BY <2>1, <2>2
<1>2. CASE LoadFindsNothing(c)
  BY <1>0, <1>2, EndStep DEF LoadFindsNothing
<1>3. CASE LoadReturns(c) /\ Operators[target[c]] > 0
  BY <1>0, <1>3, EndStep, ControlAssumption DEF LoadReturns, TypeOK
<1>4. CASE LoadReturns(c) /\ Operators[target[c]] = 0
  <2>0. pc' = [pc EXCEPT ![c] = "lock"] /\ UNCHANGED outcome
    BY <1>4, ControlAssumption DEF LoadReturns, TypeOK
  <2>1. VersionInv'
    BY <1>0, <1>4, <2>0, VersionStep DEF LoadReturns, TypeOK
  <2>2. SeenInv'
    BY <1>0, <1>4, <2>0, SeenStep DEF LoadReturns, TypeOK, Missing, SeenInv, ConflictIsReal
  <2>. QED
    BY <2>1, <2>2
<1>5. CASE FetchOperator(c)
  <2>1. VersionInv'
    BY <1>0, <1>5, VersionStep DEF FetchOperator, TypeOK
  <2>2. SeenInv'
    BY <1>0, <1>5, SeenStep DEF FetchOperator, TypeOK, Missing, SeenInv, ConflictIsReal
  <2>. QED
    BY <2>1, <2>2
<1>6. CASE CloseOperator(c)
  <2>1. VersionInv'
    BY <1>0, <1>6, VersionStep DEF CloseOperator, TypeOK
  <2>2. SeenInv'
    BY <1>0, <1>6, SeenStep DEF CloseOperator, TypeOK, Missing, SeenInv, ConflictIsReal
  <2>. QED
    BY <2>1, <2>2
<1>7. CASE SaveReturns(c)
  BY <1>0, <1>7, EndStep DEF SaveReturns
<1>. QED
  BY <1>1, <1>2, <1>3, <1>4, <1>5, <1>6, <1>7, ControlAssumption DEF TypeOK, LoadReturns

\* Saving and updating write a row that is locked and compared.
LEMMA CallSave ==
    ASSUME TypeOK, TypeOK', HolderInv, VersionInv, SeenInv, NEW c \in Clients,
           \/ TakeConnection(c) \/ SelectForUpdate(c) \/ SelectFindsStale(c)
           \/ SelectFindsNothing(c) \/ Commit(c) \/ Insert(c) \/ InsertRefused(c)
           \/ DeadlockVictim(c) \/ DatabaseRaises(c) \/ PoolTimesOut(c)
    PROVE  VersionInv' /\ SeenInv'
<1>. USE DEF Goto, callVars
<1>0. RowStep(c)
  BY DEF RowStep, TakeConnection, SelectForUpdate, SelectFindsStale,
         SelectFindsNothing, Commit, Insert, InsertRefused, DeadlockVictim,
         DatabaseRaises, PoolTimesOut
<1>1. CASE TakeConnection(c)
  <2>1. VersionInv'
    BY <1>0, <1>1, VersionStep DEF TakeConnection, TypeOK
  <2>2. SeenInv'
    BY <1>0, <1>1, SeenStep DEF TakeConnection, TypeOK, Missing, SeenInv, ConflictIsReal
  <2>. QED
    BY <2>1, <2>2
<1>2. CASE SelectForUpdate(c)
  <2>1. VersionInv'
    BY <1>0, <1>2, VersionStep DEF SelectForUpdate, TypeOK, Stale, Missing
  <2>2. SeenInv'
    BY <1>0, <1>2, SeenStep DEF SelectForUpdate, TypeOK, Missing, SeenInv, ConflictIsReal
  <2>. QED
    BY <2>1, <2>2
<1>3. CASE SelectFindsStale(c)
  <2>1. \/ version[target[c]] > seen[c]
        \/ op[c] = "submit" /\ ~Missing(target[c])
    <3>1. /\ op[c] \in Controls \/ op[c] = "submit"
          /\ ~Missing(target[c]) /\ pc[c] = "select"
          /\ seen[c] # version[target[c]]
      BY <1>3 DEF SelectFindsStale, Stale, TypeOK
    <3>2. seen[c] \in Nat /\ version[target[c]] \in Nat
      BY DEF TypeOK
    <3>. QED
      BY <3>1, <3>2 DEF SeenInv
  <2>. QED
    BY <1>0, <1>3, <2>1, EndStep DEF SelectFindsStale
<1>4. CASE SelectFindsNothing(c) /\ op[c] \in Updates
  BY <1>0, <1>4, EndStep DEF SelectFindsNothing
<1>5. CASE SelectFindsNothing(c) /\ op[c] \notin Updates
  <2>1. op[c] = "submit"
    BY <1>5 DEF SelectFindsNothing, SeenInv, TypeOK
  <2>0. /\ pc' = [pc EXCEPT ![c] = "insert"]
        /\ UNCHANGED <<op, target, seen, left, outcome>>
    BY <1>5 DEF SelectFindsNothing
  <2>2. VersionInv'
    BY <1>0, <2>0, VersionStep DEF TypeOK
  <2>3. SeenInv'
    <3>1. outcome'[c] = outcome[c] /\ outcome[c] # "conflict" /\ op'[c] = "submit"
          /\ op'[c] \notin Controls /\ pc'[c] = "insert"
      BY <1>5, <2>0, <2>1, ControlAssumption DEF SelectFindsNothing, SeenInv, TypeOK
    <3>2. \A d \in Clients : d # c => pc'[d] = pc[d]
      BY <2>0 DEF TypeOK
    <3>. QED
      BY <1>0, <2>0, <3>1, <3>2, SeenStep
  <2>. QED
    BY <2>2, <2>3
<1>6. CASE Commit(c) /\ op[c] \in Updates
  BY <1>0, <1>6, EndStep DEF Commit
<1>7. CASE (Commit(c) /\ op[c] \notin Updates) \/ Insert(c)
  <2>0. PICK what : SaveCommitted(c, what) /\ pc[c] \in {"write", "insert"}
                    /\ UNCHANGED <<op, target, seen>>
    BY <1>7 DEF Commit, Insert
  <2>1. VersionInv'
    BY <1>0, <2>0, VersionStep DEF SaveCommitted, TypeOK
  <2>2. SeenInv'
    BY <1>0, <2>0, SeenStep DEF SaveCommitted, TypeOK, Missing, SeenInv, ConflictIsReal
  <2>. QED
    BY <2>1, <2>2
<1>8. CASE InsertRefused(c)
  BY <1>0, <1>8, EndStep DEF InsertRefused, SeenInv
<1>9. CASE DatabaseRaises(c)
  BY <1>0, <1>9, EndStep DEF DatabaseRaises
<1>10. CASE PoolTimesOut(c)
  BY <1>0, <1>10, EndStep DEF PoolTimesOut
<1>11. CASE DeadlockVictim(c)
  BY <1>0, <1>11, EndStep DEF DeadlockVictim
<1>. QED
  BY <1>1, <1>2, <1>3, <1>4, <1>5, <1>6, <1>7, <1>8, <1>9, <1>10, <1>11

-----------------------------------------------------------------------------
(* The theorems *)

IInv == TypeOK /\ HolderInv /\ VersionInv /\ SeenInv

\* The initial state satisfies the invariant.
LEMMA InvInit == Init => IInv
<1>. SUFFICES ASSUME Init
              PROVE  IInv
  OBVIOUS
<1>. USE DEF Init, DbInit
<1>1. TypeOK
  <2>1. (CHOOSE t \in Tasks : TRUE) \in Tasks
    BY ControlAssumption
  <2>2. Cardinality(conn) <= PoolSize
    BY FS_EmptySet, PoolAssumption
  <2>. QED
    BY <2>1, <2>2, ControlAssumption DEF TypeOK, DbTypeOK, Sessions, Places
<1>2. HolderInv
  BY PoolAssumption DEF HolderInv, GapInv
<1>3. VersionInv
  BY DEF VersionInv, VersionCountsWrites
<1>4. SeenInv
  BY DEF SeenInv, ConflictIsReal
<1>. QED
  BY <1>1, <1>2, <1>3, <1>4 DEF IInv

\* Every step keeps the invariant.
LEMMA InvNext == IInv /\ [Next]_vars => IInv'
<1>. SUFFICES ASSUME IInv, [Next]_vars
              PROVE  IInv'
  OBVIOUS
<1>. USE DEF IInv
<1>1. ASSUME NEW c \in Clients, NEW t \in Tasks,
             Submit(c, t) \/ Control(c, t) \/ Update(c, t)
      PROVE  IInv'
  BY <1>1, HolderBegin, CallBegin
<1>2. ASSUME NEW c \in Clients, Step(c) \/ DatabaseRaises(c) \/ PoolTimesOut(c)
      PROVE  IInv'
  BY <1>2, HolderLoad, HolderSave, CallLoad, CallSave DEF Step
<1>3. CASE UNCHANGED vars
  BY <1>3 DEF vars, rowVars, callVars, lockVars, TypeOK, DbTypeOK, HolderInv,
              GapInv, VersionInv, SeenInv, VersionCountsWrites, ConflictIsReal, Missing
<1>. QED
  BY <1>1, <1>2, <1>3 DEF Next, Terminating

\* So it holds in every reachable state.
LEMMA Invariant == Spec => []IInv
<1>. QED
  BY InvInit, InvNext, PTL DEF Spec

\* Every variable keeps its type; the pool never lends more connections than
\* it has.
THEOREM TypeCorrect == Spec => []TypeOK
<1>1. IInv => TypeOK
  BY DEF IInv
<1>. QED
  BY <1>1, Invariant, PTL

\* No committed update of a task's row is lost, whichever calls of the engine
\* and the scheduler meet on it.
THEOREM NoWriteLost == Spec => []VersionCountsWrites
<1>1. IInv => VersionCountsWrites
  BY DEF IInv, VersionInv
<1>. QED
  BY <1>1, Invariant, PTL

\* A call that has ended holds neither a connection nor a row's or gap's lock.
THEOREM NothingLeftBehind == Spec => []IdleHoldsNothing
<1>1. IInv => IdleHoldsNothing
  BY DEF IInv, HolderInv, GapInv, IdleHoldsNothing, SessionOf, ConnHolders, TypeOK, DbTypeOK,
         Sessions
<1>. QED
  BY <1>1, Invariant, PTL

\* A ConcurrencyError or ConcurrentUpdate always has another write behind it.
THEOREM ConflictsAreReal == Spec => []ConflictIsReal
<1>1. IInv => ConflictIsReal
  BY DEF IInv, SeenInv
<1>. QED
  BY <1>1, Invariant, PTL
-----------------------------------------------------------------------------
(* The versioned row *)

\* What the steps that write a row do to it is one operation of the abstract
\* table: the row a save replaces is the one it was compared with.
LEMMA RowRefines ==
    ASSUME IInv, NEW c \in Clients, RowStep(c), UNCHANGED seen
    PROVE  [Row!Next]_(Row!vars)
<1>. USE DEF IInv, TypeOK
<1>1. CASE UNCHANGED rowVars
  BY <1>1 DEF rowVars, Row!vars
<1>2. CASE pc[c] = "write" /\ WriteRow(c) /\ op[c] \in Updates
  <2>1. status[target[c]] # "absent"
    BY <1>2 DEF VersionInv, Missing
  <2>2. Row!Update(target[c])
    BY <1>2, <2>1 DEF WriteRow, Put, Row!Update
  <2>. QED
    BY <2>2 DEF Row!Next
<1>3. CASE pc[c] = "write" /\ WriteRow(c) /\ op[c] \notin Updates
  <2>1. status[target[c]] # "absent" /\ seen[c] = version[target[c]]
    BY <1>3 DEF VersionInv, Missing
  <2>2. status' = status
    BY <1>3 DEF WriteRow, Put
  <2>3. Row!Save(c, target[c])
    BY <1>3, <2>1, <2>2 DEF WriteRow, Put, Row!Save
  <2>. QED
    BY <2>3 DEF Row!Next
<1>4. CASE pc[c] = "insert" /\ Missing(target[c]) /\ Put(target[c], "pending", 0)
  <2>1. Row!Insert(target[c])
    BY <1>4 DEF Put, Missing, Row!Insert
  <2>. QED
    BY <2>1 DEF Row!Next
<1>. QED
  BY <1>1, <1>2, <1>3, <1>4 DEF RowStep

\* The engine and the scheduler implement the table of VersionedRow: a save,
\* which compares in one statement and writes in another, takes effect as one
\* compare-and-set; no update of the scheduler falls between the two.
THEOREM ImplementsVersionedRow == Spec => RowSpec
<1>1. Init => Row!Init
  BY DEF Init, Row!Init
<1>2. IInv /\ [Next]_vars => [Row!Next]_(Row!vars)
  <2>. SUFFICES ASSUME IInv, [Next]_vars
                PROVE  [Row!Next]_(Row!vars)
    OBVIOUS
  <2>1. ASSUME NEW c \in Clients, NEW t \in Tasks, Submit(c, t)
        PROVE  [Row!Next]_(Row!vars)
    <3>1. Row!Build(c)
      BY <2>1 DEF Submit, Begin, BuiltVersion, rowVars, Row!Build
    <3>. QED
      BY <3>1 DEF Row!Next
  <2>2. ASSUME NEW c \in Clients, NEW t \in Tasks, Control(c, t) \/ Update(c, t)
        PROVE  [Row!Next]_(Row!vars)
    BY <2>2 DEF Control, Update, Begin, rowVars, Row!vars
  <2>3. ASSUME NEW c \in Clients, LoadTask(c)
        PROVE  [Row!Next]_(Row!vars)
    <3>1. Row!Read(c, target[c]) /\ target[c] \in Tasks
      BY <2>3 DEF LoadTask, Missing, rowVars, Row!Read, IInv, TypeOK
    <3>. QED
      BY <3>1 DEF Row!Next
  <2>4. ASSUME NEW c \in Clients, Step(c) \/ DatabaseRaises(c) \/ PoolTimesOut(c),
               ~LoadTask(c)
        PROVE  [Row!Next]_(Row!vars)
    <3>1. RowStep(c) /\ UNCHANGED seen
      BY <2>4 DEF Step, RowStep, LoadFindsNothing, LoadReturns, FetchOperator,
                  CloseOperator, TakeConnection, SelectForUpdate,
                  SelectFindsStale, SelectFindsNothing, Commit, Insert,
                  InsertRefused, SaveReturns, DeadlockVictim, DatabaseRaises,
                  PoolTimesOut
    <3>. QED
      BY <3>1, RowRefines
  <2>5. CASE UNCHANGED vars
    BY <2>5 DEF vars, rowVars, Row!vars
  <2>. QED
    BY <2>1, <2>2, <2>3, <2>4, <2>5 DEF Next, Terminating, Step
<1>. QED
  BY <1>1, <1>2, Invariant, PTL DEF Spec, RowSpec, Row!Spec

-----------------------------------------------------------------------------
(* Why every call ends *)

\* A call that holds a connection never waits for one; one that holds a row's
\* lock waits for nothing.
LEMMA HoldersGoOn ==
    ASSUME IInv, NEW d \in Clients
    PROVE  /\ <<d, 0>> \in conn => pc[d] # "idle" /\ ~WaitsForConnection(d)
           /\ \A r \in Rows : lockedBy[r] = <<d, 0>> => GoesOn(d)
<1>. USE DEF IInv, HolderInv, WaitsForConnection, PoolFull, SessionOf
<1>1. <<d, 0>> \in conn => pc[d] # "idle" /\ ~WaitsForConnection(d)
  BY DEF ConnHolders
<1>2. pc[d] = "write" => GoesOn(d)
  BY DEF GoesOn, Waits, WaitsForRow, WaitsForGap
<1>. QED
  BY <1>1, <1>2

\* A call that waits for a row waits on one that goes on.
LEMMA RowWaitEnds ==
    ASSUME IInv, NEW c \in Clients, WaitsForRow(c)
    PROVE  \E e \in Clients : Blocks(e, c) /\ GoesOn(e)
<1>1. target[c] \in Rows
  BY ControlAssumption DEF IInv, TypeOK
<1>2. PICK e \in Clients : lockedBy[target[c]] = <<e, 0>>
  BY <1>1 DEF IInv, TypeOK, DbTypeOK, Sessions, HolderInv, WaitsForRow
<1>3. Blocks(e, c)
  BY <1>2 DEF Blocks, SessionOf
<1>. QED
  BY <1>1, <1>2, <1>3, HoldersGoOn

\* A call that waits for a gap waits on one about to insert into the same gap,
\* which goes on unless it waits for this call's gap in turn.
LEMMA GapWaitIsMutual ==
    ASSUME IInv, NEW c \in Clients, WaitsForGap(c)
    PROVE  /\ engine = "mysql" /\ op[c] = "submit"
           /\ \E d \in Clients : Blocks(d, c)
           /\ \A d \in Clients : Blocks(d, c) =>
                 GoesOn(d) \/ (Blocks(c, d) /\ op[d] = "submit")
<1>. USE DEF IInv
<1>1. /\ pc[c] = "insert" /\ Missing(target[c]) /\ target[c] \in Tasks
      /\ op[c] = "submit"
  BY DEF WaitsForGap, SeenInv, TypeOK
<1>2. PICK g \in gaps : g[1] # <<c, 0>> /\ SameGap(g[2], target[c])
  BY DEF WaitsForGap, SessionOf
<1>3. PICK d \in Clients, r \in Rows : g = <<<<d, 0>>, r>>
  <2>1. PICK s \in Sessions, r \in Rows : g = <<s, r>>
    BY DEF TypeOK, DbTypeOK
  <2>2. PICK d \in Clients, b \in {0, 1} : s = <<d, b>>
    BY DEF Sessions
  <2>3. b # 1
    BY <2>1, <2>2 DEF HolderInv, GapInv
  <2>. QED
    BY <2>1, <2>2, <2>3
<1>4. engine = "mysql"
  BY <1>3 DEF HolderInv, GapInv
<1>5. Blocks(d, c)
  BY <1>2, <1>3, ControlAssumption DEF Blocks, SessionOf
<1>6. ASSUME NEW e \in Clients, Blocks(e, c)
      PROVE  GoesOn(e) \/ (Blocks(c, e) /\ op[e] = "submit")
  <2>1. PICK t \in Tasks : /\ <<e, 0>> # <<c, 0>> /\ <<<<e, 0>>, t>> \in gaps
                           /\ SameGap(t, target[c])
    <3>1. ~WaitsForConnection(c) /\ ~WaitsForRow(c)
      BY <1>1 DEF WaitsForConnection, WaitsForRow
    <3>. QED
      BY <1>6, <3>1 DEF Blocks, SessionOf
  <2>2. /\ pc[e] = "insert" /\ target[e] = t /\ op[e] = "submit"
        /\ <<<<c, 0>>, target[c]>> \in gaps
    <3>1. pc[e] = "insert" /\ target[e] = t
      BY <2>1, ControlAssumption DEF HolderInv, GapInv
    <3>2. <<<<c, 0>>, target[c]>> \in gaps
      BY <1>1, <1>4, ControlAssumption DEF HolderInv, GapInv
    <3>. QED
      BY <3>1, <3>2 DEF SeenInv
  <2>3. SameGap(target[c], target[e])
    BY <2>1, <2>2 DEF SameGap
  <2>4. CASE Missing(target[e])
    <3>1. WaitsForGap(e)
      <4>1. <<<<c, 0>>, target[c]>>[1] # SessionOf(e, 0)
        BY <2>1 DEF SessionOf
      <4>. QED
        BY <2>2, <2>3, <2>4, <4>1 DEF WaitsForGap
    <3>2. Blocks(c, e)
      BY <1>1, <2>1, <2>2, <2>3, <3>1 DEF Blocks, SessionOf
    <3>. QED
      BY <2>2, <3>2
  <2>5. CASE ~Missing(target[e])
    BY <2>2, <2>5 DEF GoesOn, Waits, WaitsForConnection, WaitsForRow, WaitsForGap
  <2>. QED
    BY <2>4, <2>5
<1>. QED
  BY <1>1, <1>4, <1>5, <1>6

\* A call under way that does not wait for a connection goes on, or waits on
\* one that does, or is part of a deadlock of two first saves.
LEMMA WaitIsShort ==
    ASSUME IInv, NEW d \in Clients, pc[d] # "idle", ~WaitsForConnection(d)
    PROVE  \/ GoesOn(d)
           \/ \E e \in Clients : Blocks(e, d) /\ GoesOn(e)
           \/ InsertDeadlock(d)
<1>1. CASE WaitsForGap(d)
  <2>1. PICK e \in Clients : Blocks(e, d)
    BY <1>1, GapWaitIsMutual
  <2>. QED
    BY <1>1, <2>1, GapWaitIsMutual DEF InsertDeadlock
<1>. QED
  BY <1>1, RowWaitEnds DEF GoesOn, Waits

\* Only first saves on MySQL can deadlock, two at a time.  A wait for a
\* connection is a wait on calls that go on or wait for a row or a gap, a wait
\* for a row is one on a call that goes on, and a wait for a gap is one on an
\* insert that goes on or waits for this call's gap.
THEOREM NoDeadlock == Spec => []OnlyInsertsDeadlock
<1>1. IInv => OnlyInsertsDeadlock
  <2>. SUFFICES ASSUME IInv, NEW c \in Clients, Waits(c)
                PROVE  /\ \E d \in Clients : Blocks(d, c)
                       /\ \A d \in Clients : Blocks(d, c) =>
                             \/ GoesOn(d)
                             \/ \E e \in Clients : Blocks(e, d) /\ GoesOn(e)
                             \/ InsertDeadlock(d)
    BY DEF OnlyInsertsDeadlock
  <2>1. \E d \in Clients : Blocks(d, c)
    <3>1. CASE WaitsForRow(c)
      BY <3>1, RowWaitEnds
    <3>2. CASE WaitsForConnection(c)
      <4>1. conn # {}
        BY <3>2, FS_EmptySet, PoolAssumption
        DEF WaitsForConnection, PoolFull
      <4>2. PICK s \in conn : s \in Clients \X {0, 1} /\ s[2] = 0
        BY <4>1 DEF IInv, TypeOK, DbTypeOK, Sessions, HolderInv
      <4>3. PICK d \in Clients : <<d, 0>> \in conn
        BY <4>2
      <4>. QED
        BY <3>2, <4>3 DEF Blocks, SessionOf
    <3>3. CASE WaitsForGap(c)
      BY <3>3, GapWaitIsMutual
    <3>. QED
      BY <3>1, <3>2, <3>3 DEF Waits
  <2>2. ASSUME NEW d \in Clients, Blocks(d, c)
        PROVE  \/ GoesOn(d)
               \/ \E e \in Clients : Blocks(e, d) /\ GoesOn(e)
               \/ InsertDeadlock(d)
    <3>1. CASE <<d, 0>> \in conn
      BY <3>1, HoldersGoOn, WaitIsShort
    <3>2. CASE WaitsForRow(c) /\ lockedBy[target[c]] = <<d, 0>>
      BY <3>2, HoldersGoOn, ControlAssumption DEF IInv, TypeOK
    <3>3. CASE WaitsForGap(c)
      BY <2>2, <3>3, GapWaitIsMutual DEF InsertDeadlock
    <3>. QED
      <4>1. \A r \in Rows : <<d, 1>> \notin conn /\ lockedBy[r] # <<d, 1>>
        BY DEF IInv, HolderInv
      <4>2. target[c] \in Rows
        BY ControlAssumption DEF IInv, TypeOK
      <4>. QED
        BY <2>2, <3>1, <3>2, <3>3, <4>1, <4>2 DEF Blocks, SessionOf
  <2>. QED
    BY <2>1, <2>2
<1>. QED
  BY <1>1, Invariant, PTL

\* What Remaining is at each place, in both states of a step.
LEMMA RemainingIs ==
    ASSUME TypeOK, NEW c \in Clients
    PROVE  LET n == 2 * Operators[target[c]]
               toSave == IF saved[c] = "nothing" THEN n + 4 ELSE 0
           IN  /\ n \in Nat /\ Remaining(c) \in Nat
               /\ pc[c] = "idle" => Remaining(c) = 0
               /\ pc[c] \in {"write", "insert"} => Remaining(c) = n + 2
               /\ pc[c] = "select" => Remaining(c) = n + 3
               /\ pc[c] = "lock" => Remaining(c) = n + 4
               /\ pc[c] = "fetched" => Remaining(c) = toSave + 2 * left[c]
               /\ pc[c] = "operators" => Remaining(c) = toSave + 2 * left[c] + 1
               /\ pc[c] = "load" => Remaining(c) = 2 * n + 6
<1>1. /\ Operators[target[c]] \in Nat /\ left[c] \in Nat /\ pc[c] \in Places
  BY ControlAssumption DEF TypeOK
<1>. QED
  BY <1>1 DEF Remaining, Places

\* A call that stands still keeps all it has, whatever the others do.
LEMMA RemainingKept ==
    ASSUME NEW c \in Clients, pc'[c] = pc[c], left'[c] = left[c],
           target'[c] = target[c], saved'[c] = saved[c]
    PROVE  Remaining(c)' = Remaining(c)
BY DEF Remaining

\* A step of a client leaves the calls of the others where they are.
LEMMA OthersStand ==
    ASSUME TypeOK, NEW c \in Clients, NEW d \in Clients, d # c,
           \/ \E t \in Tasks : Submit(c, t) \/ Control(c, t) \/ Update(c, t)
           \/ Step(c) \/ DatabaseRaises(c) \/ PoolTimesOut(c)
    PROVE  /\ pc'[d] = pc[d] /\ left'[d] = left[d] /\ outcome'[d] = outcome[d]
           /\ Remaining(d)' = Remaining(d)
<1>1. /\ pc'[d] = pc[d] /\ left'[d] = left[d] /\ outcome'[d] = outcome[d]
      /\ target'[d] = target[d] /\ saved'[d] = saved[d]
  <2>. USE DEF TypeOK, Goto, End, callVars
  <2>1. CASE \E t \in Tasks : Submit(c, t) \/ Control(c, t) \/ Update(c, t)
    BY <2>1 DEF Submit, Control, Update, Begin
  <2>2. CASE \/ LoadTask(c) \/ LoadFindsNothing(c) \/ LoadReturns(c)
             \/ FetchOperator(c) \/ CloseOperator(c) \/ SaveReturns(c)
    BY <2>2 DEF LoadTask, LoadFindsNothing, LoadReturns, FetchOperator,
                CloseOperator, SaveReturns
  <2>3. CASE \/ TakeConnection(c) \/ SelectForUpdate(c) \/ SelectFindsStale(c)
             \/ SelectFindsNothing(c)
    BY <2>3 DEF TakeConnection, SelectForUpdate, SelectFindsStale,
                SelectFindsNothing
  <2>4. CASE \/ Commit(c) \/ Insert(c) \/ InsertRefused(c)
             \/ DeadlockVictim(c) \/ DatabaseRaises(c) \/ PoolTimesOut(c)
    BY <2>4 DEF Commit, Insert, SaveCommitted, InsertRefused, DeadlockVictim,
                DatabaseRaises, PoolTimesOut
  <2>. QED
    BY <2>1, <2>2, <2>3, <2>4 DEF Step
<1>. QED
  BY <1>1, RemainingKept

\* A call that ends had something left.
LEMMA EndRunsOut ==
    ASSUME TypeOK, TypeOK', NEW c \in Clients, NEW how, End(c, how),
           pc[c] \notin {"idle", "fetched"}
    PROVE  Remaining(c)' < Remaining(c)
<1>1. pc'[c] = "idle" /\ pc[c] \in Places /\ left[c] \in Nat
  BY DEF End, Goto, TypeOK
<1>2. Remaining(c)' = 0
  BY <1>1 DEF Remaining
<1>3. Remaining(c) > 0
  BY <1>1, RemainingIs DEF Places
<1>. QED
  BY <1>2, <1>3

\* Loading the task and its operators.
LEMMA LoadRunsOut ==
    ASSUME TypeOK, TypeOK', SeenInv, NEW c \in Clients,
           \/ LoadTask(c) \/ LoadFindsNothing(c) \/ LoadReturns(c)
           \/ FetchOperator(c) \/ CloseOperator(c) \/ SaveReturns(c)
    PROVE  Remaining(c)' < Remaining(c)
<1>. USE DEF Goto, callVars
<1>0. /\ Operators[target[c]] \in Nat /\ left[c] \in Nat
      /\ target[c] \in Tasks
  BY ControlAssumption DEF TypeOK
<1>1. CASE LoadTask(c)
  <2>1. /\ pc[c] = "load" /\ pc'[c] = "operators" /\ saved'[c] = saved[c]
        /\ target'[c] = target[c] /\ left'[c] = Operators[target[c]]
    BY <1>1 DEF LoadTask, TypeOK
  <2>. QED
    BY <1>0, <2>1 DEF Remaining
<1>2. CASE LoadFindsNothing(c) \/ SaveReturns(c)
  BY <1>2, EndRunsOut DEF LoadFindsNothing, SaveReturns
<1>3. CASE LoadReturns(c)
  <2>1. CASE Operators[target[c]] > 0
    BY <1>3, <2>1, EndRunsOut DEF LoadReturns
  <2>2. CASE ~(Operators[target[c]] > 0)
    <3>1. /\ pc[c] = "operators" /\ pc'[c] = "lock" /\ saved[c] = "nothing"
          /\ target'[c] = target[c]
      BY <1>3, <2>2 DEF LoadReturns, TypeOK
    <3>. QED
      BY <1>0, <3>1 DEF Remaining
  <2>. QED
    BY <2>1, <2>2
<1>4. CASE FetchOperator(c)
  <2>1. /\ pc[c] = "operators" /\ pc'[c] = "fetched" /\ saved'[c] = saved[c]
        /\ target'[c] = target[c] /\ left'[c] = left[c]
    BY <1>4 DEF FetchOperator, TypeOK
  <2>. QED
    BY <1>0, <2>1 DEF Remaining
<1>5. CASE CloseOperator(c)
  <2>1. /\ pc[c] = "fetched" /\ pc'[c] = "operators" /\ saved'[c] = saved[c]
        /\ target'[c] = target[c] /\ left'[c] = left[c] - 1 /\ left[c] > 0
    BY <1>5 DEF CloseOperator, TypeOK, SeenInv
  <2>. QED
    BY <1>0, <2>1 DEF Remaining
<1>. QED
  BY <1>1, <1>2, <1>3, <1>4, <1>5

\* Saving it, and the exceptions.
LEMMA SaveRunsOut ==
    ASSUME TypeOK, TypeOK', NEW c \in Clients,
           \/ TakeConnection(c) \/ SelectForUpdate(c) \/ SelectFindsStale(c)
           \/ SelectFindsNothing(c) \/ Commit(c) \/ Insert(c) \/ InsertRefused(c)
           \/ DeadlockVictim(c) \/ DatabaseRaises(c) \/ PoolTimesOut(c)
    PROVE  Remaining(c)' < Remaining(c)
<1>. USE DEF Goto, callVars
<1>0. /\ Operators[target[c]] \in Nat /\ left[c] \in Nat
      /\ target[c] \in Tasks
  BY ControlAssumption DEF TypeOK
<1>1. CASE TakeConnection(c)
  <2>1. pc[c] = "lock" /\ pc'[c] = "select" /\ target'[c] = target[c]
    BY <1>1 DEF TakeConnection, TypeOK
  <2>. QED
    BY <1>0, <2>1 DEF Remaining
<1>2. CASE SelectForUpdate(c)
  <2>1. pc[c] = "select" /\ pc'[c] = "write" /\ target'[c] = target[c]
    BY <1>2 DEF SelectForUpdate, TypeOK
  <2>. QED
    BY <1>0, <2>1 DEF Remaining
<1>3. CASE SelectFindsStale(c) \/ InsertRefused(c)
  BY <1>3, EndRunsOut DEF SelectFindsStale, InsertRefused
<1>4. CASE SelectFindsNothing(c) /\ op[c] \in Updates
  BY <1>4, EndRunsOut DEF SelectFindsNothing
<1>5. CASE SelectFindsNothing(c) /\ op[c] \notin Updates
  <2>1. pc[c] = "select" /\ pc'[c] = "insert" /\ target'[c] = target[c]
    BY <1>5 DEF SelectFindsNothing, TypeOK
  <2>. QED
    BY <1>0, <2>1 DEF Remaining
<1>6. CASE Commit(c) /\ op[c] \in Updates
  BY <1>6, EndRunsOut DEF Commit
<1>7. CASE (Commit(c) /\ op[c] \notin Updates) \/ Insert(c)
  <2>1. /\ pc[c] \in {"write", "insert"} /\ pc'[c] = "operators"
        /\ target'[c] = target[c] /\ saved'[c] # "nothing"
        /\ left'[c] = Operators[target[c]]
    BY <1>7 DEF Commit, Insert, SaveCommitted, TypeOK
  <2>. QED
    BY <1>0, <2>1 DEF Remaining
<1>8. CASE DeadlockVictim(c) \/ DatabaseRaises(c) \/ PoolTimesOut(c)
  BY <1>8, EndRunsOut DEF DeadlockVictim, WaitsForGap, DatabaseRaises,
                          PoolTimesOut, WaitsForConnection
<1>. QED
  BY <1>1, <1>2, <1>3, <1>4, <1>5, <1>6, <1>7, <1>8 DEF SelectFindsNothing, Commit

\* Every step of a call uses up some of what it may still take, a number the
\* operators of its task bound, and no step of another call gives any back: a
\* call takes finitely many steps, whatever else goes on.
THEOREM CallsTakeFinitelyManySteps == Spec => CallsRunOut
<1>. DEFINE Runs(c) ==
        pc[c] # "idle" =>
          \/ Remaining(c)' < Remaining(c)
          \/ /\ Remaining(c)' = Remaining(c)
             /\ pc'[c] = pc[c] /\ left'[c] = left[c] /\ outcome'[c] = outcome[c]
<1>1. IInv /\ IInv' /\ [Next]_vars => [\A c \in Clients : Runs(c)]_vars
  <2>. SUFFICES ASSUME IInv, IInv', Next, NEW c \in Clients
                PROVE  Runs(c)
    OBVIOUS
  <2>. USE DEF IInv
  <2>1. ASSUME NEW d \in Clients, NEW t \in Tasks,
               Submit(d, t) \/ Control(d, t) \/ Update(d, t)
        PROVE  Runs(c)
    BY <2>1, OthersStand DEF Submit, Control, Update, Begin
  <2>2. ASSUME NEW d \in Clients, Step(d) \/ DatabaseRaises(d) \/ PoolTimesOut(d)
        PROVE  Runs(c)
    BY <2>2, OthersStand, LoadRunsOut, SaveRunsOut DEF Step
  <2>3. CASE UNCHANGED vars
    BY <2>3, RemainingKept DEF vars, callVars
  <2>. QED
    BY <2>1, <2>2, <2>3 DEF Next, Terminating
<1>2. Spec => [][IInv /\ IInv' /\ [Next]_vars]_vars
  BY Invariant, PTL DEF Spec
<1>. QED
  BY <1>1, <1>2, PTL DEF CallsRunOut

=============================================================================
