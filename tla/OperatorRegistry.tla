-------------------------- MODULE OperatorRegistry ---------------------------
(***************************************************************************)
(* plugins/operators/registry.py over persistence/adapters/operator.py:     *)
(* each process has a registry, a cache of the operators it has registered  *)
(* or loaded, in front of the one operators table.  A step is a database    *)
(* statement or transaction of the code; a client is a process, with at     *)
(* most one call of its registry or storage under way:                      *)
(*                                                                          *)
(*   idle      no call                                                      *)
(*   load      _register: storage.load                                      *)
(*   save      storage.save: the query for the name                         *)
(*   insert    storage.save: flush and commit of the new row                *)
(*   find      storage.delete: the query for the name                       *)
(*   remove    storage.delete: the delete and its commit                    *)
(***************************************************************************)
EXTENDS Naturals, FiniteSets

CONSTANTS Clients,     \* processes
          Names,       \* operator names
          None,        \* no operator
          MaxCalls     \* bound: calls of each client

ASSUME RegistryAssumption ==
    /\ IsFiniteSet(Clients)
    /\ MaxCalls \in Nat

VARIABLES rows,        \* the table: the id, name and version of each operator
          deletes,     \* how many rows of each name have been deleted
          operators,   \* OperatorRegistry.operators of each process: ids
          pc,          \* where each client's call is
          calls,       \* how many calls it has made
          name,        \* the operator name of its call
          existing     \* the rows its first query returned

vars == <<rows, deletes, operators, pc, calls, name, existing>>

Ids == Clients \X (1 .. MaxCalls)

RowsOf(n) == {r \in rows : r.name = n}

\* uuid4 of the call c is in.
NewId(c) == <<c, calls[c]>>

Version(r) == r.version

\* A faulty variant: a missing version stays falsy.
NewVersionZero(c) ==
    IF existing[c] = {} THEN 0
    ELSE 1 + Version(CHOOSE r \in existing[c] : TRUE)

\* One above the version load found, or 1; save turns a missing one into 1.
NewVersion(c) ==
    IF existing[c] = {} THEN 1
    ELSE 1 + Version(CHOOSE r \in existing[c] : TRUE)

Goto(c, to) == pc' = [pc EXCEPT ![c] = to]

Init ==
    /\ rows = {}
    /\ deletes = [n \in Names |-> 0]
    /\ operators = [c \in Clients |-> [n \in Names |-> None]]
    /\ pc = [c \in Clients |-> "idle"]
    /\ calls = [c \in Clients |-> 0]
    /\ name \in [Clients -> Names]
    /\ existing = [c \in Clients |-> {}]

Call(c, n, to) ==
    /\ pc[c] = "idle"
    /\ calls[c] < MaxCalls
    /\ calls' = [calls EXCEPT ![c] = @ + 1]
    /\ name' = [name EXCEPT ![c] = n]
    /\ existing' = [existing EXCEPT ![c] = {}]
    /\ Goto(c, to)
    /\ UNCHANGED <<rows, deletes, operators>>

\* The call ends with an exception, whatever it has read.
Raise(c) ==
    /\ Goto(c, "idle")
    /\ UNCHANGED <<rows, deletes, operators, calls, name, existing>>

-----------------------------------------------------------------------------
(* register_function and register_api, their arguments found valid *)

Register(c, n) == Call(c, n, "load")

\* No row is OperatorNotFoundError, which is caught.
Load(c) ==
    /\ pc[c] = "load"
    /\ Cardinality(RowsOf(name[c])) <= 1
    /\ existing' = [existing EXCEPT ![c] = RowsOf(name[c])]
    /\ Goto(c, "save")
    /\ UNCHANGED <<rows, deletes, operators, calls, name>>

\* scalar_one raises MultipleResultsFound, here and in delete and save.
TooManyRows(c) ==
    /\ pc[c] \in {"load", "save", "find"}
    /\ Cardinality(RowsOf(name[c])) > 1
    /\ Raise(c)

\* A faulty variant: the name's rows are not looked at again.
SaveFindsNoneUnchecked(c) ==
    /\ pc[c] = "save"
    /\ Goto(c, "insert")
    /\ UNCHANGED <<rows, deletes, operators, calls, name, existing>>

SaveFindsNone(c) ==
    /\ pc[c] = "save"
    /\ RowsOf(name[c]) = {}
    /\ Goto(c, "insert")
    /\ UNCHANGED <<rows, deletes, operators, calls, name, existing>>

\* VersionMismatchError
SaveMismatch(c) ==
    /\ pc[c] = "save"
    /\ \E r \in rows : RowsOf(name[c]) = {r} /\ r.version # NewVersion(c)
    /\ Raise(c)

\* A faulty variant: whatever save raises, the cache takes the operator.
SaveUpdatesSwallowed(c) ==
    /\ pc[c] = "save"
    /\ \E r \in rows : RowsOf(name[c]) = {r} /\ r.version = NewVersion(c)
    /\ operators' = [operators EXCEPT ![c][name[c]] = NewId(c)]
    /\ Goto(c, "idle")
    /\ UNCHANGED <<rows, deletes, calls, name, existing>>

\* The update names a column the table does not have (dependencies): it is
\* refused when it is compiled.
SaveUpdates(c) ==
    /\ pc[c] = "save"
    /\ \E r \in rows : RowsOf(name[c]) = {r} /\ r.version = NewVersion(c)
    /\ Raise(c)

\* uq_operator_name_version
Taken(c) == \E r \in RowsOf(name[c]) : r.version = NewVersion(c)

NewRow(c) == [id |-> NewId(c), name |-> name[c], version |-> NewVersion(c)]

\* The row is committed and, save having returned, the cache is updated.
Insert(c) ==
    /\ pc[c] = "insert"
    /\ ~Taken(c)
    /\ rows' = rows \cup {NewRow(c)}
    /\ operators' = [operators EXCEPT ![c][name[c]] = NewId(c)]
    /\ Goto(c, "idle")
    /\ UNCHANGED <<deletes, calls, name, existing>>

\* OperatorCompatibilityError
InsertRefused(c) ==
    /\ pc[c] = "insert"
    /\ Taken(c)
    /\ Raise(c)

\* The connection is lost during the commit, which has taken effect.
InsertUnanswered(c) ==
    /\ pc[c] = "insert"
    /\ ~Taken(c)
    /\ rows' = rows \cup {NewRow(c)}
    /\ Goto(c, "idle")
    /\ UNCHANGED <<deletes, operators, calls, name, existing>>

-----------------------------------------------------------------------------
(* OperatorStorage.delete: the cache of no registry hears of it *)

Delete(c, n) == Call(c, n, "find")

FindRow(c) ==
    /\ pc[c] = "find"
    /\ Cardinality(RowsOf(name[c])) = 1
    /\ existing' = [existing EXCEPT ![c] = RowsOf(name[c])]
    /\ Goto(c, "remove")
    /\ UNCHANGED <<rows, deletes, operators, calls, name>>

\* OperatorNotFoundError
FindNothing(c) ==
    /\ pc[c] = "find"
    /\ RowsOf(name[c]) = {}
    /\ Raise(c)

\* DELETE by primary key: a row that is gone meanwhile is only warned about.
RemoveRow(c) ==
    /\ pc[c] = "remove"
    /\ rows' = rows \ existing[c]
    /\ deletes' = [deletes EXCEPT ![name[c]] =
                      @ + Cardinality(rows \cap existing[c])]
    /\ Goto(c, "idle")
    /\ UNCHANGED <<operators, calls, name, existing>>

-----------------------------------------------------------------------------
\* A query raises, or a commit that has not taken effect.
StorageFails(c) ==
    /\ pc[c] # "idle"
    /\ Raise(c)

\* The process dies, whatever it was doing, and starts with an empty cache.
Restart(c) ==
    /\ Goto(c, "idle")
    /\ operators' = [operators EXCEPT ![c] = [n \in Names |-> None]]
    /\ UNCHANGED <<rows, deletes, calls, name, existing>>

\* The operators of storage.load_all, as the cache will hold them.
LoadAll == {r.id : r \in rows}

\* initialize: of several rows of a name, the last one read stays.
Initialize(c) ==
    /\ pc[c] = "idle"
    /\ \E loaded \in [Names -> LoadAll \cup {None}] :
          /\ \A n \in Names :
                IF RowsOf(n) = {} THEN loaded[n] = operators[c][n]
                ELSE loaded[n] \in {r.id : r \in RowsOf(n)}
          /\ operators' = [operators EXCEPT ![c] = loaded]
    /\ UNCHANGED <<rows, deletes, pc, calls, name, existing>>

RegisterStep(c) ==
    \/ Load(c)
    \/ TooManyRows(c)
    \/ SaveFindsNone(c)
    \/ SaveMismatch(c)
    \/ SaveUpdates(c)
    \/ Insert(c)
    \/ InsertRefused(c)
    \/ InsertUnanswered(c)

DeleteStep(c) ==
    \/ FindRow(c)
    \/ FindNothing(c)
    \/ RemoveRow(c)

Next ==
    \E c \in Clients :
        \/ \E n \in Names : Register(c, n) \/ Delete(c, n)
        \/ RegisterStep(c)
        \/ DeleteStep(c)
        \/ StorageFails(c)
        \/ Restart(c)
        \/ Initialize(c)

Spec == Init /\ [][Next]_vars

-----------------------------------------------------------------------------
(* Properties *)

Row == [id : Ids, name : Names, version : Nat \ {0}]

TypeOK ==
    /\ rows \subseteq Row
    /\ deletes \in [Names -> Nat]
    /\ operators \in [Clients -> [Names -> Ids \cup {None}]]
    /\ pc \in [Clients -> {"idle", "load", "save", "insert", "find", "remove"}]
    /\ calls \in [Clients -> 0 .. MaxCalls]
    /\ name \in [Clients -> Names]
    /\ existing \in [Clients -> SUBSET Row]

\* A version above 1, and with it a second row of the same name, takes a
\* deletion between a registration's two queries: as long as nothing is
\* deleted a name has one row, however many processes register it at once.
RowsBoundedByDeletes ==
    \A n \in Names :
        /\ \A r \in RowsOf(n) : r.version <= 1 + deletes[n]
        /\ Cardinality(RowsOf(n)) <= 1 + deletes[n]

\* As long as no row of a name is deleted, the registries of all processes
\* that know the name know the same operator, the one in the table.
RegistriesAgree ==
    \A n \in Names : deletes[n] = 0 =>
        \A c \in Clients : operators[c][n] # None =>
            \E r \in RowsOf(n) : r.id = operators[c][n]

-----------------------------------------------------------------------------
(* What the repository says of itself and the code does not do *)

\* "Version check (optimistic lock)": save refuses a version only because
\* somebody changed the operator after the caller had read it.
MismatchMeansConflict ==
    [][\A c \in Clients : SaveMismatch(c) => RowsOf(name[c]) # existing[c]]_vars
=============================================================================
