----------------------- MODULE OperatorRegistry_proofs ------------------------
(***************************************************************************)
(* Theorems about OperatorRegistry: for any processes, names and bound.     *)
(***************************************************************************)
EXTENDS OperatorRegistry, FiniteSetTheorems, TLAPS

-----------------------------------------------------------------------------
(* Types *)

\* The version of the registration under way.
LEMMA NewVersionType ==
    ASSUME TypeOK, NEW c \in Clients
    PROVE  /\ NewVersion(c) \in Nat \ {0}
           /\ existing[c] = {} => NewVersion(c) = 1
           /\ existing[c] # {} => \E r \in existing[c] : NewVersion(c) = 1 + r.version
<1>1. existing[c] \subseteq Row
  BY DEF TypeOK
<1>2. CASE existing[c] = {}
  BY <1>2 DEF NewVersion
<1>3. CASE existing[c] # {}
  <2>1. PICK r \in existing[c] : r = CHOOSE u \in existing[c] : TRUE
    BY <1>3
  <2>2. NewVersion(c) = 1 + r.version
    BY <1>3, <2>1 DEF NewVersion, Version
  <2>3. r.version \in Nat \ {0}
    BY <1>1 DEF Row
  <2>. QED
    BY <1>3, <2>2, <2>3
<1>. QED
  BY <1>2, <1>3

\* The row a registration inserts is a row.
LEMMA NewRowType ==
    ASSUME TypeOK, NEW c \in Clients, pc[c] = "insert", calls[c] # 0
    PROVE  NewId(c) \in Ids /\ NewRow(c) \in Row
<1>1. calls[c] \in 1 .. MaxCalls
  BY RegistryAssumption DEF TypeOK
<1>. QED
  BY <1>1, NewVersionType DEF NewRow, NewId, Ids, Row, TypeOK

\* A call that is under way has been counted; what it has read are rows of
\* its name; there are finitely many of each.
CallInv ==
    \A c \in Clients :
        /\ pc[c] # "idle" => calls[c] # 0
        /\ pc[c] \in {"save", "insert", "remove"} =>
              \A r \in existing[c] : r.name = name[c]

\* The table is finite, and so is what a query has read of it.
FiniteInv == IsFiniteSet(rows) /\ \A c \in Clients : IsFiniteSet(existing[c])

IInv == TypeOK /\ CallInv /\ FiniteInv

\* At first there are no rows and no calls.
LEMMA InvInit == Init => IInv
BY RegistryAssumption, FS_EmptySet DEF Init, IInv, TypeOK, CallInv, FiniteInv

\* Types, calls and finiteness are kept by every step.
LEMMA InvNext == IInv /\ [Next]_vars => IInv'
<1>. SUFFICES ASSUME IInv, [Next]_vars
              PROVE  IInv'
  OBVIOUS
<1>. USE DEF IInv, TypeOK, CallInv, FiniteInv, Goto
<1>1. CASE UNCHANGED vars
  BY <1>1 DEF vars
<1>2. ASSUME NEW c \in Clients, NEW n \in Names, Register(c, n) \/ Delete(c, n)
      PROVE  IInv'
  <2>1. PICK to \in {"load", "find"} : Call(c, n, to)
    BY <1>2 DEF Register, Delete
  <2>2. calls'[c] \in 1 .. MaxCalls /\ calls' \in [Clients -> 0 .. MaxCalls]
    BY <2>1, RegistryAssumption DEF Call
  <2>3. TypeOK' /\ CallInv'
    BY <2>1, <2>2 DEF Call
  <2>4. FiniteInv'
    BY <2>1, FS_EmptySet DEF Call
  <2>. QED
    BY <2>3, <2>4
<1>3. ASSUME NEW c \in Clients, Raise(c)
      PROVE  IInv'
  BY <1>3 DEF Raise
<1>4. ASSUME NEW c \in Clients, Load(c) \/ FindRow(c)
      PROVE  IInv'
  <2>1. RowsOf(name[c]) \subseteq rows /\ IsFiniteSet(RowsOf(name[c]))
    BY FS_Subset DEF RowsOf
  <2>2. /\ pc[c] # "idle" /\ pc' = [pc EXCEPT ![c] = pc'[c]]
        /\ pc'[c] \in {"save", "remove"}
        /\ existing' = [existing EXCEPT ![c] = RowsOf(name[c])]
        /\ UNCHANGED <<rows, deletes, operators, calls, name>>
    BY <1>4 DEF Load, FindRow
  <2>3. TypeOK'
    BY <2>1, <2>2
  <2>4. CallInv'
    BY <2>2 DEF RowsOf
  <2>5. FiniteInv'
    BY <2>1, <2>2
  <2>. QED
    BY <2>3, <2>4, <2>5
<1>5. ASSUME NEW c \in Clients, SaveFindsNone(c)
      PROVE  IInv'
  BY <1>5 DEF SaveFindsNone
<1>6. ASSUME NEW c \in Clients, Insert(c) \/ InsertUnanswered(c)
      PROVE  IInv'
  <2>1. NewId(c) \in Ids /\ NewRow(c) \in Row
    BY <1>6, NewRowType DEF Insert, InsertUnanswered
  <2>2. IsFiniteSet(rows \cup {NewRow(c)})
    BY FS_AddElement
  <2>3. TypeOK'
    <3>1. rows' \subseteq Row /\ pc' = [pc EXCEPT ![c] = "idle"]
      BY <1>6, <2>1 DEF Insert, InsertUnanswered
    <3>2. operators' \in [Clients -> [Names -> Ids \cup {None}]]
      BY <1>6, <2>1 DEF Insert, InsertUnanswered
    <3>3. UNCHANGED <<deletes, calls, name, existing>>
      BY <1>6 DEF Insert, InsertUnanswered
    <3>. QED
      BY <3>1, <3>2, <3>3
  <2>4. CallInv' /\ FiniteInv'
    BY <1>6, <2>2 DEF Insert, InsertUnanswered
  <2>. QED
    BY <2>3, <2>4
<1>7. ASSUME NEW c \in Clients, RemoveRow(c)
      PROVE  IInv'
  <2>1. rows \cap existing[c] \subseteq rows /\ rows \ existing[c] \subseteq rows
    OBVIOUS
  <2>2. Cardinality(rows \cap existing[c]) \in Nat /\ IsFiniteSet(rows \ existing[c])
    BY <2>1, FS_Subset, FS_CardinalityType
  <2>. QED
    BY <1>7, <2>2 DEF RemoveRow
<1>8. ASSUME NEW c \in Clients, Restart(c) \/ Initialize(c)
      PROVE  IInv'
  <2>1. CASE Restart(c)
    BY <2>1 DEF Restart
  <2>2. CASE Initialize(c)
    <3>1. {r.id : r \in rows} \subseteq Ids
      BY DEF Row
    <3>. QED
      BY <2>2, <3>1 DEF Initialize, LoadAll
  <2>. QED
    BY <1>8, <2>1, <2>2
<1>. QED
  BY <1>1, <1>2, <1>3, <1>4, <1>5, <1>6, <1>7, <1>8
  DEF Next, RegisterStep, DeleteStep, TooManyRows, SaveMismatch, SaveUpdates,
      InsertRefused, FindNothing, StorageFails

\* Every reachable state of the registries is well typed.
THEOREM TypeCorrect == Spec => []TypeOK
BY InvInit, InvNext, PTL DEF Spec, IInv

-----------------------------------------------------------------------------
(* Versions count the deletions *)

\* A name's rows have different versions, none more than one above the
\* deletions; a row that was read and is gone was at most as high as they are.
VersionInv ==
    /\ \A r, u \in rows : r.name = u.name /\ r.version = u.version => r = u
    /\ \A r \in rows : r.version <= 1 + deletes[r.name]
    /\ \A c \in Clients :
          /\ pc[c] \in {"save", "insert", "remove"} =>
                \A r \in existing[c] :
                    r.version <= 1 + deletes[name[c]]
                    /\ (r \notin rows => r.version <= deletes[name[c]])
          /\ pc[c] = "insert" => \A r \in existing[c] : r.version <= deletes[name[c]]

\* The new row's version is at most one above the deletions.
LEMMA NewVersionBounded ==
    ASSUME IInv, VersionInv, NEW c \in Clients, pc[c] = "insert"
    PROVE  NewVersion(c) <= 1 + deletes[name[c]]
<1>1. deletes[name[c]] \in Nat /\ existing[c] \subseteq Row
  BY DEF IInv, TypeOK
<1>. QED
  BY <1>1, NewVersionType DEF IInv, VersionInv, Row

\* Removing a row that was there counts.
LEMMA RemoveCounts ==
    ASSUME IInv, NEW c \in Clients, RemoveRow(c)
    PROVE  /\ deletes' \in [Names -> Nat]
           /\ \A n \in Names : deletes[n] <= deletes'[n]
           /\ rows \cap existing[c] # {} => deletes'[name[c]] >= deletes[name[c]] + 1
<1>. DEFINE k == Cardinality(rows \cap existing[c])
<1>1. IsFiniteSet(rows \cap existing[c])
  BY FS_Subset DEF IInv, FiniteInv
<1>2. k \in Nat /\ (rows \cap existing[c] # {} => k # 0)
  BY <1>1, FS_CardinalityType, FS_EmptySet
<1>3. deletes' = [deletes EXCEPT ![name[c]] = @ + k]
  BY DEF RemoveRow
<1>4. deletes \in [Names -> Nat] /\ name[c] \in Names
  BY DEF IInv, TypeOK
<1>. HIDE DEF k
<1>5. deletes'[name[c]] = deletes[name[c]] + k /\ deletes[name[c]] \in Nat
  BY <1>3, <1>4
<1>. QED
  BY <1>2, <1>3, <1>4, <1>5

\* The bound on the versions is inductive.
LEMMA VersionNext == IInv /\ VersionInv /\ [Next]_vars => VersionInv'
<1>. SUFFICES ASSUME IInv, VersionInv, [Next]_vars
              PROVE  VersionInv'
  OBVIOUS
<1>0. /\ rows \subseteq Row /\ deletes \in [Names -> Nat]
      /\ \A c \in Clients : name[c] \in Names /\ existing[c] \subseteq Row
  BY DEF IInv, TypeOK
<1>1. CASE UNCHANGED vars
  BY <1>1 DEF vars, VersionInv
<1>2. ASSUME NEW c \in Clients, NEW n \in Names, Register(c, n) \/ Delete(c, n)
      PROVE  VersionInv'
  BY <1>2 DEF Register, Delete, Call, VersionInv, Goto, IInv, TypeOK
<1>3. ASSUME NEW c \in Clients,
             Raise(c) \/ Restart(c) \/ Initialize(c)
      PROVE  VersionInv'
  BY <1>3 DEF Raise, Restart, Initialize, LoadAll, VersionInv, Goto, IInv, TypeOK
<1>4. ASSUME NEW c \in Clients, Load(c) \/ FindRow(c)
      PROVE  VersionInv'
  BY <1>0, <1>4 DEF Load, FindRow, VersionInv, Goto, RowsOf, IInv, TypeOK
<1>5. ASSUME NEW c \in Clients, SaveFindsNone(c)
      PROVE  VersionInv'
  <2>1. \A r \in existing[c] : r \notin rows
    BY <1>5 DEF SaveFindsNone, RowsOf, IInv, CallInv
  <2>. QED
    BY <1>0, <1>5, <2>1 DEF SaveFindsNone, VersionInv, Goto, IInv, TypeOK
<1>6. ASSUME NEW c \in Clients, Insert(c) \/ InsertUnanswered(c)
      PROVE  VersionInv'
  <2>1. /\ rows' = rows \cup {NewRow(c)} /\ ~Taken(c) /\ pc[c] = "insert"
        /\ deletes' = deletes /\ name' = name /\ existing' = existing
        /\ pc' = [pc EXCEPT ![c] = "idle"]
    BY <1>6 DEF Insert, InsertUnanswered, Goto
  <2>2. NewRow(c).name = name[c] /\ NewRow(c).version = NewVersion(c)
    BY DEF NewRow
  <2>3. NewVersion(c) <= 1 + deletes[name[c]]
    BY <2>1, NewVersionBounded
  <2>4. \A r \in rows : r.name = name[c] => r.version # NewVersion(c)
    BY <2>1 DEF Taken, RowsOf
  <2>5. \A r, u \in rows' : r.name = u.name /\ r.version = u.version => r = u
    BY <2>1, <2>2, <2>4 DEF VersionInv
  <2>6. \A r \in rows' : r.version <= 1 + deletes'[r.name]
    BY <2>1, <2>2, <2>3 DEF VersionInv
  <2>. QED
    BY <1>0, <2>1, <2>5, <2>6 DEF VersionInv, IInv, TypeOK
<1>7. ASSUME NEW c \in Clients, RemoveRow(c)
      PROVE  VersionInv'
  <2>1. /\ rows' = rows \ existing[c] /\ pc[c] = "remove"
        /\ name' = name /\ existing' = existing /\ pc' = [pc EXCEPT ![c] = "idle"]
        /\ \A r \in existing[c] : r.name = name[c]
    BY <1>7 DEF RemoveRow, Goto, IInv, CallInv
  <2>2. /\ deletes' \in [Names -> Nat]
        /\ \A n \in Names : deletes[n] <= deletes'[n]
        /\ rows \cap existing[c] # {} => deletes'[name[c]] >= deletes[name[c]] + 1
    BY <1>7, RemoveCounts
  <2>3. \A r \in rows' : r.version <= 1 + deletes'[r.name]
    BY <1>0, <2>1, <2>2 DEF VersionInv, Row
  <2>4. ASSUME NEW d \in Clients, pc'[d] \in {"save", "insert", "remove"},
               NEW r \in existing'[d]
        PROVE  /\ r.version <= 1 + deletes'[name[d]]
               /\ r \notin rows' => r.version <= deletes'[name[d]]
               /\ pc'[d] = "insert" => r.version <= deletes'[name[d]]
    <3>1. /\ pc'[d] = pc[d] /\ d # c /\ r \in existing[d] /\ r \in Row
          /\ name[d] \in Names /\ r.name = name[d]
      BY <1>0, <2>1, <2>4 DEF IInv, TypeOK, CallInv
    <3>2. /\ r.version \in Nat /\ deletes[name[d]] \in Nat /\ deletes'[name[d]] \in Nat
          /\ deletes[name[d]] <= deletes'[name[d]]
      BY <1>0, <2>2, <3>1 DEF Row
    <3>3. /\ r.version <= 1 + deletes[name[d]]
          /\ r \notin rows => r.version <= deletes[name[d]]
          /\ pc[d] = "insert" => r.version <= deletes[name[d]]
      BY <2>4, <3>1 DEF VersionInv
    <3>4. CASE r \in rows /\ r \in existing[c]
      <4>1. name[d] = name[c] /\ deletes'[name[c]] >= deletes[name[c]] + 1
        BY <2>1, <2>2, <3>1, <3>4
      <4>. QED
        BY <3>2, <3>3, <4>1
    <3>5. CASE ~(r \in rows /\ r \in existing[c])
      BY <2>1, <3>1, <3>2, <3>3, <3>5
    <3>. QED
      BY <3>4, <3>5
  <2>. QED
    BY <2>1, <2>3, <2>4 DEF VersionInv
<1>. QED
  BY <1>1, <1>2, <1>3, <1>4, <1>5, <1>6, <1>7
  DEF Next, RegisterStep, DeleteStep, TooManyRows, SaveMismatch, SaveUpdates,
      InsertRefused, FindNothing, StorageFails

\* The empty table has no versions.
LEMMA VersionInit == Init => VersionInv
BY DEF Init, VersionInv

\* Different versions between 1 and one above the deletions: so many rows.
LEMMA RowsFit ==
    ASSUME IInv, VersionInv, NEW n \in Names
    PROVE  Cardinality(RowsOf(n)) <= 1 + deletes[n]
<1>. DEFINE V == 1 .. (1 + deletes[n])
            f == [r \in RowsOf(n) |-> r.version]
<1>1. deletes[n] \in Nat /\ RowsOf(n) \subseteq Row
  BY DEF IInv, TypeOK, RowsOf
<1>2. IsFiniteSet(V) /\ Cardinality(V) = 1 + deletes[n]
  BY <1>1, FS_Interval
<1>3. f \in Injection(RowsOf(n), V)
  <2>1. f \in [RowsOf(n) -> V]
    BY <1>1 DEF VersionInv, RowsOf, Row
  <2>2. \A r, u \in RowsOf(n) : f[r] = f[u] => r = u
    BY DEF VersionInv, RowsOf
  <2>. QED
    BY <2>1, <2>2 DEF Injection, IsInjective
<1>. QED
  BY <1>2, <1>3, FS_Injection

\* However many processes register a name at once, it has one row as long as
\* none is deleted, and each deletion allows one more row and one version more.
THEOREM DeletesBoundRows == Spec => []RowsBoundedByDeletes
<1>1. IInv /\ VersionInv => RowsBoundedByDeletes
  BY RowsFit DEF RowsBoundedByDeletes, VersionInv, RowsOf
<1>. QED
  BY <1>1, InvInit, InvNext, VersionInit, VersionNext, PTL DEF Spec

-----------------------------------------------------------------------------
(* The caches *)

\* As long as nothing is deleted what a cache holds stays in the table.
LEMMA AgreeNext == IInv /\ RegistriesAgree /\ [Next]_vars => RegistriesAgree'
<1>. SUFFICES ASSUME IInv, RegistriesAgree, [Next]_vars,
                     NEW n \in Names, deletes'[n] = 0,
                     NEW c \in Clients, operators'[c][n] # None
              PROVE  \E r \in rows' : r.name = n /\ r.id = operators'[c][n]
  BY DEF RegistriesAgree, RowsOf
<1>0. /\ deletes \in [Names -> Nat] /\ name[c] \in Names
      /\ operators \in [Clients -> [Names -> Ids \cup {None}]]
  BY DEF IInv, TypeOK
<1>1. ASSUME operators'[c][n] = operators[c][n], deletes[n] = 0
      PROVE  \E r \in rows : r.name = n /\ r.id = operators'[c][n]
  BY <1>1 DEF RegistriesAgree, RowsOf
<1>2. CASE UNCHANGED vars
  BY <1>1, <1>2 DEF vars
<1>3. ASSUME NEW d \in Clients, RemoveRow(d)
      PROVE  \E r \in rows' : r.name = n /\ r.id = operators'[c][n]
  <2>1. deletes[n] = 0 /\ (rows \cap existing[d] # {} => n # name[d])
    <3>1. /\ deletes'[n] \in Nat /\ deletes[n] <= deletes'[n]
          /\ rows \cap existing[d] # {} => deletes'[name[d]] >= deletes[name[d]] + 1
      BY <1>3, RemoveCounts
    <3>2. name[d] \in Names
      BY DEF IInv, TypeOK
    <3>. QED
      BY <1>0, <3>1, <3>2
  <2>2. /\ rows' = rows \ existing[d] /\ operators' = operators
        /\ \A r \in existing[d] : r.name = name[d]
    BY <1>3 DEF RemoveRow, IInv, CallInv
  <2>. QED
    BY <1>1, <2>1, <2>2
<1>4. ASSUME NEW d \in Clients, Insert(d)
      PROVE  \E r \in rows' : r.name = n /\ r.id = operators'[c][n]
  <2>1. CASE d = c /\ n = name[c]
    <3>1. NewRow(c) \in rows' /\ operators'[c][n] = NewId(c)
      BY <1>0, <1>4, <2>1 DEF Insert
    <3>. QED
      BY <2>1, <3>1 DEF NewRow
  <2>2. CASE ~(d = c /\ n = name[c])
    <3>1. operators'[c][n] = operators[c][n] /\ deletes' = deletes /\ rows \subseteq rows'
      BY <1>0, <1>4, <2>2 DEF Insert
    <3>. QED
      BY <1>1, <3>1
  <2>. QED
    BY <2>1, <2>2
<1>5. ASSUME NEW d \in Clients, Restart(d)
      PROVE  \E r \in rows' : r.name = n /\ r.id = operators'[c][n]
  BY <1>0, <1>1, <1>5 DEF Restart
<1>6. ASSUME NEW d \in Clients, Initialize(d)
      PROVE  \E r \in rows' : r.name = n /\ r.id = operators'[c][n]
  BY <1>0, <1>1, <1>6 DEF Initialize, LoadAll, RowsOf
<1>7. ASSUME rows \subseteq rows', operators' = operators, deletes' = deletes
      PROVE  \E r \in rows' : r.name = n /\ r.id = operators'[c][n]
  BY <1>1, <1>7
<1>. QED
  BY <1>2, <1>3, <1>4, <1>5, <1>6, <1>7
  DEF Next, RegisterStep, DeleteStep, Register, Delete, Call, Load, FindRow,
      SaveFindsNone, InsertUnanswered, TooManyRows, SaveMismatch, SaveUpdates,
      InsertRefused, FindNothing, StorageFails, Raise

\* As long as no row of a name is deleted, every process that knows the name
\* knows a row of the table; by DeletesBoundRows there is one.
THEOREM CachesAgree == Spec => []RegistriesAgree
<1>1. Init => RegistriesAgree
  BY DEF Init, RegistriesAgree
<1>. QED
  BY <1>1, InvInit, InvNext, AgreeNext, PTL DEF Spec
=============================================================================
