---------------------------- MODULE VersionedRow ----------------------------
(***************************************************************************)
(* What the version column of the task table promises, whatever the         *)
(* engine and the scheduler do to keep the promise: a client saves a task   *)
(* by an atomic compare-and-set against the row its copy was made from, and *)
(* the scheduler's status updates, which compare nothing, move the version  *)
(* on so that no later save takes them for unseen.                          *)
(***************************************************************************)
EXTENDS Naturals

CONSTANTS Clients,    \* those that read and write the table
          Tasks,      \* the rows' keys
          Stored,     \* those that have a row at first
          Updates     \* the statuses an update may set

VARIABLES status,     \* the status of each row, or "absent"
          version,    \* its version
          based       \* the version each client's copy was made from

vars == <<status, version, based>>

Init ==
    /\ status = [t \in Tasks |-> IF t \in Stored THEN "pending" ELSE "absent"]
    /\ version = [t \in Tasks |-> 0]
    /\ based = [c \in Clients |-> 0]

\* A client builds a task or reads one: its copy has the row's version.
Build(c) ==
    /\ based' = [based EXCEPT ![c] = 0]
    /\ UNCHANGED <<status, version>>

Read(c, t) ==
    /\ status[t] # "absent"
    /\ based' = [based EXCEPT ![c] = version[t]]
    /\ UNCHANGED <<status, version>>

Insert(t) ==
    /\ status[t] = "absent"
    /\ status' = [status EXCEPT ![t] = "pending"]
    /\ version' = [version EXCEPT ![t] = 0]
    /\ UNCHANGED based

Update(t) ==
    /\ status[t] # "absent"
    /\ \E s \in Updates : status' = [status EXCEPT ![t] = s]
    /\ version' = [version EXCEPT ![t] = @ + 1]
    /\ UNCHANGED based

\* Compare and set: the copy replaces the very row it was made from.
Save(c, t) ==
    /\ status[t] # "absent" /\ based[c] = version[t]
    /\ version' = [version EXCEPT ![t] = based[c] + 1]
    /\ UNCHANGED <<status, based>>

Next ==
    \/ \E c \in Clients : Build(c)
    \/ \E c \in Clients, t \in Tasks : Read(c, t) \/ Save(c, t)
    \/ \E t \in Tasks : Insert(t) \/ Update(t)

Spec == Init /\ [][Next]_vars
=============================================================================
