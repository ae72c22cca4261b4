----------------------- MODULE WorkerRegistry_proofs ------------------------
(***************************************************************************)
(* Theorems about WorkerRegistry, for any number of registrars, calls,      *)
(* assets and faults.                                                       *)
(***************************************************************************)
EXTENDS WorkerRegistry, FiniteSetTheorems, TLAPS

-----------------------------------------------------------------------------
(* The inductive invariant *)

Stops(c, w) == pc[c] = "stopping" /\ old[c] = w

InCall(c) == pc[c] \notin {"idle", "ended"}

\* Calls begin in order.
OrderInv == \A c, d \in Calls : d < c /\ pc[c] # "idle" => pc[d] # "idle"

\* Workers are named by calls that are over, and each belongs to one place:
\* its registrar's entry or the one call that stops it.
WorkerInv ==
    /\ \A c \in Calls : pc[c] # "idle" => owner[c] \in created
    /\ \A r \in Registrars : tracked[r] # NoWorker =>
          pc[tracked[r]] = "ended" /\ owner[tracked[r]] = r
    /\ \A c \in Calls : pc[c] = "stopping" =>
          /\ old[c] # NoWorker
          /\ pc[old[c]] = "ended" /\ owner[old[c]] = owner[c]
          /\ \A r \in Registrars : tracked[r] # old[c]
    /\ \A w \in running : pc[w] = "ended"
    /\ \A c, d \in Calls : pc[c] = "stopping" /\ Stops(d, old[c]) => c = d

\* Without an overlap a registrar has one call, and while that stops a worker
\* it knows of none.
SerialInv ==
    /\ \A c, d \in Calls :
          InCall(c) /\ InCall(d) /\ owner[c] = owner[d] /\ c # d
              => owner[c] \in overlapped
    /\ \A c \in Calls : pc[c] = "stopping" =>
          tracked[owner[c]] = NoWorker \/ owner[c] \in overlapped
    /\ \A w \in running :
          \/ tracked[owner[w]] = w
          \/ \E c \in Calls : Stops(c, w)
          \/ owner[w] \in overlapped

\* A worker that lacks an asset has a restart before it.
FreshInv ==
    faults = 0 => \A r \in Registrars : tracked[r] # NoWorker =>
        \/ served[tracked[r]] = registry[r]
        \/ \E c \in Calls : owner[c] = r /\ pc[c] = "start"

\* Only a call that closes the queue for good stops without launching; the
\* worker a registrar knows is running, and one that has something registered
\* and no worker has a restart before it.
RestartsSoon(r) ==
    \E c \in Calls : owner[c] = r /\ restarts[c] /\ pc[c] \in {"start", "stopping"}

ServedInv ==
    /\ \A c \in Calls : pc[c] = "start" => restarts[c]
    /\ \A c \in Calls : pc[c] # "idle" /\ ~restarts[c] => owner[c] \in closed
    /\ faults = 0 => \A r \in Registrars :
          /\ tracked[r] # NoWorker => tracked[r] \in running
          /\ \/ registry[r] = {} \/ tracked[r] # NoWorker
             \/ r \in closed \/ RestartsSoon(r)

-----------------------------------------------------------------------------
(* Calls begin in order *)

\* The call that begins is the first one that has not begun.
LEMMA NextCall ==
    ASSUME TypeOK, OrderInv, NEW c \in Calls, NEW r, NEW launches,
           Begin(c, r, launches)
    PROVE  pc[c] = "idle" /\ \A d \in Calls : d < c => pc[d] # "idle"
<1>. DEFINE S == {d \in Calls : pc[d] # "idle"}
<1>1. c = Cardinality(S) + 1
  BY DEF Begin
<1>2. IsFiniteSet(S) /\ Cardinality(S) \in Nat
  <2>1. IsFiniteSet(Calls)
    BY RegistrarAssumption, FS_Interval DEF Calls
  <2>. QED
    BY <2>1, FS_Subset, FS_CardinalityType
<1>3. \A n \in Nat : IsFiniteSet(1 .. n) /\ Cardinality(1 .. n) = n
  <2>. TAKE n \in Nat
  <2>. QED
    BY FS_Interval
<1>4. pc[c] = "idle"
  <2>. SUFFICES ASSUME pc[c] # "idle"
                PROVE  FALSE
    OBVIOUS
  <2>1. 1 .. c \subseteq S
    BY RegistrarAssumption DEF OrderInv, Calls
  <2>2. Cardinality(1 .. c) <= Cardinality(S)
    BY <2>1, <1>2, FS_Subset
  <2>. QED
    BY <1>1, <1>2, <1>3, <2>2, RegistrarAssumption DEF Calls
<1>5. ASSUME NEW d \in Calls, d < c, pc[d] = "idle"
      PROVE  FALSE
  <2>1. S \subseteq 1 .. (d - 1)
    <3>1. ASSUME NEW e \in S
          PROVE  e < d
      BY <1>5, RegistrarAssumption DEF OrderInv, Calls
    <3>. QED
      BY <3>1, RegistrarAssumption DEF Calls
  <2>2. d - 1 \in Nat
    BY RegistrarAssumption DEF Calls
  <2>3. Cardinality(S) <= d - 1
    BY <2>1, <2>2, <1>3, FS_Subset
  <2>. QED
    BY <1>1, <1>2, <1>5, <2>3, RegistrarAssumption DEF Calls
<1>. QED
  BY <1>4, <1>5

\* A call that moves on does not become idle again.
LEMMA OrderKept ==
    ASSUME TypeOK, OrderInv, NEW c \in Calls, NEW to, to # "idle",
           pc' = [pc EXCEPT ![c] = to],
           pc[c] # "idle" \/ \A d \in Calls : d < c => pc[d] # "idle"
    PROVE  OrderInv'
<1>1. \A d \in Calls : pc'[d] = IF d = c THEN to ELSE pc[d]
  BY DEF TypeOK
<1>. QED
  BY <1>1 DEF OrderInv

-----------------------------------------------------------------------------
(* What a call does when it begins or first runs *)

\* A call of r begins, or runs for the first time; the others stay.
Enters(c, r) ==
    /\ r \in created /\ created' = created
    /\ owner' = [owner EXCEPT ![c] = r]
    /\ \/ /\ pc[c] = "idle"
          /\ overlapped' = IF Busy(r) = {} THEN overlapped ELSE overlapped \cup {r}
       \/ /\ pc[c] \in {"start", "closing"} /\ owner[c] = r
          /\ overlapped' = overlapped

\* It pops the worker to stop it.
LEMMA PopEffect ==
    ASSUME TypeOK, WorkerInv, SerialInv, NEW c \in Calls, NEW r \in Registrars,
           Enters(c, r), StopTracked(c, r), tracked[r] # NoWorker
    PROVE  WorkerInv' /\ SerialInv'
<1>. USE DEF TypeOK, StopTracked, Goto, Stops, NoWorker
<1>1. /\ \A d \in Calls : d # c => pc'[d] = pc[d] /\ owner'[d] = owner[d] /\ old'[d] = old[d]
      /\ pc'[c] = "stopping" /\ owner'[c] = r /\ old'[c] = tracked[r]
      /\ tracked'[r] = 0 /\ \A s \in Registrars : s # r => tracked'[s] = tracked[s]
      /\ running' = running /\ tracked[r] \in Calls
      /\ pc[c] \in {"idle", "start", "closing"}
  BY DEF Enters
<1>2. WorkerInv'
  BY <1>1 DEF Enters, WorkerInv, Calls
<1>3. overlapped \subseteq overlapped'
      /\ \A d \in Calls : d # c /\ InCall(d) /\ owner[d] = r => r \in overlapped'
  BY DEF Enters, Busy, InCall, SerialInv
<1>4. SerialInv'
  <2>1. \A d, e \in Calls :
          InCall(d)' /\ InCall(e)' /\ owner'[d] = owner'[e] /\ d # e
              => owner'[d] \in overlapped'
    BY <1>1, <1>3 DEF SerialInv, InCall
  <2>2. \A d \in Calls : pc'[d] = "stopping" =>
          tracked'[owner'[d]] = NoWorker \/ owner'[d] \in overlapped'
    BY <1>1, <1>3 DEF SerialInv, WorkerInv
  <2>3. ASSUME NEW w \in running
        PROVE  \/ tracked'[owner'[w]] = w
               \/ \E d \in Calls : Stops(d, w)'
               \/ owner'[w] \in overlapped'
    <3>1. w \in Calls /\ w # c /\ owner'[w] = owner[w] /\ owner[w] \in created
      BY <1>1 DEF WorkerInv
    <3>2. CASE tracked[owner[w]] = w
      BY <3>1, <3>2, <1>1
    <3>3. CASE \E d \in Calls : Stops(d, w)
      BY <3>3, <1>1
    <3>. QED
      BY <3>1, <3>2, <3>3, <1>3 DEF SerialInv
  <2>. QED
    BY <1>1, <2>1, <2>2, <2>3 DEF SerialInv
<1>. QED
  BY <1>2, <1>4

\* It launches a worker for a queue that has none, or finds nothing to launch.
LEMMA LaunchEffect ==
    ASSUME TypeOK, WorkerInv, SerialInv, NEW c \in Calls, NEW r \in Registrars,
           NEW assets, Enters(c, r), Launch(c, r, assets, running),
           tracked[r] = NoWorker, old' = old
    PROVE  WorkerInv' /\ SerialInv'
<1>. USE DEF TypeOK, Launch, Goto, Stops, NoWorker
<1>1. /\ \A d \in Calls : d # c => pc'[d] = pc[d] /\ owner'[d] = owner[d]
      /\ pc'[c] = "ended" /\ owner'[c] = r
      /\ tracked'[r] \in {0, c} /\ \A s \in Registrars : s # r => tracked'[s] = tracked[s]
      /\ running' = running \/ (running' = running \cup {c} /\ tracked'[r] = c)
      /\ pc[c] \in {"idle", "start", "closing"}
  <2>1. CASE assets = {}
    BY <2>1 DEF Enters
  <2>2. CASE assets # {}
    BY <2>2 DEF Enters
  <2>. QED
    BY <2>1, <2>2
<1>2. WorkerInv'
  <2>1. \A d \in Calls : pc'[d] # "idle" => owner'[d] \in created'
    BY <1>1 DEF Enters, WorkerInv
  <2>2. \A s \in Registrars : tracked'[s] # NoWorker =>
          pc'[tracked'[s]] = "ended" /\ owner'[tracked'[s]] = s
    BY <1>1 DEF WorkerInv, Calls
  <2>3. ASSUME NEW d \in Calls, pc'[d] = "stopping"
        PROVE  /\ old'[d] # NoWorker
               /\ pc'[old'[d]] = "ended" /\ owner'[old'[d]] = owner'[d]
               /\ \A s \in Registrars : tracked'[s] # old'[d]
    <3>1. d # c /\ pc[d] = "stopping"
      BY <2>3, <1>1
    <3>2. old[d] \in Calls /\ old[d] # c /\ old[d] # 0
      BY <3>1, <1>1 DEF WorkerInv
    <3>. QED
      BY <3>1, <3>2, <1>1 DEF WorkerInv
  <2>4. \A w \in running' : pc'[w] = "ended"
    BY <1>1 DEF WorkerInv
  <2>5. \A d, e \in Calls : pc'[d] = "stopping" /\ Stops(e, old[d])' => d = e
    BY <1>1 DEF WorkerInv
  <2>. QED
    BY <2>1, <2>2, <2>3, <2>4, <2>5 DEF WorkerInv
<1>3. overlapped \subseteq overlapped'
      /\ \A d \in Calls : d # c /\ InCall(d) /\ owner[d] = r => r \in overlapped'
  BY DEF Enters, Busy, InCall, SerialInv
<1>4. SerialInv'
  <2>1. \A d, e \in Calls :
          InCall(d)' /\ InCall(e)' /\ owner'[d] = owner'[e] /\ d # e
              => owner'[d] \in overlapped'
    BY <1>1, <1>3 DEF SerialInv, InCall
  <2>2. ASSUME NEW d \in Calls, pc'[d] = "stopping"
        PROVE  tracked'[owner'[d]] = NoWorker \/ owner'[d] \in overlapped'
    <3>1. d # c /\ owner'[d] = owner[d] /\ pc[d] = "stopping" /\ owner[d] \in created
      BY <2>2, <1>1 DEF WorkerInv
    <3>2. owner[d] = r => r \in overlapped'
      BY <3>1, <1>3 DEF InCall
    <3>. QED
      BY <3>1, <3>2, <1>1, <1>3 DEF SerialInv
  <2>3. ASSUME NEW w \in running'
        PROVE  \/ tracked'[owner'[w]] = w
               \/ \E d \in Calls : Stops(d, w)'
               \/ owner'[w] \in overlapped'
    <3>0. CASE w \notin running
      BY <3>0, <1>1
    <3>1. CASE w \in running
      <4>1. w \in Calls /\ w # c /\ owner'[w] = owner[w] /\ owner[w] \in created
        BY <3>1, <1>1 DEF WorkerInv
      <4>2. CASE tracked[owner[w]] = w
        BY <4>1, <4>2, <1>1 DEF Calls
      <4>3. CASE \E d \in Calls : Stops(d, w)
        BY <4>3, <1>1
      <4>. QED
        BY <3>1, <4>1, <4>2, <4>3, <1>3 DEF SerialInv
    <3>. QED
      BY <3>0, <3>1
  <2>. QED
    BY <1>1, <2>1, <2>2, <2>3 DEF SerialInv
<1>. QED
  BY <1>2, <1>4

\* It waits for its turn or ends.
LEMMA IdleEffect ==
    ASSUME TypeOK, WorkerInv, SerialInv, NEW c \in Calls, NEW r \in Registrars,
           NEW to \in {"start", "closing", "ended"}, Enters(c, r), Goto(c, to),
           UNCHANGED <<tracked, running, old>>
    PROVE  WorkerInv' /\ SerialInv'
<1>. USE DEF TypeOK, Goto, Stops, NoWorker
<1>1. /\ \A d \in Calls : d # c => pc'[d] = pc[d] /\ owner'[d] = owner[d]
      /\ pc'[c] = to /\ owner'[c] = r
      /\ pc[c] \in {"idle", "start", "closing"}
  BY DEF Enters
<1>2. WorkerInv'
  BY <1>1 DEF Enters, WorkerInv, Calls
<1>3. overlapped \subseteq overlapped'
      /\ \A d \in Calls : d # c /\ InCall(d) /\ owner[d] = r => r \in overlapped'
  BY DEF Enters, Busy, InCall, SerialInv
<1>4. SerialInv'
  <2>1. \A d, e \in Calls :
          InCall(d)' /\ InCall(e)' /\ owner'[d] = owner'[e] /\ d # e
              => owner'[d] \in overlapped'
    BY <1>1, <1>3 DEF SerialInv, InCall
  <2>2. \A d \in Calls : pc'[d] = "stopping" =>
          tracked'[owner'[d]] = NoWorker \/ owner'[d] \in overlapped'
    BY <1>1, <1>3 DEF SerialInv
  <2>3. ASSUME NEW w \in running
        PROVE  \/ tracked'[owner'[w]] = w
               \/ \E d \in Calls : Stops(d, w)'
               \/ owner'[w] \in overlapped'
    <3>1. w \in Calls /\ w # c /\ owner'[w] = owner[w]
      BY <1>1 DEF WorkerInv
    <3>2. CASE \E d \in Calls : Stops(d, w)
      BY <3>2, <1>1
    <3>. QED
      BY <3>1, <3>2, <1>3 DEF SerialInv
  <2>. QED
    BY <1>1, <2>1, <2>2, <2>3 DEF SerialInv
<1>. QED
  BY <1>2, <1>4

-----------------------------------------------------------------------------
(* What a call does when the old worker has stopped *)

\* The old worker is gone, and perhaps a new one runs in its registrar's entry.
LEMMA StoppedEffect ==
    ASSUME TypeOK, WorkerInv, SerialInv, NEW c \in Calls, pc[c] = "stopping",
           Goto(c, "ended"), UNCHANGED <<created, owner, old, overlapped>>,
           \/ running' = running \ {old[c]} /\ tracked' = tracked
           \/ /\ running' = (running \ {old[c]}) \cup {c}
              /\ tracked' = [tracked EXCEPT ![owner[c]] = c]
    PROVE  WorkerInv' /\ SerialInv'
<1>. USE DEF TypeOK, Goto, Stops, NoWorker
<1>1. /\ \A d \in Calls : d # c => pc'[d] = pc[d]
      /\ pc'[c] = "ended" /\ owner[c] \in created /\ owner[c] \in Registrars
      /\ \A s \in Registrars : s # owner[c] => tracked'[s] = tracked[s]
      /\ tracked'[owner[c]] = tracked[owner[c]] \/ tracked'[owner[c]] = c
  BY DEF WorkerInv
<1>2. WorkerInv'
  <2>1. \A d \in Calls : pc'[d] # "idle" => owner'[d] \in created'
    BY <1>1 DEF WorkerInv
  <2>2. \A s \in Registrars : tracked'[s] # NoWorker =>
          pc'[tracked'[s]] = "ended" /\ owner'[tracked'[s]] = s
    BY <1>1 DEF WorkerInv
  <2>3. ASSUME NEW d \in Calls, pc'[d] = "stopping"
        PROVE  /\ old'[d] # NoWorker
               /\ pc'[old'[d]] = "ended" /\ owner'[old'[d]] = owner'[d]
               /\ \A s \in Registrars : tracked'[s] # old'[d]
    <3>1. d # c /\ pc[d] = "stopping"
      BY <2>3, <1>1
    <3>2. old[d] \in Calls /\ old[d] # c /\ old[d] # 0
      BY <3>1, <1>1 DEF WorkerInv
    <3>. QED
      BY <3>1, <3>2, <1>1 DEF WorkerInv
  <2>4. \A w \in running' : pc'[w] = "ended"
    BY <1>1 DEF WorkerInv
  <2>5. \A d, e \in Calls : pc'[d] = "stopping" /\ Stops(e, old[d])' => d = e
    BY <1>1 DEF WorkerInv
  <2>. QED
    BY <2>1, <2>2, <2>3, <2>4, <2>5 DEF WorkerInv
<1>3. SerialInv'
  <2>1. \A d, e \in Calls :
          InCall(d)' /\ InCall(e)' /\ owner'[d] = owner'[e] /\ d # e
              => owner'[d] \in overlapped'
    BY <1>1 DEF SerialInv, InCall
  <2>2. ASSUME NEW d \in Calls, pc'[d] = "stopping"
        PROVE  tracked'[owner'[d]] = NoWorker \/ owner'[d] \in overlapped'
    <3>1. d # c /\ pc[d] = "stopping"
      BY <2>2, <1>1
    <3>2. owner[d] = owner[c] => owner[c] \in overlapped
      BY <3>1 DEF SerialInv, InCall
    <3>. QED
      BY <3>1, <3>2, <1>1 DEF SerialInv, WorkerInv
  <2>3. ASSUME NEW w \in running'
        PROVE  \/ tracked'[owner'[w]] = w
               \/ \E d \in Calls : Stops(d, w)'
               \/ owner'[w] \in overlapped'
    <3>0. CASE w \notin running
      BY <3>0, <1>1
    <3>1. CASE w \in running
      <4>1. w \in Calls /\ w # c /\ pc[w] = "ended" /\ owner[w] \in Registrars
        BY <3>1, <1>1 DEF WorkerInv
      <4>2. CASE tracked[owner[w]] = w
        <5>1. w # 0
          BY <4>1, RegistrarAssumption DEF Calls
        <5>2. CASE owner[w] # owner[c]
          BY <4>1, <4>2, <5>2, <1>1
        <5>3. CASE owner[w] = owner[c]
          BY <4>2, <5>1, <5>3 DEF SerialInv
        <5>. QED
          BY <5>2, <5>3
      <4>3. CASE \E d \in Calls : Stops(d, w)
        <5>1. w # old[c]
          BY <3>1, <4>1
        <5>. QED
          BY <4>3, <5>1, <1>1
      <4>. QED
        BY <3>1, <4>1, <4>2, <4>3 DEF SerialInv
    <3>. QED
      BY <3>0, <3>1
  <2>. QED
    BY <2>1, <2>2, <2>3 DEF SerialInv
<1>. QED
  BY <1>2, <1>3

-----------------------------------------------------------------------------
(* Every step *)

IInv == TypeOK /\ OrderInv /\ WorkerInv /\ SerialInv /\ FreshInv /\ ServedInv

\* A call that begins enters the registrar.
LEMMA BeginEnters ==
    ASSUME TypeOK, OrderInv, NEW c \in Calls, NEW r \in Registrars,
           NEW launches \in BOOLEAN, Begin(c, r, launches), created' = created
    PROVE  /\ Enters(c, r) /\ pc[c] = "idle"
           /\ \A d \in Calls : d < c => pc[d] # "idle"
BY NextCall DEF Begin, Enters, TypeOK

\* The two ways in which a restart goes on, StopTracked and Launch.
LEMMA RestartEffect ==
    ASSUME TypeOK, OrderInv, WorkerInv, SerialInv, NEW c \in Calls,
           NEW r \in Registrars, NEW assets, Enters(c, r), Restart(c, r, assets),
           pc[c] # "idle" \/ \A d \in Calls : d < c => pc[d] # "idle"
    PROVE  OrderInv' /\ WorkerInv' /\ SerialInv'
<1>1. CASE tracked[r] # NoWorker /\ StopTracked(c, r)
  <2>1. OrderInv'
    BY <1>1, OrderKept DEF StopTracked, Goto
  <2>. QED
    BY <1>1, <2>1, PopEffect
<1>2. CASE tracked[r] = NoWorker /\ Launch(c, r, assets, running) /\ UNCHANGED old
  <2>1. OrderInv'
    BY <1>2, OrderKept DEF Launch, Goto
  <2>. QED
    BY <1>2, <2>1, LaunchEffect
<1>. QED
  BY <1>1, <1>2 DEF Restart

\* register, deregister and the deferred registrations.
LEMMA StepBegin ==
    ASSUME TypeOK, OrderInv, WorkerInv, SerialInv, NEW c \in Calls,
           NEW r \in Registrars, NEW assets, NEW a, NEW override, NEW remove,
           \/ Register(c, r, assets, override) \/ RegisterRaises(c, r, assets)
           \/ RegisterLater(c, r, a) \/ Deregister(c, r, remove)
    PROVE  OrderInv' /\ WorkerInv' /\ SerialInv'
<1>0. PICK launches \in BOOLEAN : Begin(c, r, launches) /\ created' = created
  BY DEF Register, RegisterRaises, RegisterLater, Deregister
<1>1. Enters(c, r) /\ pc[c] = "idle" /\ \A d \in Calls : d < c => pc[d] # "idle"
  BY <1>0, BeginEnters
<1>2. CASE Register(c, r, assets, override)
  BY <1>1, <1>2, RestartEffect DEF Register
<1>3. CASE RegisterRaises(c, r, assets)
  BY <1>1, <1>3, IdleEffect, OrderKept DEF RegisterRaises, Goto
<1>4. CASE RegisterLater(c, r, a)
  BY <1>1, <1>4, IdleEffect, OrderKept DEF RegisterLater, Goto
<1>5. CASE Deregister(c, r, remove) /\ tracked[r] # NoWorker
  BY <1>1, <1>5, PopEffect, OrderKept DEF Deregister, StopTracked, Goto
<1>6. CASE Deregister(c, r, remove) /\ tracked[r] = NoWorker
  BY <1>1, <1>6, IdleEffect, OrderKept DEF Deregister, Goto
<1>. QED
  BY <1>2, <1>3, <1>4, <1>5, <1>6

\* A signal creates a call of the registrar that handles it.
LEMMA StepSignal ==
    ASSUME TypeOK, OrderInv, WorkerInv, SerialInv, NEW c \in Calls, Signal(c)
    PROVE  OrderInv' /\ WorkerInv' /\ SerialInv'
<1>1. handler \in Registrars /\ Begin(c, handler, FALSE) /\ created' = created
  BY DEF Signal, TypeOK
<1>2. Enters(c, handler) /\ pc[c] = "idle" /\ \A d \in Calls : d < c => pc[d] # "idle"
  BY <1>1, BeginEnters
<1>. QED
  BY <1>1, <1>2, IdleEffect, OrderKept DEF Signal, Goto

\* A call runs from one await to the next, or its constructor raises.
LEMMA StepCall ==
    ASSUME TypeOK, OrderInv, WorkerInv, SerialInv, NEW c \in Calls,
           Step(c) \/ LaunchFails(c)
    PROVE  OrderInv' /\ WorkerInv' /\ SerialInv'
<1>0. pc[c] # "idle" => owner[c] \in created /\ owner[c] \in Registrars
  BY DEF WorkerInv, TypeOK
<1>1. CASE StartRestart(c)
  <2>1. Enters(c, owner[c])
    BY <1>0, <1>1 DEF StartRestart, Enters, registrarVars, TypeOK
  <2>. QED
    BY <1>0, <1>1, <2>1, RestartEffect DEF StartRestart
<1>2. CASE CloseWorker(c)
  <2>1. Enters(c, owner[c])
    BY <1>0, <1>2 DEF CloseWorker, Enters, registrarVars, TypeOK
  <2>2. CASE tracked[owner[c]] # NoWorker
    BY <1>0, <1>2, <2>1, <2>2, PopEffect, OrderKept DEF CloseWorker, StopTracked, Goto
  <2>3. CASE tracked[owner[c]] = NoWorker
    BY <1>0, <1>2, <2>1, <2>3, IdleEffect, OrderKept DEF CloseWorker, Goto
  <2>. QED
    BY <2>2, <2>3
<1>3. CASE WorkerStopped(c)
  BY <1>3, StoppedEffect, OrderKept DEF WorkerStopped, Launch, Goto, registrarVars
<1>4. CASE LaunchFails(c) /\ pc[c] = "start"
  <2>1. Enters(c, owner[c])
    BY <1>0, <1>4 DEF LaunchFails, Enters, registrarVars, TypeOK
  <2>. QED
    BY <1>0, <1>4, <2>1, IdleEffect, OrderKept DEF LaunchFails, Goto
<1>5. CASE LaunchFails(c) /\ pc[c] = "stopping"
  BY <1>5, StoppedEffect, OrderKept DEF LaunchFails, Goto, registrarVars
<1>. QED
  BY <1>1, <1>2, <1>3, <1>4, <1>5 DEF Step, LaunchFails

\* The steps that are no call's.
LEMMA StepOther ==
    ASSUME TypeOK, OrderInv, WorkerInv, SerialInv,
           \/ \E r \in Registrars : NewRegistrar(r)
           \/ \E w \in Calls : WorkerDies(w)
           \/ UNCHANGED vars
    PROVE  OrderInv' /\ WorkerInv' /\ SerialInv'
<1>1. CASE \E r \in Registrars : NewRegistrar(r)
  BY <1>1 DEF NewRegistrar, OrderInv, WorkerInv, SerialInv, Stops, InCall
<1>2. CASE \E w \in Calls : WorkerDies(w)
  BY <1>2 DEF WorkerDies, registrarVars, OrderInv, WorkerInv, SerialInv, Stops, InCall
<1>3. CASE UNCHANGED vars
  BY <1>3 DEF vars, registrarVars, OrderInv, WorkerInv, SerialInv, Stops, InCall
<1>. QED
  BY <1>1, <1>2, <1>3

-----------------------------------------------------------------------------
(* Types *)

\* The initial state is well typed.
LEMMA TypeInit == Init => TypeOK
BY RegistrarAssumption DEF Init, TypeOK, NoWorker, None

\* Every step keeps the types.
LEMMA TypeNext == TypeOK /\ WorkerInv /\ [Next]_vars => TypeOK'
<1>. SUFFICES ASSUME TypeOK, WorkerInv, [Next]_vars
              PROVE  TypeOK'
  OBVIOUS
<1>. USE DEF TypeOK, Goto
<1>1. CASE \E r \in Registrars : NewRegistrar(r)
  BY <1>1 DEF NewRegistrar
<1>2. ASSUME NEW c \in Calls, NEW r \in Registrars, NEW assets \in SUBSET Assets,
             Restart(c, r, assets)
      PROVE  /\ tracked' \in [Registrars -> Calls \cup {NoWorker}]
             /\ served' \in [Calls -> SUBSET Assets]
             /\ running' \subseteq Calls
             /\ pc' \in [Calls -> {"idle", "start", "closing", "stopping", "ended"}]
             /\ old' \in [Calls -> Calls \cup {NoWorker}]
  <2>1. CASE StopTracked(c, r)
    BY <2>1 DEF StopTracked
  <2>2. CASE Launch(c, r, assets, running) /\ UNCHANGED old
    <3>1. CASE assets = {}
      BY <2>2, <3>1 DEF Launch
    <3>2. CASE assets # {}
      BY <2>2, <3>2 DEF Launch
    <3>. QED
      BY <3>1, <3>2
  <2>. QED
    BY <1>2, <2>1, <2>2 DEF Restart
<1>3. ASSUME NEW c \in Calls, NEW r \in Registrars, NEW launches \in BOOLEAN,
             Begin(c, r, launches)
      PROVE  /\ owner' \in [Calls -> Registrars \cup {None}]
             /\ restarts' \in [Calls -> BOOLEAN]
             /\ overlapped' \subseteq created
  BY <1>3 DEF Begin
<1>4. \A c \in Calls : pc[c] # "idle" => owner[c] \in Registrars
  BY DEF WorkerInv
<1>5. ASSUME NEW c \in Calls, StartRestart(c)
      PROVE  TypeOK'
  BY <1>2, <1>4, <1>5 DEF StartRestart, registrarVars
<1>6. ASSUME NEW c \in Calls, CloseWorker(c)
      PROVE  TypeOK'
  BY <1>4, <1>6 DEF CloseWorker, StopTracked, registrarVars
<1>7. ASSUME NEW c \in Calls, WorkerStopped(c)
      PROVE  TypeOK'
  <2>1. /\ tracked' \in [Registrars -> Calls \cup {NoWorker}]
        /\ served' \in [Calls -> SUBSET Assets]
        /\ running' \subseteq Calls
        /\ pc' \in [Calls -> {"idle", "start", "closing", "stopping", "ended"}]
    BY <1>4, <1>7 DEF WorkerStopped, Launch
  <2>. QED
    BY <1>7, <2>1 DEF WorkerStopped, registrarVars
<1>8. ASSUME Fault
      PROVE  faults' \in 0 .. MaxFaults
  BY <1>8, RegistrarAssumption DEF Fault
<1>9. ASSUME NEW c \in Calls, LaunchFails(c) \/ WorkerDies(c)
      PROVE  TypeOK'
  BY <1>8, <1>9 DEF LaunchFails, WorkerDies, registrarVars
<1>10. ASSUME NEW c \in Calls, NEW r \in Registrars, NEW assets \in SUBSET Assets,
              NEW override, Register(c, r, assets, override)
       PROVE  TypeOK'
  <2>1. registry[r] \cup assets \in SUBSET Assets
    OBVIOUS
  <2>. QED
    BY <1>2, <1>3, <1>10, <2>1 DEF Register
<1>11. ASSUME NEW c \in Calls, NEW r \in Registrars, NEW a \in Assets,
              RegisterLater(c, r, a)
       PROVE  TypeOK'
  BY <1>3, <1>11 DEF RegisterLater
<1>12. ASSUME NEW c \in Calls, NEW r \in Registrars, NEW assets \in SUBSET Assets,
              RegisterRaises(c, r, assets)
       PROVE  TypeOK'
  BY <1>3, <1>8, <1>12 DEF RegisterRaises
<1>13. ASSUME NEW c \in Calls, NEW r \in Registrars, NEW remove, Deregister(c, r, remove)
       PROVE  TypeOK'
  <2>1. r \in created
    BY <1>13 DEF Deregister, Begin
  <2>. QED
    BY <1>3, <1>13, <2>1 DEF Deregister, StopTracked
<1>14. ASSUME NEW c \in Calls, Signal(c)
       PROVE  TypeOK'
  <2>1. handler \in Registrars /\ handler \in created
    BY <1>14 DEF Signal, Begin
  <2>. QED
    BY <1>3, <1>14, <2>1 DEF Signal
<1>15. CASE UNCHANGED vars
  BY <1>15 DEF vars, registrarVars
<1>16. \A a \in Assets : {a} \in SUBSET Assets
  OBVIOUS
<1>. QED
  BY <1>1, <1>5, <1>6, <1>7, <1>9, <1>10, <1>11, <1>12, <1>13, <1>14, <1>15, <1>16
  DEF Next, Step, Terminating

-----------------------------------------------------------------------------
(* What the tracked worker serves *)

FreshAt(r) ==
    tracked[r] # NoWorker =>
        \/ served[tracked[r]] = registry[r]
        \/ \E c \in Calls : owner[c] = r /\ pc[c] = "start"

\* A call that is over for r leaves the other registrars as they are.
LEMMA FreshElsewhere ==
    ASSUME TypeOK, WorkerInv, NEW c \in Calls, NEW r \in Registrars, NEW s \in Registrars,
           s # r, pc[c] = "idle" \/ owner[c] = r, pc[c] # "ended",
           \A d \in Calls : d # c => /\ pc'[d] = pc[d] /\ owner'[d] = owner[d]
                                     /\ served'[d] = served[d],
           tracked'[s] = tracked[s], registry'[s] = registry[s], FreshAt(s)
    PROVE  FreshAt(s)'
<1>1. tracked[s] # NoWorker => tracked[s] \in Calls /\ tracked[s] # c
  BY DEF WorkerInv, TypeOK, NoWorker
<1>2. ASSUME NEW d \in Calls, owner[d] = s, pc[d] = "start"
      PROVE  owner'[d] = s /\ pc'[d] = "start"
  BY <1>2
<1>. QED
  BY <1>1, <1>2 DEF FreshAt

\* A restart leaves its registrar without a worker or with a current one.
LEMMA FreshRestart ==
    ASSUME TypeOK, WorkerInv, NEW c \in Calls, NEW r \in Registrars, NEW assets,
           Restart(c, r, assets), assets = registry'[r]
    PROVE  /\ FreshAt(r)'
           /\ \A d \in Calls : d # c => pc'[d] = pc[d] /\ served'[d] = served[d]
           /\ \A s \in Registrars : s # r => tracked'[s] = tracked[s]
<1>. USE DEF TypeOK, Goto, NoWorker, FreshAt
<1>1. CASE StopTracked(c, r)
  BY <1>1 DEF StopTracked
<1>2. CASE tracked[r] = NoWorker /\ Launch(c, r, assets, running)
  <2>1. CASE assets = {}
    BY <1>2, <2>1 DEF Launch
  <2>2. CASE assets # {}
    BY <1>2, <2>2 DEF Launch
  <2>. QED
    BY <2>1, <2>2
<1>. QED
  BY <1>1, <1>2 DEF Restart

\* Only a fault is counted as one.
LEMMA FaultsCount ==
    ASSUME [Next]_vars
    PROVE  faults' = faults \/ Fault
<1>1. ASSUME NEW r \in Registrars, NewRegistrar(r)
      PROVE  faults' = faults
  BY <1>1 DEF NewRegistrar
<1>2. ASSUME NEW c \in Calls, Step(c)
      PROVE  faults' = faults
  BY <1>2 DEF Step, StartRestart, CloseWorker, WorkerStopped
<1>3. ASSUME NEW c \in Calls, LaunchFails(c) \/ WorkerDies(c) \/ Signal(c)
      PROVE  faults' = faults \/ Fault
  BY <1>3 DEF LaunchFails, WorkerDies, Signal
<1>4. ASSUME NEW c \in Calls, NEW r \in Registrars, NEW a,
             \/ Register(c, r, {a}, TRUE) \/ Register(c, r, {a}, FALSE)
             \/ RegisterRaises(c, r, {a}) \/ RegisterLater(c, r, a)
      PROVE  faults' = faults \/ Fault
  BY <1>4 DEF Register, RegisterRaises, RegisterLater
<1>5. ASSUME NEW c \in Calls, NEW r \in Registrars, NEW remove, Deregister(c, r, remove)
      PROVE  faults' = faults
  BY <1>5 DEF Deregister
<1>6. CASE Terminating \/ UNCHANGED vars
  BY <1>6 DEF Terminating, vars
<1>. QED
  BY <1>1, <1>2, <1>3, <1>4, <1>5, <1>6 DEF Next

\* Every step leaves the workers current or a restart to come.
LEMMA FreshNext ==
    ASSUME TypeOK, OrderInv, WorkerInv, FreshInv, [Next]_vars
    PROVE  FreshInv'
<1>. USE DEF TypeOK, Goto, NoWorker, FreshAt
<1>. SUFFICES ASSUME faults' = 0
              PROVE  \A s \in Registrars : FreshAt(s)'
  BY DEF FreshInv
<1>0. faults = 0 \/ Fault
  BY FaultsCount
<1>1. ~Fault
  BY RegistrarAssumption DEF Fault
<1>2. \A s \in Registrars : FreshAt(s)
  BY <1>0, <1>1 DEF FreshInv
<1>3. ASSUME NEW c \in Calls, NEW r \in Registrars, NEW assets, NEW override,
             Register(c, r, assets, override)
      PROVE  \A s \in Registrars : FreshAt(s)'
  <2>1. pc[c] = "idle"
    BY <1>3, NextCall DEF Register
  <2>2. registry'[r] = registry[r] \cup assets
        /\ \A s \in Registrars : s # r => registry'[s] = registry[s]
    BY <1>3 DEF Register
  <2>3. \A d \in Calls : d # c => owner'[d] = owner[d]
    BY <1>3 DEF Register, Begin
  <2>4. Restart(c, r, registry[r] \cup assets)
    BY <1>3 DEF Register
  <2>5. /\ FreshAt(r)'
        /\ \A d \in Calls : d # c => pc'[d] = pc[d] /\ served'[d] = served[d]
        /\ \A s \in Registrars : s # r => tracked'[s] = tracked[s]
    BY <2>2, <2>4, FreshRestart
  <2>6. ASSUME NEW s \in Registrars, s # r
        PROVE  FreshAt(s)'
    BY <1>2, <2>1, <2>2, <2>3, <2>5, <2>6, FreshElsewhere
  <2>. QED
    BY <2>5, <2>6
<1>4. ASSUME NEW c \in Calls, NEW r \in Registrars, NEW a, RegisterLater(c, r, a)
      PROVE  \A s \in Registrars : FreshAt(s)'
  <2>1. pc[c] = "idle"
    BY <1>4, NextCall DEF RegisterLater
  <2>. QED
    BY <1>2, <1>4, <2>1, FreshElsewhere DEF RegisterLater, Begin
<1>5. ASSUME NEW c \in Calls, NEW r \in Registrars, NEW remove, Deregister(c, r, remove)
      PROVE  \A s \in Registrars : FreshAt(s)'
  <2>1. pc[c] = "idle"
    BY <1>5, NextCall DEF Deregister
  <2>2. FreshAt(r)'
    BY <1>5 DEF Deregister, StopTracked
  <2>3. /\ \A d \in Calls : d # c => /\ pc'[d] = pc[d] /\ owner'[d] = owner[d]
                                     /\ served'[d] = served[d]
        /\ \A s \in Registrars : s # r =>
              tracked'[s] = tracked[s] /\ registry'[s] = registry[s]
    BY <1>5 DEF Deregister, Begin, StopTracked
  <2>4. ASSUME NEW s \in Registrars, s # r
        PROVE  FreshAt(s)'
    BY <1>2, <2>1, <2>3, <2>4, FreshElsewhere
  <2>. QED
    BY <2>2, <2>4
<1>6. ASSUME NEW c \in Calls, Signal(c)
      PROVE  \A s \in Registrars : FreshAt(s)'
  <2>1. pc[c] = "idle"
    BY <1>6, NextCall DEF Signal
  <2>. QED
    BY <1>2, <1>6, <2>1 DEF Signal, Begin
<1>7. \A c \in Calls : pc[c] # "idle" => owner[c] \in Registrars
  BY DEF WorkerInv
<1>8. ASSUME NEW c \in Calls, StartRestart(c)
      PROVE  \A s \in Registrars : FreshAt(s)'
  <2>1. /\ Restart(c, owner[c], registry[owner[c]]) /\ pc[c] = "start"
        /\ owner' = owner /\ registry' = registry
    BY <1>8 DEF StartRestart, registrarVars
  <2>. QED
    BY <1>2, <1>7, <2>1, FreshRestart, FreshElsewhere
<1>9. ASSUME NEW c \in Calls, CloseWorker(c)
      PROVE  \A s \in Registrars : FreshAt(s)'
  BY <1>2, <1>7, <1>9 DEF CloseWorker, StopTracked, registrarVars
<1>10. ASSUME NEW c \in Calls, WorkerStopped(c)
       PROVE  \A s \in Registrars : FreshAt(s)'
  <2>1. PICK r, assets :
           /\ r \in Registrars
           /\ Launch(c, r, assets, running \ {old[c]}) /\ pc[c] = "stopping"
           /\ owner[c] = r /\ owner' = owner /\ registry' = registry
           /\ assets = {} \/ assets = registry[r]
    BY <1>7, <1>10 DEF WorkerStopped, registrarVars
  <2>2. CASE assets = {}
    BY <1>2, <2>1, <2>2 DEF Launch
  <2>3. CASE assets # {}
    <3>1. /\ FreshAt(r)'
          /\ \A d \in Calls : d # c => pc'[d] = pc[d] /\ served'[d] = served[d]
          /\ \A s \in Registrars : s # r => tracked'[s] = tracked[s]
      BY <2>1, <2>3 DEF Launch
    <3>. QED
      BY <1>2, <2>1, <3>1, FreshElsewhere
  <2>. QED
    BY <2>2, <2>3
<1>11. CASE \E r \in Registrars : NewRegistrar(r)
  BY <1>2, <1>11 DEF NewRegistrar
<1>12. CASE UNCHANGED vars
  BY <1>2, <1>12 DEF vars, registrarVars
<1>. QED
  BY <1>1, <1>3, <1>4, <1>5, <1>6, <1>8, <1>9, <1>10, <1>11, <1>12
  DEF Next, Step, Terminating, LaunchFails, RegisterRaises, WorkerDies

-----------------------------------------------------------------------------
(* What is registered is served or about to be *)

ServedAt(r) ==
    /\ tracked[r] # NoWorker => tracked[r] \in running
    /\ \/ registry[r] = {} \/ tracked[r] # NoWorker
       \/ r \in closed \/ RestartsSoon(r)

\* What a call does for one registrar leaves the others as they are.
LEMMA ServedElsewhere ==
    ASSUME TypeOK, NEW c \in Calls, NEW r \in Registrars, NEW s \in Registrars,
           s # r, pc[c] = "idle" \/ owner[c] = r,
           \A d \in Calls : d # c => /\ pc'[d] = pc[d] /\ owner'[d] = owner[d]
                                     /\ restarts'[d] = restarts[d],
           tracked'[s] = tracked[s], registry'[s] = registry[s],
           tracked[s] # NoWorker /\ tracked[s] \in running => tracked[s] \in running',
           closed \subseteq closed', ServedAt(s)
    PROVE  ServedAt(s)'
<1>1. RestartsSoon(s) => RestartsSoon(s)'
  BY DEF RestartsSoon
<1>. QED
  BY <1>1 DEF ServedAt

\* A restart launches a worker, or waits to, or finds nothing to serve.
LEMMA ServedRestart ==
    ASSUME TypeOK, NEW c \in Calls, NEW r \in Registrars, NEW assets,
           Restart(c, r, assets), assets = registry'[r], owner'[c] = r, restarts'[c]
    PROVE  /\ ServedAt(r)'
           /\ running \subseteq running' /\ pc'[c] # "start"
           /\ \A d \in Calls : d # c => pc'[d] = pc[d]
           /\ \A s \in Registrars : s # r => tracked'[s] = tracked[s]
<1>. USE DEF TypeOK, Goto, NoWorker, ServedAt, RestartsSoon
<1>1. CASE StopTracked(c, r)
  BY <1>1 DEF StopTracked
<1>2. CASE tracked[r] = NoWorker /\ Launch(c, r, assets, running)
  <2>1. CASE assets = {}
    BY <1>2, <2>1 DEF Launch
  <2>2. CASE assets # {}
    <3>1. c # NoWorker
      BY RegistrarAssumption DEF Calls
    <3>. QED
      BY <1>2, <2>2, <3>1 DEF Launch
  <2>. QED
    BY <2>1, <2>2
<1>. QED
  BY <1>1, <1>2 DEF Restart

\* The first two parts hold whatever fails.
LEMMA ClosersNext ==
    ASSUME TypeOK, OrderInv, ServedInv, [Next]_vars
    PROVE  \A c \in Calls : /\ pc'[c] = "start" => restarts'[c]
                            /\ pc'[c] # "idle" /\ ~restarts'[c] => owner'[c] \in closed'
<1>. DEFINE Good(c) == /\ pc[c] = "start" => restarts[c]
                       /\ pc[c] # "idle" /\ ~restarts[c] => owner[c] \in closed
<1>. USE DEF TypeOK, Goto
<1>0. \A c \in Calls : Good(c)
  BY DEF ServedInv
<1>1. ASSUME NEW c \in Calls, NEW r \in Registrars, NEW launches \in BOOLEAN,
             Begin(c, r, launches), closed \subseteq closed',
             launches \/ r \in closed',
             \E to \in {"start", "closing", "stopping", "ended"} :
                 pc' = [pc EXCEPT ![c] = to] /\ (to = "start" => launches)
      PROVE  \A d \in Calls : Good(d)'
  <2>1. owner'[c] = r /\ restarts'[c] = launches
    BY <1>1 DEF Begin
  <2>2. \A d \in Calls : d # c => owner'[d] = owner[d] /\ restarts'[d] = restarts[d]
                                  /\ pc'[d] = pc[d]
    BY <1>1 DEF Begin
  <2>3. pc'[c] = "start" => launches
    BY <1>1
  <2>. QED
    BY <1>0, <1>1, <2>1, <2>2, <2>3
<1>2. ASSUME NEW c \in Calls, pc[c] # "idle", closed' = closed, owner' = owner,
             restarts' = restarts,
             \E to \in {"stopping", "ended"} : pc' = [pc EXCEPT ![c] = to]
      PROVE  \A d \in Calls : Good(d)'
  BY <1>0, <1>2
<1>3. ASSUME NEW c \in Calls, NEW r, NEW assets, Restart(c, r, assets)
      PROVE  \E to \in {"stopping", "ended"} : pc' = [pc EXCEPT ![c] = to]
  BY <1>3 DEF Restart, StopTracked, Launch
<1>4. ASSUME NEW c \in Calls, NEW r \in Registrars, NEW a, NEW assets, NEW override,
             \/ Register(c, r, assets, override) \/ RegisterRaises(c, r, assets)
             \/ RegisterLater(c, r, a)
      PROVE  \A d \in Calls : Good(d)'
  <2>1. Begin(c, r, TRUE) /\ closed' = closed
    BY <1>4 DEF Register, RegisterRaises, RegisterLater
  <2>2. \E to \in {"start", "closing", "stopping", "ended"} : pc' = [pc EXCEPT ![c] = to]
    BY <1>3, <1>4 DEF Register, RegisterRaises, RegisterLater
  <2>. QED
    BY <1>1, <2>1, <2>2
<1>5. ASSUME NEW c \in Calls, NEW r \in Registrars, NEW remove, Deregister(c, r, remove)
      PROVE  \A d \in Calls : Good(d)'
  <2>1. Begin(c, r, FALSE) /\ closed' = closed \cup {r}
    BY <1>5 DEF Deregister
  <2>2. \E to \in {"stopping", "ended"} : pc' = [pc EXCEPT ![c] = to]
    BY <1>5 DEF Deregister, StopTracked
  <2>. QED
    BY <1>1, <2>1, <2>2
<1>6. ASSUME NEW c \in Calls, Signal(c)
      PROVE  \A d \in Calls : Good(d)'
  <2>1. /\ handler \in Registrars /\ Begin(c, handler, FALSE)
        /\ closed' = closed \cup {handler} /\ pc' = [pc EXCEPT ![c] = "closing"]
    BY <1>6 DEF Signal, Begin
  <2>. QED
    BY <1>1, <2>1
<1>7. ASSUME NEW c \in Calls, Step(c) \/ LaunchFails(c)
      PROVE  \A d \in Calls : Good(d)'
  <2>1. /\ pc[c] # "idle" /\ closed' = closed /\ owner' = owner /\ restarts' = restarts
    BY <1>7
    DEF Step, StartRestart, CloseWorker, WorkerStopped, LaunchFails, registrarVars
  <2>2. \E to \in {"stopping", "ended"} : pc' = [pc EXCEPT ![c] = to]
    BY <1>3, <1>7
    DEF Step, StartRestart, CloseWorker, StopTracked, WorkerStopped, Launch, LaunchFails
  <2>. QED
    BY <1>2, <2>1, <2>2
<1>8. CASE \/ \E r \in Registrars : NewRegistrar(r)
           \/ \E w \in Calls : WorkerDies(w)
           \/ UNCHANGED vars
  BY <1>0, <1>8 DEF NewRegistrar, WorkerDies, vars, registrarVars
<1>. QED
  BY <1>4, <1>5, <1>6, <1>7, <1>8 DEF Next, Terminating

\* Every step leaves what is registered served or a restart to come.
LEMMA ServedNext ==
    ASSUME TypeOK, OrderInv, WorkerInv, ServedInv, [Next]_vars
    PROVE  ServedInv'
<1>. USE DEF TypeOK, Goto, NoWorker
<1>. SUFFICES ASSUME faults' = 0
              PROVE  \A s \in Registrars : ServedAt(s)'
  BY ClosersNext DEF ServedInv, ServedAt
<1>0. faults = 0 \/ Fault
  BY FaultsCount
<1>1. ~Fault
  BY RegistrarAssumption DEF Fault
<1>2. \A s \in Registrars : ServedAt(s)
  BY <1>0, <1>1 DEF ServedInv, ServedAt
<1>3. ASSUME NEW c \in Calls, NEW r \in Registrars, NEW assets, NEW override,
             Register(c, r, assets, override)
      PROVE  \A s \in Registrars : ServedAt(s)'
  <2>1. /\ pc[c] = "idle" /\ owner'[c] = r /\ restarts'[c]
        /\ \A d \in Calls : d # c => owner'[d] = owner[d] /\ restarts'[d] = restarts[d]
    BY <1>3, NextCall DEF Register, Begin
  <2>2. /\ registry'[r] = registry[r] \cup assets /\ closed' = closed
        /\ \A s \in Registrars : s # r => registry'[s] = registry[s]
    BY <1>3 DEF Register
  <2>3. Restart(c, r, registry[r] \cup assets)
    BY <1>3 DEF Register
  <2>4. /\ ServedAt(r)' /\ running \subseteq running'
        /\ \A d \in Calls : d # c => pc'[d] = pc[d]
        /\ \A s \in Registrars : s # r => tracked'[s] = tracked[s]
    BY <2>1, <2>2, <2>3, ServedRestart
  <2>5. ASSUME NEW s \in Registrars, s # r
        PROVE  ServedAt(s)'
    BY <1>2, <2>1, <2>2, <2>4, <2>5, ServedElsewhere
  <2>. QED
    BY <2>4, <2>5
<1>4. ASSUME NEW c \in Calls, NEW r \in Registrars, NEW a, RegisterLater(c, r, a)
      PROVE  \A s \in Registrars : ServedAt(s)'
  <2>1. pc[c] = "idle"
    BY <1>4, NextCall DEF RegisterLater
  <2>2. owner'[c] = r /\ restarts'[c] /\ pc'[c] = "start"
    BY <1>4 DEF RegisterLater, Begin
  <2>3. ServedAt(r)'
    BY <1>2, <1>4, <2>2 DEF RegisterLater, ServedAt, RestartsSoon
  <2>4. ASSUME NEW s \in Registrars, s # r
        PROVE  ServedAt(s)'
    BY <1>2, <1>4, <2>1, <2>4, ServedElsewhere DEF RegisterLater, Begin
  <2>. QED
    BY <2>3, <2>4
<1>5. ASSUME NEW c \in Calls, NEW r \in Registrars, NEW remove, Deregister(c, r, remove)
      PROVE  \A s \in Registrars : ServedAt(s)'
  <2>1. pc[c] = "idle"
    BY <1>5, NextCall DEF Deregister
  <2>2. ServedAt(r)'
    BY <1>5 DEF Deregister, StopTracked, ServedAt
  <2>3. /\ \A d \in Calls : d # c => /\ pc'[d] = pc[d] /\ owner'[d] = owner[d]
                                     /\ restarts'[d] = restarts[d]
        /\ \A s \in Registrars : s # r =>
              tracked'[s] = tracked[s] /\ registry'[s] = registry[s]
        /\ running' = running /\ closed \subseteq closed'
    BY <1>5 DEF Deregister, Begin, StopTracked
  <2>4. ASSUME NEW s \in Registrars, s # r
        PROVE  ServedAt(s)'
    BY <1>2, <2>1, <2>3, <2>4, ServedElsewhere
  <2>. QED
    BY <2>2, <2>4
<1>6. ASSUME NEW c \in Calls, Signal(c)
      PROVE  \A s \in Registrars : ServedAt(s)'
  <2>1. PICK r \in Registrars : Begin(c, r, FALSE) /\ closed' = closed \cup {r}
    BY <1>6 DEF Signal, Begin
  <2>2. /\ pc[c] = "idle"
        /\ UNCHANGED <<tracked, running, registry>>
        /\ \A d \in Calls : d # c => pc'[d] = pc[d]
    BY <1>6, <2>1, NextCall DEF Signal, Begin
  <2>3. ASSUME NEW s \in Registrars, s # r
        PROVE  ServedAt(s)'
    BY <1>2, <2>1, <2>2, <2>3, ServedElsewhere DEF Begin
  <2>4. ServedAt(r)'
    BY <1>2, <2>1, <2>2 DEF ServedAt
  <2>. QED
    BY <2>3, <2>4
<1>7. \A c \in Calls : pc[c] # "idle" => owner[c] \in Registrars
  BY DEF WorkerInv
<1>8. ASSUME NEW c \in Calls, StartRestart(c)
      PROVE  \A s \in Registrars : ServedAt(s)'
  <2>0. PICK r \in Registrars : r = owner[c]
    BY <1>7, <1>8 DEF StartRestart
  <2>1. /\ Restart(c, r, registry[r]) /\ pc[c] = "start" /\ owner[c] = r
        /\ owner' = owner /\ registry' = registry /\ restarts' = restarts
        /\ closed' = closed
    BY <1>8, <2>0 DEF StartRestart, registrarVars
  <2>2. restarts'[c]
    BY <2>1 DEF ServedInv
  <2>3. /\ ServedAt(r)' /\ running \subseteq running'
        /\ \A d \in Calls : d # c => pc'[d] = pc[d]
        /\ \A s \in Registrars : s # r => tracked'[s] = tracked[s]
    BY <2>1, <2>2, ServedRestart
  <2>4. ASSUME NEW s \in Registrars, s # r
        PROVE  ServedAt(s)'
    BY <1>2, <2>1, <2>3, <2>4, ServedElsewhere
  <2>. QED
    BY <2>3, <2>4
<1>9. ASSUME NEW c \in Calls, CloseWorker(c)
      PROVE  \A s \in Registrars : ServedAt(s)'
  <2>0. PICK r \in Registrars : r = owner[c]
    BY <1>7, <1>9 DEF CloseWorker
  <2>1. /\ pc[c] = "closing" /\ owner[c] = r
        /\ owner' = owner /\ registry' = registry /\ restarts' = restarts
        /\ closed' = closed
    BY <1>9, <2>0 DEF CloseWorker, registrarVars
  <2>2. /\ running' = running
        /\ \A d \in Calls : d # c => pc'[d] = pc[d]
        /\ \A s \in Registrars : s # r => tracked'[s] = tracked[s]
        /\ tracked'[r] = NoWorker
    BY <1>9, <2>1 DEF CloseWorker, StopTracked
  <2>3. ASSUME NEW s \in Registrars, s # r
        PROVE  ServedAt(s)'
    BY <1>2, <2>1, <2>2, <2>3, ServedElsewhere
  <2>4. ServedAt(r)'
    <3>1. CASE restarts[c]
      <4>1. tracked'[r] = tracked[r] /\ RestartsSoon(r) => RestartsSoon(r)'
        BY <2>1, <2>2 DEF RestartsSoon
      <4>. QED
        BY <1>2, <1>9, <2>1, <2>2, <3>1, <4>1
        DEF CloseWorker, StopTracked, ServedAt, RestartsSoon
    <3>2. CASE ~restarts[c]
      <4>1. r \in closed
        BY <2>1, <3>2 DEF ServedInv
      <4>. QED
        BY <2>1, <2>2, <4>1 DEF ServedAt
    <3>. QED
      BY <3>1, <3>2
  <2>. QED
    BY <2>3, <2>4
<1>10. ASSUME NEW c \in Calls, WorkerStopped(c)
       PROVE  \A s \in Registrars : ServedAt(s)'
  <2>0. PICK r \in Registrars : r = owner[c]
    BY <1>7, <1>10 DEF WorkerStopped
  <2>. DEFINE assets == IF restarts[c] THEN registry[r] ELSE {}
  <2>1. /\ pc[c] = "stopping" /\ owner[c] = r
        /\ owner' = owner /\ registry' = registry /\ restarts' = restarts
        /\ closed' = closed /\ Launch(c, r, assets, running \ {old[c]})
    BY <1>10, <2>0 DEF WorkerStopped, registrarVars
  <2>2. /\ \A d \in Calls : d # c => pc'[d] = pc[d]
        /\ \A s \in Registrars : s # r => tracked'[s] = tracked[s]
        /\ running \ {old[c]} \subseteq running'
        /\ assets = {} => tracked'[r] = tracked[r]
        /\ assets # {} => tracked'[r] = c /\ c \in running'
    BY <2>1 DEF Launch
  <2>3. \A s \in Registrars : tracked[s] # old[c]
    BY <2>1 DEF WorkerInv
  <2>4. ASSUME NEW s \in Registrars, s # r
        PROVE  ServedAt(s)'
    BY <1>2, <2>1, <2>2, <2>3, <2>4, ServedElsewhere
  <2>5. tracked'[r] # NoWorker => tracked'[r] \in running'
    BY <1>2, <2>1, <2>2, <2>3 DEF ServedAt
  <2>6. \/ registry'[r] = {} \/ tracked'[r] # NoWorker \/ r \in closed'
    <3>1. c # NoWorker
      BY RegistrarAssumption DEF Calls
    <3>2. CASE restarts[c]
      BY <2>1, <2>2, <3>1, <3>2
    <3>3. CASE ~restarts[c]
      BY <2>1, <3>3 DEF ServedInv
    <3>. QED
      BY <3>2, <3>3
  <2>7. ServedAt(r)'
    BY <2>5, <2>6 DEF ServedAt
  <2>. QED
    BY <2>4, <2>7
<1>11. CASE (\E r \in Registrars : NewRegistrar(r)) \/ UNCHANGED vars
  BY <1>2, <1>11 DEF NewRegistrar, vars, registrarVars, ServedAt, RestartsSoon
<1>. QED
  BY <1>1, <1>3, <1>4, <1>5, <1>6, <1>8, <1>9, <1>10, <1>11
  DEF Next, Step, Terminating, LaunchFails, RegisterRaises, WorkerDies

-----------------------------------------------------------------------------
(* The theorems *)

\* The initial state satisfies the invariant.
LEMMA InvInit == Init => IInv
BY TypeInit
DEF Init, IInv, OrderInv, WorkerInv, SerialInv, FreshInv, ServedInv, Stops, InCall

\* Every step keeps the invariant.
LEMMA InvNext == IInv /\ [Next]_vars => IInv'
<1>. SUFFICES ASSUME TypeOK, OrderInv, WorkerInv, SerialInv, FreshInv, ServedInv,
                     [Next]_vars
              PROVE  IInv'
  BY DEF IInv
<1>1. OrderInv' /\ WorkerInv' /\ SerialInv'
  BY StepBegin, StepSignal, StepCall, StepOther DEF Next, Terminating
<1>. QED
  BY <1>1, TypeNext, FreshNext, ServedNext DEF IInv

\* So it holds in every reachable state.
LEMMA Invariant == Spec => []IInv
<1>. QED
  BY InvInit, InvNext, PTL DEF Spec

\* Every variable keeps its type.
THEOREM TypeCorrect == Spec => []TypeOK
<1>1. IInv => TypeOK
  BY DEF IInv
<1>. QED
  BY <1>1, Invariant, PTL

\* No worker is stopped by two calls, and none that a registrar still counts
\* on is being stopped.
THEOREM EachStoppedOnce == Spec => []OneStopper
<1>1. ASSUME IInv
      PROVE  OneStopper
  <2>1. ASSUME NEW w \in Calls
        PROVE  Cardinality(Stopping(w)) <= 1
    <3>1. CASE Stopping(w) = {}
      BY <3>1, FS_EmptySet
    <3>2. CASE Stopping(w) # {}
      <4>1. PICK c \in Calls : Stopping(w) = {c}
        BY <1>1, <3>2 DEF IInv, WorkerInv, Stopping, Stops
      <4>. QED
        BY <4>1, FS_Singleton
    <3>. QED
      BY <3>1, <3>2
  <2>2. \A w \in Calls, r \in created : tracked[r] = w => Stopping(w) = {}
    BY <1>1 DEF IInv, TypeOK, WorkerInv, Stopping
  <2>. QED
    BY <2>1, <2>2 DEF OneStopper
<1>. QED
  BY <1>1, Invariant, PTL

\* A registrar whose calls never overlap leaves no worker running that it
\* neither knows nor stops.
THEOREM SerialLeaksNothing == Spec => []SerialCallsLeakNothing
<1>1. IInv => SerialCallsLeakNothing
  BY DEF IInv, SerialInv, SerialCallsLeakNothing, Stopping, Stops
<1>. QED
  BY <1>1, Invariant, PTL

\* With no call under way, a registrar's worker was constructed with exactly
\* what is registered now.
THEOREM TrackedWorkerIsCurrent == Spec => []TrackedIsCurrent
<1>1. IInv => TrackedIsCurrent
  BY DEF IInv, TypeOK, FreshInv, TrackedIsCurrent, Busy
<1>. QED
  BY <1>1, Invariant, PTL

\* Without faults and until it is closed, what a registrar has registered is
\* served by the worker it knows, or a restart that will serve it is under way.
THEOREM RegisteredIsServedSoon == Spec => []UnservedMeansRestart
<1>1. IInv => UnservedMeansRestart
  <2>. SUFFICES ASSUME IInv, faults = 0, NEW r \in Registrars, NEW a \in registry[r],
                       r \notin closed, ~RestartsSoon(r)
                PROVE  Serves(r, a)
    BY DEF UnservedMeansRestart, RestartsSoon
  <2>1. tracked[r] # NoWorker /\ tracked[r] \in running
    BY DEF IInv, ServedInv
  <2>2. \A c \in Calls : ~(owner[c] = r /\ pc[c] = "start")
    BY DEF IInv, ServedInv, RestartsSoon
  <2>3. served[tracked[r]] = registry[r]
    BY <2>1, <2>2 DEF IInv, FreshInv
  <2>. QED
    BY <2>1, <2>3 DEF Serves, Healthy
<1>. QED
  BY <1>1, Invariant, PTL
-----------------------------------------------------------------------------
(* Closing a queue *)

\* The step with which a call that closes its queue for good ends.
Closes(c) == pc[c] # "ended" /\ pc'[c] = "ended" /\ ~restarts'[c]

\* When such a call is over no worker of its registrar runs, unless the
\* registrar's calls have overlapped.
ClosingLeavesNone ==
    [][\A c \in Calls : Closes(c) =>
          \/ owner'[c] \in overlapped'
          \/ \A w \in running' : owner'[w] # owner'[c]]_vars

\* How such a call ends, and what the registrar then knows.
LEMMA ClosingStep ==
    ASSUME IInv, [Next]_vars, NEW c \in Calls, Closes(c)
    PROVE  /\ owner'[c] \in Registrars
           /\ tracked'[owner'[c]] = NoWorker \/ owner'[c] \in overlapped'
           /\ \A d \in Calls \ {c} : pc'[d] = pc[d] /\ owner'[d] = owner[d]
           /\ overlapped \subseteq overlapped'
           /\ \/ InCall(c) /\ owner'[c] = owner[c]
              \/ Busy(owner'[c]) # {} => owner'[c] \in overlapped'
<1>. USE DEF IInv, TypeOK, Closes, Goto
<1>1. ASSUME NEW b \in Calls, CloseWorker(b)
      PROVE  b = c /\ InCall(c) /\ tracked[owner[c]] = NoWorker
             /\ UNCHANGED <<owner, overlapped, tracked>> /\ pc' = [pc EXCEPT ![c] = "ended"]
  BY <1>1 DEF CloseWorker, StopTracked, InCall, registrarVars
<1>2. ASSUME NEW b \in Calls, WorkerStopped(b)
      PROVE  b = c /\ InCall(c)
             /\ (tracked[owner[c]] = NoWorker \/ owner[c] \in overlapped)
             /\ UNCHANGED <<owner, overlapped, tracked>> /\ pc' = [pc EXCEPT ![c] = "ended"]
  BY <1>2 DEF WorkerStopped, Launch, InCall, SerialInv
<1>3. ASSUME NEW b \in Calls, NEW r \in Registrars, NEW remove, Deregister(b, r, remove)
      PROVE  b = c /\ owner' = [owner EXCEPT ![c] = r] /\ tracked'[r] = NoWorker
             /\ pc' = [pc EXCEPT ![c] = "ended"] /\ overlapped \subseteq overlapped'
             /\ (Busy(r) # {} => r \in overlapped')
  BY <1>3 DEF Deregister, StopTracked, Begin
<1>4. ASSUME NEW b \in Calls, StartRestart(b)
      PROVE  FALSE
  BY <1>4 DEF StartRestart, Restart, Launch, StopTracked, ServedInv
<1>5. ASSUME NEW b \in Calls, LaunchFails(b)
      PROVE  FALSE
  BY <1>5 DEF LaunchFails
<1>6. ASSUME NEW b \in Calls, NEW r \in Registrars, NEW a \in Assets,
             \/ Register(b, r, {a}, TRUE) \/ Register(b, r, {a}, FALSE)
             \/ RegisterRaises(b, r, {a}) \/ RegisterLater(b, r, a)
      PROVE  FALSE
  BY <1>6 DEF Register, Restart, Launch, StopTracked, RegisterRaises, RegisterLater, Begin
<1>7. ASSUME NEW b \in Calls, Signal(b) \/ WorkerDies(b)
      PROVE  FALSE
  BY <1>7 DEF Signal, WorkerDies
<1>8. ASSUME (\E r \in Registrars : NewRegistrar(r)) \/ Terminating \/ UNCHANGED vars
      PROVE  FALSE
  BY <1>8 DEF NewRegistrar, Terminating, vars
<1>9. pc[c] # "idle" => owner[c] \in Registrars
  BY DEF WorkerInv
<1>10. CASE \E b \in Calls : CloseWorker(b) \/ WorkerStopped(b)
  BY <1>1, <1>2, <1>9, <1>10 DEF InCall
<1>11. CASE \E b \in Calls, r \in Registrars, remove \in BOOLEAN : Deregister(b, r, remove)
  BY <1>3, <1>11
<1>. QED
  BY <1>4, <1>5, <1>6, <1>7, <1>8, <1>10, <1>11 DEF Next, Step

\* deregister and the signal handler leave no worker of their registrar behind,
\* if its calls never overlap: what SignalStopsWorkers says of the state in
\* which they end.
THEOREM ClosedForGood == Spec => ClosingLeavesNone
<1>1. ASSUME IInv, IInv', [Next]_vars, NEW c \in Calls, Closes(c),
             owner'[c] \notin overlapped', NEW w \in running', owner'[w] = owner'[c]
      PROVE  FALSE
  <2>1. /\ tracked'[owner'[c]] = NoWorker
        /\ \A d \in Calls \ {c} : pc'[d] = pc[d] /\ owner'[d] = owner[d]
        /\ overlapped \subseteq overlapped'
        /\ (InCall(c) /\ owner'[c] = owner[c]) \/ Busy(owner'[c]) = {}
    BY <1>1, ClosingStep
  <2>2. w \in Calls
    BY <1>1 DEF IInv, TypeOK
  <2>3. tracked'[owner'[w]] # w /\ w \in running'
    BY <1>1, <2>1, <2>2, RegistrarAssumption DEF Calls, NoWorker
  <2>4. PICK d \in Calls : Stops(d, w)'
    BY <1>1, <2>3 DEF IInv, SerialInv
  <2>5. d # c /\ pc[d] = "stopping" /\ owner[d] = owner'[c]
    BY <1>1, <2>1, <2>4 DEF IInv, WorkerInv, Stops, Closes
  <2>6. InCall(c) /\ owner[c] = owner[d]
    BY <2>1, <2>5 DEF Busy
  <2>. QED
    BY <1>1, <2>1, <2>5, <2>6 DEF IInv, SerialInv, InCall
<1>2. IInv /\ IInv' /\ [Next]_vars =>
        [\A c \in Calls : Closes(c) =>
          \/ owner'[c] \in overlapped'
          \/ \A w \in running' : owner'[w] # owner'[c]]_vars
  BY <1>1
<1>. QED
  BY <1>2, Invariant, PTL DEF Spec, ClosingLeavesNone
=============================================================================
