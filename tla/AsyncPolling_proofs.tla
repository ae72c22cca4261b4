------------------------ MODULE AsyncPolling_proofs -------------------------
(***************************************************************************)
(* Theorems about AsyncPolling, for any deadlines, pauses and request       *)
(* timeouts, any number of waits of a request and any behaviour of the      *)
(* servers.                                                                 *)
(***************************************************************************)
EXTENDS AsyncPolling, TLAPS

Ended == {"succeeded", "failed"}

\* What a configuration is made of.
LEMMA ConfigType ==
    ASSUME config \in Configs
    PROVE  /\ config.total \in Nat /\ config.interval \in Nat
           /\ config.main \in Nat /\ StatusTimeout \in Nat
           /\ config.async \in BOOLEAN /\ config.known \in BOOLEAN
<1>1. /\ config.total \in TotalTimeouts /\ config.interval \in PollIntervals
      /\ config.main \in RequestTimeouts
      /\ config.status \in RequestTimeouts \cup {NotGiven}
      /\ config.async \in BOOLEAN /\ config.known \in BOOLEAN
  BY DEF Configs
<1>2. config.total \in Nat /\ config.interval \in Nat /\ config.main \in Nat
  BY <1>1, PollingAssumption
<1>3. StatusTimeout \in Nat
  BY <1>1, <1>2, PollingAssumption DEF StatusTimeout
<1>. QED
  BY <1>1, <1>2, <1>3

\* Each wait of a request may take its timeout.
LEMMA Times ==
    ASSUME NEW w \in Nat, NEW v \in Nat, NEW t \in Nat
    PROVE  /\ w * t \in Nat /\ 0 * t = 0 /\ 1 * t = t
           /\ (w + 1) * t = w * t + t
           /\ w <= v => w * t <= v * t
OBVIOUS

\* No step changes the configuration.
LEMMA ConfigStays ==
    ASSUME [Next]_vars
    PROVE  config' = config /\ StatusTimeout' = StatusTimeout
BY DEF Next, CallerStep, RequestTimesOut, Terminating, vars, SendMain, LoopHead,
       WakeUp, Tick, MainAnswered, PollAnswered, MainFails, PollFails, WaitAgain,
       JobStarts, JobEnds, ServerReplies, StatusTimeout

-----------------------------------------------------------------------------
(* Types *)

\* The initial state is well typed.
LEMMA TypeInit == Init => TypeOK
BY ConfigType, PollingAssumption DEF Init, TypeOK

\* Every step keeps the types.
LEMMA TypeNext == TypeOK /\ [Next]_vars => TypeOK'
<1>. SUFFICES ASSUME TypeOK, [Next]_vars
              PROVE  TypeOK'
  OBVIOUS
<1>. USE ConfigType, PollingAssumption DEF TypeOK, serverVars, Wait, Finish, Send
<1>1. CASE SendMain
  BY <1>1 DEF SendMain
<1>2. CASE LoopHead
  BY <1>2 DEF LoopHead
<1>3. CASE WakeUp
  BY <1>3 DEF WakeUp
<1>4. CASE Tick
  BY <1>4 DEF Tick
<1>5. CASE MainAnswered
  BY <1>5 DEF MainAnswered
<1>6. CASE PollAnswered
  BY <1>6 DEF PollAnswered
<1>7. CASE MainFails \/ PollFails
  BY <1>7 DEF MainFails, PollFails
<1>8. CASE JobStarts \/ JobEnds
  BY <1>8 DEF JobStarts, JobEnds
<1>9. CASE ServerReplies
  BY <1>9 DEF ServerReplies
<1>10. CASE WaitAgain
  BY <1>10 DEF WaitAgain
<1>11. CASE UNCHANGED vars
  BY <1>11 DEF vars
<1>. QED
  BY <1>1, <1>2, <1>3, <1>4, <1>5, <1>6, <1>7, <1>8, <1>9, <1>10, <1>11
  DEF Next, CallerStep, RequestTimesOut, Terminating

\* Every variable keeps its type.
THEOREM TypeCorrect == Spec => []TypeOK
<1>. QED
  BY TypeInit, TypeNext, PTL DEF Spec

-----------------------------------------------------------------------------
(* The clock *)

\* What each wait adds to the time its request may take.
LEMMA AllowedStep ==
    ASSUME TypeOK, [Next]_vars
    PROVE  /\ Allowed \in Nat
           /\ Allowed <= MaxWaits * StatusTimeout
           /\ waits' = waits => Allowed' = Allowed
           /\ waits' = waits + 1 => Allowed' = Allowed + StatusTimeout
           /\ waits' = 1 => Allowed' = StatusTimeout
           /\ waits' = 0 => Allowed' = 0
<1>1. /\ waits \in Nat /\ MaxWaits \in Nat /\ waits <= MaxWaits
      /\ StatusTimeout \in Nat /\ StatusTimeout' = StatusTimeout
  BY ConfigType, ConfigStays, PollingAssumption DEF TypeOK
<1>2. Allowed = waits * StatusTimeout /\ Allowed' = waits' * StatusTimeout
  BY <1>1 DEF Allowed
<1>. QED
  BY <1>1, <1>2, Times

\* What is left of a wait or a pause ends it before the bound.
ClockInv ==
    /\ started <= now
    /\ pc = "poll" => /\ now + left - started < config.total + Allowed
                      /\ left <= Allowed
    /\ pc = "sleep" =>
          /\ now + left - started < config.total + Allowed + config.interval
          /\ left <= config.interval
    /\ pc = "loop" =>
          \/ now = started
          \/ now - started < config.total + Allowed + config.interval
    /\ outcome # "none" => pc = "done"
    /\ outcome = "timeout" => now - started >= config.total
    /\ outcome \in {"succeeded", "failed", "timeout"} =>
          now - started <= config.total + Allowed + config.interval

\* Before the call no time has passed.
LEMMA ClockInit == Init => ClockInv
BY DEF Init, ClockInv

\* No step carries the clock beyond the deadline by more than it may.
LEMMA ClockNext == TypeOK /\ ClockInv /\ [Next]_vars => ClockInv'
<1>. SUFFICES ASSUME TypeOK, ClockInv, [Next]_vars
              PROVE  ClockInv'
  OBVIOUS
<1>0. /\ config' = config /\ StatusTimeout' = StatusTimeout
      /\ Allowed \in Nat /\ StatusTimeout \in Nat
      /\ waits' = waits => Allowed' = Allowed
      /\ waits' = waits + 1 => Allowed' = Allowed + StatusTimeout
      /\ waits' = 1 => Allowed' = StatusTimeout
      /\ waits' = 0 => Allowed' = 0
  BY ConfigStays, AllowedStep, ConfigType DEF TypeOK
<1>. USE <1>0, ConfigType DEF TypeOK, ClockInv, serverVars, Wait, Finish, Send
<1>1. CASE SendMain
  BY <1>1 DEF SendMain
<1>2. CASE LoopHead
  BY <1>2 DEF LoopHead, InTime
<1>3. CASE WakeUp
  BY <1>3 DEF WakeUp
<1>4. CASE Tick
  BY <1>4 DEF Tick
<1>5. CASE MainAnswered
  BY <1>5 DEF MainAnswered
<1>6. CASE PollAnswered
  BY <1>6 DEF PollAnswered
<1>7. CASE MainFails \/ PollFails
  BY <1>7 DEF MainFails, PollFails
<1>8. CASE JobStarts \/ JobEnds
  BY <1>8 DEF JobStarts, JobEnds
<1>9. CASE ServerReplies
  BY <1>9 DEF ServerReplies
<1>10. CASE WaitAgain
  BY <1>10 DEF WaitAgain
<1>11. CASE UNCHANGED vars
  BY <1>11 DEF vars
<1>. QED
  BY <1>1, <1>2, <1>3, <1>4, <1>5, <1>6, <1>7, <1>8, <1>9, <1>10, <1>11
  DEF Next, CallerStep, RequestTimesOut, Terminating

\* So types and clock bounds hold in every reachable state.
LEMMA ClockInvariant == Spec => [](TypeOK /\ ClockInv)
<1>. QED
  BY TypeInit, TypeNext, ClockInit, ClockNext, PTL DEF Spec

\* poll_async_task is never further beyond its deadline than one pause and the
\* waits of one status request, however many the servers make of them.
THEOREM OverrunIsBounded == Spec => []OverrunBounded
<1>1. TypeOK /\ ClockInv => OverrunBounded
  <2>. SUFFICES ASSUME TypeOK, ClockInv
                PROVE  OverrunBounded
    OBVIOUS
  <2>1. Allowed \in Nat
    BY ConfigType, PollingAssumption, Times DEF TypeOK, Allowed
  <2>. QED
    BY <2>1, ConfigType DEF TypeOK, ClockInv, OverrunBounded
<1>. QED
  BY <1>1, ClockInvariant, PTL

-----------------------------------------------------------------------------
(* The job *)

\* A status that was read is what the job was when it was read: a final one is
\* the job's for good, and after "running" the job ended later than that.
JobInv ==
    /\ endedAt <= now
    /\ pc \in {"loop", "poll", "sleep"} => job # "none"
    /\ pc = "poll" /\ reply \in Ended => reply = job
    /\ pc = "poll" /\ reply = "running" /\ job \in Ended =>
          endedAt + Allowed >= now + left
    /\ pc = "sleep" /\ config.known /\ job \in Ended =>
          endedAt + Allowed + config.interval >= now + left
    /\ pc = "loop" /\ config.known /\ job \in Ended =>
          now = started \/ endedAt + Allowed + config.interval >= now
    /\ TimeoutIsReal
    /\ OutcomeIsTrue

\* At first there is no job and nothing is known of it.
LEMMA JobInit == Init => JobInv
BY DEF Init, JobInv, TimeoutIsReal, OutcomeIsTrue, Ended

\* What the call knows of the job stays true while the job goes on.
LEMMA JobNext == TypeOK /\ ClockInv /\ JobInv /\ [Next]_vars => JobInv'
<1>. SUFFICES ASSUME TypeOK, ClockInv, JobInv, [Next]_vars
              PROVE  JobInv'
  OBVIOUS
<1>0. /\ config' = config /\ StatusTimeout' = StatusTimeout
      /\ Allowed \in Nat /\ StatusTimeout \in Nat
      /\ waits' = waits => Allowed' = Allowed
      /\ waits' = waits + 1 => Allowed' = Allowed + StatusTimeout
      /\ waits' = 1 => Allowed' = StatusTimeout
      /\ waits' = 0 => Allowed' = 0
  BY ConfigStays, AllowedStep, ConfigType DEF TypeOK
<1>. USE <1>0, ConfigType DEF TypeOK, ClockInv, JobInv, TimeoutIsReal, OutcomeIsTrue,
                              Ended, serverVars, Wait, Finish, Send
<1>1. CASE SendMain
  BY <1>1 DEF SendMain
<1>2. CASE LoopHead
  BY <1>2 DEF LoopHead, InTime
<1>3. CASE WakeUp
  BY <1>3 DEF WakeUp
<1>4. CASE Tick
  BY <1>4 DEF Tick
<1>5. CASE MainAnswered
  BY <1>5 DEF MainAnswered
<1>6. CASE PollAnswered
  BY <1>6 DEF PollAnswered
<1>7. CASE MainFails \/ PollFails
  BY <1>7 DEF MainFails, PollFails
<1>8. CASE JobStarts \/ JobEnds
  BY <1>8 DEF JobStarts, JobEnds
<1>9. CASE ServerReplies
  BY <1>9 DEF ServerReplies
<1>10. CASE WaitAgain
  BY <1>10 DEF WaitAgain
<1>11. CASE UNCHANGED vars
  BY <1>11 DEF vars
<1>. QED
  BY <1>1, <1>2, <1>3, <1>4, <1>5, <1>6, <1>7, <1>8, <1>9, <1>10, <1>11
  DEF Next, CallerStep, RequestTimesOut, Terminating

\* So it is true in every reachable state.
LEMMA JobInvariant == Spec => []JobInv
<1>. QED
  BY JobInit, JobNext, ClockInvariant, PTL DEF Spec

\* A TimeoutError is never raised for a job whose final status, one the
\* configuration names, was there before the last status request and a pause,
\* unless the deadline is zero.
THEOREM TimeoutsAreReal == Spec => []TimeoutIsReal
<1>1. JobInv => TimeoutIsReal
  BY DEF JobInv
<1>. QED
  BY <1>1, JobInvariant, PTL

\* A result or a failure execute reports of a polled job is the job's.
THEOREM OutcomesAreTrue == Spec => []OutcomeIsTrue
<1>1. JobInv => OutcomeIsTrue
  BY DEF JobInv
<1>. QED
  BY <1>1, JobInvariant, PTL

-----------------------------------------------------------------------------
(* The steps of a call *)

\* While it polls with pauses, a call has some of its time left.
LEMMA TimeIsLeft ==
    ASSUME TypeOK, ClockInv
    PROVE  /\ LongestLoop \in Nat
           /\ (MaxWaits - waits) * config.main \in Nat
           /\ MaxWaits * config.main \in Nat
           /\ pc \in {"loop", "poll", "sleep"} => LongestLoop - (now - started) \in Nat
           /\ TimeLeft \in Nat /\ StepsLeft \in Nat
<1>0. /\ MaxWaits \in Nat \ {0} /\ MaxWaits - waits \in Nat /\ waits \in Nat
      /\ waits <= MaxWaits /\ config.main \in Nat /\ StatusTimeout \in Nat
      /\ config.total \in Nat /\ config.interval \in Nat
  BY ConfigType, PollingAssumption DEF TypeOK
<1>1. /\ Allowed \in Nat /\ MaxWaits * StatusTimeout \in Nat
      /\ Allowed <= MaxWaits * StatusTimeout
      /\ (MaxWaits - waits) * config.main \in Nat /\ MaxWaits * config.main \in Nat
  BY <1>0, Times DEF Allowed
<1>2. LongestLoop \in Nat
      /\ config.total + Allowed + config.interval <= LongestLoop
  BY <1>0, <1>1 DEF LongestLoop
<1>3. pc \in {"loop", "poll", "sleep"} => LongestLoop - (now - started) \in Nat
  BY <1>0, <1>1, <1>2 DEF TypeOK, ClockInv
<1>4. TimeLeft \in Nat
  <2>1. CASE pc \in {"loop", "poll", "sleep"}
    BY <1>3, <2>1 DEF TimeLeft
  <2>2. CASE pc \in {"start", "main", "done"}
    BY <1>1, <1>2, <2>2 DEF TimeLeft, TypeOK
  <2>. QED
    BY <2>1, <2>2 DEF TypeOK
<1>5. StepsLeft \in Nat
  BY <1>0 DEF StepsLeft, TypeOK
<1>. QED
  BY <1>1, <1>2, <1>3, <1>4, <1>5

\* Every step of a call that pauses between polls takes up some of its time, or
\* is one of the few it may take before time has to pass: the call is finite,
\* whatever the servers answer.
THEOREM CallTakesFinitelyManySteps == Spec => StepsRunOut
<1>. DEFINE Runs ==
        config.interval > 0 =>
          /\ TimeLeft >= 0 /\ StepsLeft >= 0
          /\ \/ TimeLeft' < TimeLeft
             \/ TimeLeft' = TimeLeft /\ StepsLeft' < StepsLeft
             \/ UNCHANGED <<pc, now, left, outcome>>
<1>1. TypeOK /\ ClockInv /\ [Next]_vars => [Runs]_vars
  <2>. SUFFICES ASSUME TypeOK, ClockInv, Next, config.interval > 0
                PROVE  /\ TimeLeft >= 0 /\ StepsLeft >= 0
                       /\ \/ TimeLeft' < TimeLeft
                          \/ TimeLeft' = TimeLeft /\ StepsLeft' < StepsLeft
                          \/ UNCHANGED <<pc, now, left, outcome>>
    OBVIOUS
  <2>1. TimeLeft \in Nat /\ StepsLeft \in Nat
    BY TimeIsLeft
  <2>2. /\ config' = config /\ LongestLoop' = LongestLoop /\ LongestLoop \in Nat
        /\ StatusTimeout' = StatusTimeout /\ StatusTimeout \in Nat
        /\ MaxWaits \in Nat \ {0} /\ waits \in Nat /\ waits <= MaxWaits
        /\ config.main \in Nat
        /\ (MaxWaits - waits) * config.main \in Nat /\ MaxWaits * config.main \in Nat
        /\ pc \in {"loop", "poll", "sleep"} => LongestLoop - (now - started) \in Nat
    BY ConfigStays, ConfigType, TimeIsLeft, PollingAssumption DEF TypeOK, LongestLoop
  <2>3. MaxWaits * config.main = (MaxWaits - 1) * config.main + config.main
    <3>1. MaxWaits - 1 \in Nat /\ (MaxWaits - 1) + 1 = MaxWaits
      BY <2>2
    <3>. QED
      BY <2>2, <3>1, Times
  <2>4. waits < MaxWaits =>
           (MaxWaits - waits) * config.main
              = (MaxWaits - (waits + 1)) * config.main + config.main
    <3>. SUFFICES ASSUME waits < MaxWaits
                  PROVE  (MaxWaits - waits) * config.main
                            = (MaxWaits - (waits + 1)) * config.main + config.main
      OBVIOUS
    <3>1. MaxWaits - (waits + 1) \in Nat
          /\ (MaxWaits - (waits + 1)) + 1 = MaxWaits - waits
      BY <2>2
    <3>. QED
      BY <2>2, <3>1, Times
  <2>. USE DEF TypeOK, Wait, Finish, Send, TimeLeft, StepsLeft
  <2>5. CASE SendMain
    BY <2>1, <2>2, <2>3, <2>5 DEF SendMain
  <2>6. CASE LoopHead
    BY <2>1, <2>2, <2>6 DEF LoopHead
  <2>7. CASE WakeUp
    BY <2>1, <2>2, <2>7 DEF WakeUp
  <2>8. CASE Tick
    BY <2>1, <2>2, <2>8 DEF Tick
  <2>9. CASE MainAnswered
    BY <2>1, <2>2, <2>9 DEF MainAnswered
  <2>10. CASE PollAnswered
    BY <2>1, <2>2, <2>10, ConfigType DEF PollAnswered
  <2>11. CASE MainFails \/ PollFails
    BY <2>1, <2>2, <2>11 DEF MainFails, PollFails
  <2>12. CASE WaitAgain
    BY <2>1, <2>2, <2>4, <2>12 DEF WaitAgain
  <2>13. CASE JobStarts \/ JobEnds \/ ServerReplies \/ Terminating
    BY <2>1, <2>13 DEF JobStarts, JobEnds, ServerReplies, Terminating, vars
  <2>. QED
    BY <2>5, <2>6, <2>7, <2>8, <2>9, <2>10, <2>11, <2>12, <2>13
    DEF Next, CallerStep, RequestTimesOut
<1>. QED
  BY <1>1, ClockInvariant, PTL DEF Spec, StepsRunOut
=============================================================================
