---------------------------- MODULE AsyncPolling ----------------------------
(***************************************************************************)
(* APIOperator.execute (plugins/operators/registry.py): one request starts  *)
(* a job on another server, then status requests poll it until a deadline.  *)
(* Time is counted in whole seconds and passes only while the caller waits. *)
(* requests limits no request, only each of its waits: for a connection to  *)
(* one of the host's addresses, for the next bytes of an answer, and all of *)
(* that again for every redirection, which it follows by default.           *)
(*                                                                          *)
(*   start   before the main request                                        *)
(*   main    the main request is under way                                  *)
(*   loop    at the head of the while loop                                  *)
(*   poll    a status request is under way                                  *)
(*   sleep   between two polls                                              *)
(*   done    returned or raised: outcome says which                         *)
(***************************************************************************)
EXTENDS Integers

CONSTANTS TotalTimeouts,     \* values of spec["timeout"]
          PollIntervals,     \* values of spec["poll_interval"]
          RequestTimeouts,   \* values of both configs' "request_timeout"
          NotGiven,          \* a sync_config without "request_timeout"
          MaxWaits           \* bound: waits of one request

ASSUME PollingAssumption ==
    /\ TotalTimeouts \subseteq Nat
    /\ PollIntervals \subseteq Nat
    /\ RequestTimeouts \subseteq Nat
    /\ MaxWaits \in Nat \ {0}

VARIABLES config,     \* the operator's configuration
          now,        \* the clock
          started,    \* start_time of poll_async_task
          pc,         \* where execute is
          left,       \* how long the wait or sleep may still last
          waits,      \* which wait of its last request it is in
          job,        \* the job on the server
          endedAt,    \* history: when it ended
          reply,      \* the status in the server's answer, once it has one
          outcome     \* how execute ended

serverVars == <<job, endedAt, reply>>
vars == <<config, now, started, pc, left, waits, serverVars, outcome>>

\* known: success_status and failure_status name the server's statuses.
Configs == [total : TotalTimeouts, interval : PollIntervals,
            main : RequestTimeouts, status : RequestTimeouts \cup {NotGiven},
            async : BOOLEAN, known : BOOLEAN]

Init ==
    /\ config \in Configs
    /\ now = 0 /\ started = 0
    /\ pc = "start" /\ left = 0 /\ waits = 0
    /\ job = "none" /\ endedAt = 0 /\ reply = "none"
    /\ outcome = "none"

\* A status request without a timeout of its own has the poll interval's.
StatusTimeout ==
    IF config.status = NotGiven THEN config.interval ELSE config.status

\* A faulty variant: the pause is doubled.
WaitTwice(where, time) ==
    /\ pc' = where
    /\ left' = IF where = "sleep" THEN 2 * time ELSE time
    /\ UNCHANGED outcome

Wait(where, time) == pc' = where /\ left' = time /\ UNCHANGED outcome

Finish(how) == pc' = "done" /\ outcome' = how /\ UNCHANGED left

\* requests refuses a timeout of zero, which the caller turns into an error.
Send(where, timeout) ==
    \/ timeout > 0 /\ Wait(where, timeout) /\ waits' = 1
    \/ timeout = 0 /\ Finish("error") /\ UNCHANGED waits

SendMain ==
    /\ pc = "start"
    /\ Send("main", config.main)
    /\ UNCHANGED <<config, now, started, serverVars>>

\* The next address, the next bytes or a redirection: the time counts anew.
WaitAgain ==
    /\ pc \in {"main", "poll"} /\ waits < MaxWaits
    /\ Wait(pc, IF pc = "main" THEN config.main ELSE StatusTimeout)
    /\ waits' = waits + 1
    /\ UNCHANGED <<config, now, started, serverVars>>

\* The main request reaches the server.
JobStarts ==
    /\ pc = "main" /\ job = "none"
    /\ job' = "running"
    /\ UNCHANGED <<config, now, started, pc, left, waits, endedAt, reply,
                   outcome>>

JobEnds ==
    /\ job = "running"
    /\ job' \in {"succeeded", "failed"}
    /\ endedAt' = now
    /\ UNCHANGED <<config, now, started, pc, left, waits, reply, outcome>>

\* The answer names the job; without polling it is the result.
MainAnswered ==
    /\ pc = "main" /\ job # "none"
    /\ \/ config.async /\ Wait("loop", 0) /\ started' = now /\ waits' = 0
       \/ ~config.async /\ Finish("returned") /\ UNCHANGED <<started, waits>>
    /\ UNCHANGED <<config, now, serverVars>>

\* No answer in time, a broken connection, or an answer extract_task_id or
\* raise_for_status refuses: the job may be running all the same.
MainFails ==
    /\ pc = "main"
    /\ Finish("error")
    /\ UNCHANGED <<config, now, started, waits, serverVars>>

\* A faulty variant: the start time is taken anew on every turn.
InTimeSinceLastTurn == 0 < config.total

InTime == now - started < config.total

LoopHead ==
    /\ pc = "loop"
    /\ \/ InTime /\ Send("poll", StatusTimeout)
       \/ ~InTime /\ Finish("timeout") /\ UNCHANGED waits
    /\ reply' = "none"
    /\ UNCHANGED <<config, now, started, job, endedAt>>

\* The server looks at the job some time before its answer arrives.
ServerReplies ==
    /\ pc = "poll" /\ reply = "none"
    /\ reply' = job
    /\ UNCHANGED <<config, now, started, pc, left, waits, job, endedAt, outcome>>

\* A faulty variant: whatever is no failure is a result.
PollAnsweredOptimist ==
    /\ pc = "poll" /\ reply # "none"
    /\ IF config.known /\ reply = "failed" THEN Finish("failed")
                                           ELSE Finish("succeeded")
    /\ UNCHANGED <<config, now, started, waits, serverVars>>

\* A faulty variant: no pause before the next poll.
PollAnsweredAtOnce ==
    /\ pc = "poll" /\ reply # "none"
    /\ \/ config.known /\ reply = "succeeded" /\ Finish("succeeded")
       \/ config.known /\ reply = "failed" /\ Finish("failed")
       \/ (config.known => reply = "running") /\ Wait("loop", 0)
    /\ UNCHANGED <<config, now, started, waits, serverVars>>

\* What poll_async_task makes of the status; one it does not know is a reason
\* to go on.
PollAnswered ==
    /\ pc = "poll" /\ reply # "none"
    /\ \/ config.known /\ reply = "succeeded" /\ Finish("succeeded")
       \/ config.known /\ reply = "failed" /\ Finish("failed")
       \/ (config.known => reply = "running") /\ Wait("sleep", config.interval)
    /\ UNCHANGED <<config, now, started, waits, serverVars>>

\* execute_sync_request turns every exception, a slow answer included, into a
\* RuntimeError, which the handler of RequestTimeout lets through; so do
\* extract_status and parse_response with an answer they cannot read.
PollFails ==
    /\ pc = "poll"
    /\ Finish("error")
    /\ UNCHANGED <<config, now, started, waits, serverVars>>

WakeUp ==
    /\ pc = "sleep" /\ left = 0
    /\ Wait("loop", 0)
    /\ UNCHANGED <<config, now, started, waits, serverVars>>

\* A faulty variant: waiting goes on past the time that was left.
TickOn ==
    /\ pc \in {"main", "poll", "sleep"}
    /\ now' = now + 1
    /\ left' = left - 1
    /\ UNCHANGED <<config, started, pc, waits, serverVars, outcome>>

Tick ==
    /\ pc \in {"main", "poll", "sleep"} /\ left > 0
    /\ now' = now + 1
    /\ left' = left - 1
    /\ UNCHANGED <<config, started, pc, waits, serverVars, outcome>>

\* A faulty variant: the status request is sent without its timeout.
MainTimesOut == left = 0 /\ MainFails

\* requests raises once a wait has no time left.
RequestTimesOut == left = 0 /\ (MainFails \/ PollFails)

Terminating == pc = "done" /\ UNCHANGED vars

\* What the caller does by itself.
CallerStep ==
    \/ SendMain \/ LoopHead \/ WakeUp \/ Tick
    \/ MainAnswered \/ PollAnswered
    \/ RequestTimesOut

Next ==
    \/ CallerStep \/ WaitAgain \/ MainFails \/ PollFails
    \/ JobStarts \/ JobEnds \/ ServerReplies
    \/ Terminating

Spec == Init /\ [][Next]_vars

\* The caller goes on, and time passes: no number of requests fits into one
\* instant.  Nothing makes the server answer.
FairSpec == Spec /\ WF_vars(CallerStep) /\ SF_vars(Tick)

-----------------------------------------------------------------------------
(* Properties *)

TypeOK ==
    /\ config \in Configs
    /\ now \in Nat /\ started \in Nat /\ left \in Nat /\ endedAt \in Nat
    /\ waits \in 0 .. MaxWaits
    /\ pc \in {"start", "main", "loop", "poll", "sleep", "done"}
    /\ job \in {"none", "running", "succeeded", "failed"}
    /\ reply \in {"none", "running", "succeeded", "failed"}
    /\ outcome \in {"none", "returned", "succeeded", "failed", "timeout", "error"}

\* How long the waits of the last status request may have taken together.
Allowed == waits * StatusTimeout

\* The deadline is looked at only between polls: polling overruns it by at most
\* one pause and the waits of one status request, its timeout each, of which
\* the servers and not the configuration set the number.
OverrunBounded ==
    (\/ pc \in {"loop", "poll", "sleep"}
     \/ outcome \in {"succeeded", "failed", "timeout"}) =>
        now - started <= config.total + Allowed + config.interval

\* A job that ended soon enough before the deadline is not reported as timed
\* out, if its final status is one the configuration names.  A deadline of zero
\* has passed before the first poll.
TimeoutIsReal ==
    outcome = "timeout" /\ config.known /\ config.total > 0
        /\ job \in {"succeeded", "failed"} =>
            endedAt + Allowed + config.interval >= started + config.total

\* What execute reports of the job is what became of it, however late the
\* answer: a result or a failure is never taken from a job that still runs.
OutcomeIsTrue == outcome \in {"succeeded", "failed"} => outcome = job

\* execute runs out of steps, whatever the server answers, if it pauses between
\* polls: every turn of the loop uses up some of the time to the deadline, and
\* no answer, late or early, gives any of it back.  With a poll_interval of zero
\* the code polls as fast as the server answers.
LongestLoop == config.total + MaxWaits * StatusTimeout + config.interval

TimeLeft ==
    CASE pc = "start" -> LongestLoop + MaxWaits * config.main
      [] pc = "main"  -> LongestLoop + left + (MaxWaits - waits) * config.main
      [] pc \in {"loop", "poll", "sleep"} -> LongestLoop - (now - started)
      [] pc = "done"  -> 0

\* The steps it may take before time has to pass.
StepsLeft ==
    CASE pc = "start" -> 2 * MaxWaits + 3
      [] pc = "main"  -> 2 * MaxWaits + 3 - waits
      [] pc = "loop"  -> MaxWaits + 2
      [] pc = "poll"  -> MaxWaits + 2 - waits
      [] pc = "sleep" -> IF left = 0 THEN MaxWaits + 3 ELSE 1
      [] pc = "done"  -> 0

StepsRunOut ==
    [][config.interval > 0 =>
          /\ TimeLeft >= 0 /\ StepsLeft >= 0
          /\ \/ TimeLeft' < TimeLeft
             \/ TimeLeft' = TimeLeft /\ StepsLeft' < StepsLeft
             \/ UNCHANGED <<pc, now, left, outcome>>]_vars

\* execute ends, although nothing makes the server answer or the job end, and
\* although it need not pause: only a request that is kept waiting for ever, a
\* few bytes at a time, would keep it.
CallEnds == <>(pc = "done")
=============================================================================
