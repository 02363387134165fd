------------------------------- MODULE Retry -------------------------------
(***************************************************************************)
(* Establishing a remote connection: retry_with_backoff of src/proxy.rs,   *)
(* the loop behind every `connect_remote_with_retry`.                      *)
(*                                                                         *)
(* Time is a discrete clock, `now`, that starts when the loop starts, so   *)
(* the code's deadline is the instant TotalTimeout.  A timer never fires   *)
(* early; it may fire up to MaxLag ticks late, because tokio promises only *)
(* the former.  What an attempt does in the network is chosen freely: it   *)
(* may succeed, fail for good, fail transiently or never answer.           *)
(***************************************************************************)
EXTENDS Integers

CONSTANTS
    MaxAttempts,      \* RetryPolicy::max_attempts
    InitialBackoff,   \* RetryPolicy::initial_backoff, in ticks
    MaxBackoff,       \* RetryPolicy::max_backoff, in ticks
    TotalTimeout,     \* RetryPolicy::total_timeout, in ticks
    MaxLag            \* how late a timer or a poll may be, in ticks

ASSUME PolicyAssumption ==
    /\ MaxAttempts \in Nat
    /\ InitialBackoff \in Nat
    /\ MaxBackoff \in Nat
    /\ TotalTimeout \in Nat
    /\ MaxLag \in Nat

VARIABLES
    now,        \* ticks since `started`
    pc,         \* "attempting" | "sleeping" | "done"
    attempt,    \* the loop's `attempt`
    backoff,    \* the loop's `backoff`
    sleepFor,   \* `sleep_for` of the sleep under way, or of the last one
    wake,       \* the instant that sleep ends at
    failedAt,   \* history: when the last transient failure was seen
    result      \* what the call returned

vars == <<now, pc, attempt, backoff, sleepFor, wake, failedAt, result>>

Results == {"none", "ok", "permanent", "failed", "gaveUp", "timedOut"}

Least(a, b) == IF a <= b THEN a ELSE b

\* One attempt fewer than the policy's.
AttemptsShort == IF MaxAttempts >= 2 THEN MaxAttempts - 1 ELSE 1

\* `policy.max_attempts.max(1)`.
Attempts == IF MaxAttempts >= 1 THEN MaxAttempts ELSE 1

NextBackoff(current) == Least(2 * current, MaxBackoff)

Init ==
    /\ now = 0
    /\ pc = "attempting"
    /\ attempt = 1
    /\ backoff = InitialBackoff
    /\ sleepFor = 0
    /\ wake = 0
    /\ failedAt = 0
    /\ result = "none"

Return(r) ==
    /\ pc' = "done"
    /\ result' = r
    /\ UNCHANGED <<now, attempt, backoff, sleepFor, wake, failedAt>>

\* Time passes while the loop waits, for an attempt or for its sleep, but not
\* beyond MaxLag after the timer that would end the wait.
Tick ==
    /\ \/ pc = "attempting" /\ now < TotalTimeout + MaxLag
       \/ pc = "sleeping" /\ now < wake + MaxLag
    /\ now' = now + 1
    /\ UNCHANGED <<pc, attempt, backoff, sleepFor, wake, failedAt, result>>

\* timeout_at polls the attempt before its timer: an answer that is there when
\* the loop looks wins even at or after the deadline.
AttemptOk ==
    /\ pc = "attempting"
    /\ Return("ok")

AttemptPermanent ==
    /\ pc = "attempting"
    /\ Return("permanent")

\* The backoff, whatever remains.
SleepForUncut == backoff

\* The duration the code sleeps: the backoff, cut at the deadline.
SleepFor == Least(backoff, TotalTimeout - now)

\* Without the check that time remains.
AttemptTransientAnyTime ==
    /\ pc = "attempting"
    /\ attempt < Attempts
    /\ pc' = "sleeping"
    /\ sleepFor' = SleepFor
    /\ wake' = now + SleepFor
    /\ failedAt' = now
    /\ UNCHANGED <<now, attempt, backoff, result>>

\* A transient failure with attempts left: fail at once when no time remains.
AttemptTransient ==
    /\ pc = "attempting"
    /\ attempt < Attempts
    /\ IF now >= TotalTimeout
          THEN Return("timedOut")
          ELSE /\ pc' = "sleeping"
               /\ sleepFor' = SleepFor
               /\ wake' = now + SleepFor
               /\ failedAt' = now
               /\ UNCHANGED <<now, attempt, backoff, result>>

\* A transient failure of the last attempt.  The context "giving up after" is
\* added only when there was a retry.
AttemptLast ==
    /\ pc = "attempting"
    /\ attempt >= Attempts
    /\ Return(IF attempt > 1 THEN "gaveUp" ELSE "failed")

\* Only the retries run under the deadline.
AttemptTimeoutOnRetry ==
    /\ pc = "attempting"
    /\ attempt > 1
    /\ now >= TotalTimeout
    /\ Return("timedOut")

\* The deadline passes while an attempt has no answer.
AttemptTimeout ==
    /\ pc = "attempting"
    /\ now >= TotalTimeout
    /\ Return("timedOut")

\* A sleep that was cut short retries all the same.
WakeAlwaysRetries ==
    /\ pc = "sleeping"
    /\ now >= wake
    /\ pc' = "attempting"
    /\ backoff' = NextBackoff(backoff)
    /\ attempt' = attempt + 1
    /\ UNCHANGED <<now, sleepFor, wake, failedAt, result>>

\* The sleep is over.  One that the deadline cut short ends the call.
Wake ==
    /\ pc = "sleeping"
    /\ now >= wake
    /\ IF sleepFor < backoff
          THEN Return("timedOut")
          ELSE /\ pc' = "attempting"
               /\ backoff' = NextBackoff(backoff)
               /\ attempt' = attempt + 1
               /\ UNCHANGED <<now, sleepFor, wake, failedAt, result>>

\* The call has returned; nothing more happens.
Done == pc = "done" /\ UNCHANGED vars

Loop ==
    \/ Tick
    \/ AttemptOk
    \/ AttemptPermanent
    \/ AttemptTransient
    \/ AttemptLast
    \/ AttemptTimeout
    \/ Wake

Next == Loop \/ Done

\* The runtime's clock advances and its timers fire; nothing is assumed about
\* the network, so no attempt ever has to answer.
Fairness == WF_vars(Tick) /\ WF_vars(AttemptTimeout) /\ WF_vars(Wake)

Spec == Init /\ [][Next]_vars /\ Fairness
----------------------------------------------------------------------------
TypeOK ==
    /\ now \in Nat
    /\ pc \in {"attempting", "sleeping", "done"}
    /\ attempt \in Nat \ {0}
    /\ backoff \in Nat
    /\ sleepFor \in Nat
    /\ wake \in Nat
    /\ failedAt \in Nat
    /\ result \in Results

\* The backoff the policy documents before retry number n (n >= 1): the initial
\* one doubled n-1 times, and capped from the second on.
DocumentedBackoff(n) ==
    IF n = 1 THEN InitialBackoff
             ELSE Least(InitialBackoff * 2 ^ (n - 1), MaxBackoff)

\* The total deadline covers the attempts and the sleeps between them
\* (proxy.rs:114): the call never runs past it by more than the lateness of the
\* one timer that ends it, however attempts and sleeps fall.
DeadlineHonoured == now <= TotalTimeout + MaxLag

\* No retry is early: an attempt after the first starts no sooner than the whole
\* documented backoff after the failure that caused it, so a sleep cut short by
\* the deadline is never followed by an attempt.
BackoffRespected ==
    pc = "attempting" /\ attempt > 1 =>
        now >= failedAt + DocumentedBackoff(attempt - 1)

\* The three ways to give up mean what their messages say: "timed out" only once
\* the deadline has passed, "giving up after n attempts" only when n attempts
\* are all the policy allows.
VerdictJustified ==
    /\ result = "timedOut" => now >= TotalTimeout
    /\ result = "gaveUp" => attempt = MaxAttempts /\ MaxAttempts > 1
    /\ result = "failed" => Attempts = 1

\* No more attempts than the policy allows are ever started.
AttemptsBounded == attempt <= Attempts
============================================================================
