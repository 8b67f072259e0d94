--------------------------- MODULE CircuitBreaker ---------------------------
(***************************************************************************)
(* The circuit breaker of brickLinkClient.  Every page and every item is   *)
(* fetched by fetchHTML, from many goroutines at once: it refuses at once  *)
(* while the breaker is open, waits for the rate limiter otherwise, sends  *)
(* the request, which the HTTP client may repeat on its own, and opens the *)
(* breaker for circuitBreakerDelay when the answer says "Quota Exceeded".  *)
(*                                                                         *)
(* Only the distance of quotaExceededUntil from the clock matters, so that *)
(* is the state: time passes by making it smaller.  A critical section of  *)
(* circuitBreakerMutex is one step.                                        *)
(***************************************************************************)
EXTENDS Integers

CONSTANTS
  Caller,               \* goroutines that call fetchHTML
  CircuitBreakerDelay,  \* in ticks of the clock
  RetryCount            \* SetRetryCount of the HTTP client

ASSUME BreakerAssumption ==
  /\ CircuitBreakerDelay \in Nat \ {0}
  /\ RetryCount \in Nat

VARIABLES
  triggered,  \* quotaExceededUntil is not the zero time
  remaining,  \* quotaExceededUntil - now; -1 when that is in the past
  pc,         \* where a caller is in fetchHTML
  expired,    \* the clock a caller has read is past quotaExceededUntil
  attempts,   \* how often a caller has sent its request
  \* History.
  quiet,      \* time left of the pause the last "Quota Exceeded" asked for
  lateSends,  \* requests a caller has sent in the current pause
  announced   \* "automatically re-enabled" logged since the breaker was opened

breaker == <<triggered, remaining>>
history == <<quiet, lateSends, announced>>
vars == <<breaker, pc, expired, attempts, history>>

-----------------------------------------------------------------------------
(* The specification.                                                      *)

Init ==
  /\ triggered = FALSE
  /\ remaining = -1
  /\ pc = [c \in Caller |-> "idle"]
  /\ expired = [c \in Caller |-> FALSE]
  /\ attempts = [c \in Caller |-> 0]
  /\ quiet = 0
  /\ lateSends = [c \in Caller |-> 0]
  /\ announced = 0

\* Plausible bug: the comparison of the clock with quotaExceededUntil is swapped.
CheckOpenSwapped(c) ==
  /\ pc[c] = "idle"
  /\ pc' = [pc EXCEPT ![c] = IF triggered /\ remaining < 0 THEN "refused" ELSE "taking"]
  /\ expired' = [expired EXCEPT ![c] = remaining < 0]
  /\ UNCHANGED <<breaker, attempts, history>>

\* The first part of isCircuitBreakerOpen, under the read lock.  The clock is read
\* here, once.
CheckOpen(c) ==
  /\ pc[c] = "idle"
  /\ pc' = [pc EXCEPT ![c] = IF remaining > 0 THEN "refused"
                             ELSE IF triggered THEN "resetting" ELSE "taking"]
  /\ expired' = [expired EXCEPT ![c] = remaining < 0]
  /\ UNCHANGED <<breaker, attempts, history>>

\* Plausible bug: nothing is checked again under the write lock.
ResetUnchecked(c) ==
  /\ pc[c] = "resetting"
  /\ triggered' = FALSE
  /\ remaining' = -1
  /\ announced' = announced + 1
  /\ pc' = [pc EXCEPT ![c] = "taking"]
  /\ UNCHANGED <<expired, attempts, quiet, lateSends>>

\* Plausible bug: only the clock is checked again; it is past the zero time, too.
ResetUnlessOpen(c) ==
  /\ pc[c] = "resetting"
  /\ IF expired[c]
     THEN /\ triggered' = FALSE
          /\ announced' = announced + 1
     ELSE UNCHANGED <<triggered, announced>>
  /\ pc' = [pc EXCEPT ![c] = "taking"]
  /\ UNCHANGED <<remaining, expired, attempts, quiet, lateSends>>

\* Plausible bug: the caller waits for the reset that it came for.
ResetOrWait(c) ==
  /\ pc[c] = "resetting"
  /\ triggered /\ expired[c]
  /\ triggered' = FALSE
  /\ announced' = announced + 1
  /\ pc' = [pc EXCEPT ![c] = "taking"]
  /\ UNCHANGED <<remaining, expired, attempts, quiet, lateSends>>

\* The second part, under the write lock: the breaker may have been opened again,
\* or been reset by another caller, since the read lock was released.  The clock is
\* still the one read then; the zero time has passed, too.
ResetIfExpired(c) ==
  /\ pc[c] = "resetting"
  /\ IF triggered /\ expired[c]
     THEN /\ triggered' = FALSE
          /\ announced' = announced + 1
     ELSE UNCHANGED <<triggered, announced>>
  /\ pc' = [pc EXCEPT ![c] = "taking"]
  /\ UNCHANGED <<remaining, expired, attempts, quiet, lateSends>>

\* Plausible bug: the error of a refused request is taken for "Quota Exceeded".
RefuseAndTrigger(c) ==
  /\ pc[c] = "refused"
  /\ pc' = [pc EXCEPT ![c] = "quota"]
  /\ UNCHANGED <<breaker, expired, attempts, history>>

\* fetchHTML of a refused request returns an error.
ReturnRefused(c) ==
  /\ pc[c] = "refused"
  /\ pc' = [pc EXCEPT ![c] = "idle"]
  /\ UNCHANGED <<breaker, expired, attempts, history>>

CountSend(c) ==
  /\ attempts' = [attempts EXCEPT ![c] = @ + 1]
  /\ lateSends' = IF quiet > 0 THEN [lateSends EXCEPT ![c] = @ + 1] ELSE lateSends

\* The rate limiter lets the request go.
SendRequest(c) ==
  /\ pc[c] = "taking"
  /\ pc' = [pc EXCEPT ![c] = "inFlight"]
  /\ CountSend(c)
  /\ UNCHANGED <<breaker, expired, quiet, announced>>

\* The HTTP client sends it again; it does not ask the breaker.
ResendRequest(c) ==
  /\ pc[c] = "inFlight"
  /\ attempts[c] <= RetryCount
  /\ CountSend(c)
  /\ UNCHANGED <<breaker, pc, expired, quiet, announced>>

\* The request ends: with a page, an error, or the site's "Quota Exceeded".
ReceiveAnswer(c) ==
  /\ pc[c] = "inFlight"
  /\ attempts' = [attempts EXCEPT ![c] = 0]
  /\ pc' = [pc EXCEPT ![c] = "idle"] \/ pc' = [pc EXCEPT ![c] = "quota"]
  /\ UNCHANGED <<breaker, expired, history>>

\* The new quotaExceededUntil is ahead of every clock that was read before.
TriggerCircuitBreaker(c) ==
  /\ pc[c] = "quota"
  /\ triggered' = TRUE
  /\ remaining' = CircuitBreakerDelay
  /\ quiet' = CircuitBreakerDelay
  /\ expired' = [d \in Caller |-> FALSE]
  /\ announced' = 0
  /\ pc' = [pc EXCEPT ![c] = "idle"]
  /\ UNCHANGED <<attempts, lateSends>>

\* Time passes.  With the end of the pause its late requests are forgotten.
Tick ==
  /\ remaining >= 0
  /\ remaining' = remaining - 1
  /\ quiet' = IF quiet = 0 THEN 0 ELSE quiet - 1
  /\ lateSends' = IF quiet' = 0 THEN [c \in Caller |-> 0] ELSE lateSends
  /\ UNCHANGED <<triggered, pc, expired, attempts, announced>>

FetchStep(c) ==
  \/ ResetIfExpired(c) \/ ReturnRefused(c) \/ SendRequest(c) \/ ResendRequest(c)
  \/ ReceiveAnswer(c) \/ TriggerCircuitBreaker(c)

Next == Tick \/ \E c \in Caller : CheckOpen(c) \/ FetchStep(c)

Spec == Init /\ [][Next]_vars

\* Time passes, and a call of fetchHTML that has begun goes on (the rate limiter
\* and the timeouts of the request let it).  Nobody has to call it.
Fairness == WF_vars(Tick) /\ \A c \in Caller : WF_vars(FetchStep(c))

FairSpec == Spec /\ Fairness

-----------------------------------------------------------------------------
(* Properties.                                                             *)

TypeOK ==
  /\ triggered \in BOOLEAN
  /\ remaining \in -1..CircuitBreakerDelay
  /\ pc \in [Caller -> {"idle", "refused", "resetting", "taking", "inFlight", "quota"}]
  /\ expired \in [Caller -> BOOLEAN]
  /\ attempts \in [Caller -> 0..(RetryCount + 1)]
  /\ quiet \in 0..CircuitBreakerDelay
  /\ lateSends \in [Caller -> Nat]
  /\ announced \in Nat

\* While the site has asked for a pause the breaker is open: nobody resets it early,
\* with what it knew of the clock or of the breaker before it got the write lock.
BreakerStaysOpen == quiet > 0 => triggered /\ remaining = quiet

\* In a pause a caller sends at most the one request, with its repetitions, that it
\* was let through with before the pause began.
LateSendsBounded == \A c \in Caller : lateSends[c] <= RetryCount + 1

\* "Reset to avoid repeated logging": one announcement for one opening.
AnnouncedOnce == announced <= 1

\* The breaker does not stay open for ever: late requests may open it again, but
\* they run out.
BreakerCloses == remaining > 0 ~> remaining <= 0

\* A call of fetchHTML returns.
FetchReturns == \A c \in Caller : pc[c] # "idle" ~> pc[c] = "idle"

-----------------------------------------------------------------------------
(* The inductive invariant behind LateSendsBounded.                        *)

\* A caller on its way to the request has sent nothing in this pause; one whose
\* request is out has sent no more than its attempts.
LateInv ==
  \A c \in Caller :
    /\ pc[c] \in {"resetting", "taking"} => lateSends[c] = 0
    /\ pc[c] = "inFlight" => lateSends[c] <= attempts[c]
    /\ pc[c] # "inFlight" => attempts[c] = 0
    /\ quiet = 0 => lateSends[c] = 0

BreakerInv ==
  /\ ~triggered => remaining = -1
  /\ triggered => announced = 0
  /\ \A c \in Caller : triggered /\ expired[c] => remaining < 0
  /\ BreakerStaysOpen
  /\ AnnouncedOnce
  /\ LateInv
  /\ LateSendsBounded

=============================================================================
