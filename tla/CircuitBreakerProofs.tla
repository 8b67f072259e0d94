------------------------ MODULE CircuitBreakerProofs ------------------------
(***************************************************************************)
(* Theorems about CircuitBreaker, for any set of callers, any delay and    *)
(* any number of repetitions.  TypeOK and BreakerInv are inductive         *)
(* together: that attempts stay in their range needs that a caller which   *)
(* is let through has none, and the bound on late requests needs the       *)
(* ranges.                                                                 *)
(***************************************************************************)
EXTENDS CircuitBreaker, TLAPS

IInv == TypeOK /\ BreakerInv

USE DEF breaker, history

-----------------------------------------------------------------------------
(* The steps.                                                              *)

LEMMA InitInv == Init => IInv
<1> SUFFICES ASSUME Init PROVE IInv
  OBVIOUS
<1>1. TypeOK
  <2>1. remaining \in -1..CircuitBreakerDelay /\ quiet \in 0..CircuitBreakerDelay
    BY BreakerAssumption DEF BreakerAssumption, Init
  <2>2. attempts \in [Caller -> 0..(RetryCount + 1)] /\ lateSends \in [Caller -> Nat]
    BY BreakerAssumption DEF BreakerAssumption, Init
  <2> QED
    BY <2>1, <2>2 DEF Init, TypeOK
<1>2. LateInv /\ LateSendsBounded
  BY BreakerAssumption DEF BreakerAssumption, Init, LateInv, LateSendsBounded
<1> QED
  BY <1>1, <1>2 DEF Init, IInv, BreakerInv, BreakerStaysOpen, AnnouncedOnce

\* Whoever is let through finds no pause, so it has sent nothing in one.
LEMMA CheckOpenInv == ASSUME IInv, NEW c \in Caller, CheckOpen(c) PROVE IInv'
<1>1. quiet > 0 => remaining > 0
  BY DEF IInv, TypeOK, BreakerInv, BreakerStaysOpen
<1>2. remaining <= 0 => lateSends[c] = 0
  BY <1>1 DEF IInv, TypeOK, BreakerInv, LateInv
<1>3. TypeOK'
  BY DEF CheckOpen, IInv, TypeOK
<1>4. LateInv'
  BY <1>2 DEF CheckOpen, IInv, TypeOK, BreakerInv, LateInv
<1>5. BreakerInv'
  BY <1>4 DEF CheckOpen, IInv, TypeOK, BreakerInv, BreakerStaysOpen, AnnouncedOnce, LateSendsBounded
<1> QED
  BY <1>3, <1>5 DEF IInv

\* A reset happens only after the pause, and only once.
LEMMA ResetInv == ASSUME IInv, NEW c \in Caller, ResetIfExpired(c) PROVE IInv'
<1>1. triggered /\ expired[c] => remaining = -1 /\ announced = 0 /\ ~(quiet > 0)
  BY BreakerAssumption DEF BreakerAssumption, IInv, TypeOK, BreakerInv, BreakerStaysOpen
<1>2. TypeOK'
  <2>1. pc' \in [Caller -> {"idle", "refused", "resetting", "taking", "inFlight", "quota"}]
    BY DEF ResetIfExpired, IInv, TypeOK
  <2>2. triggered' \in BOOLEAN
    BY Zenon DEF ResetIfExpired, IInv, TypeOK
  <2>3. announced' = announced \/ announced' = announced + 1
    BY Zenon DEF ResetIfExpired
  <2>4. announced' \in Nat
    BY <2>3 DEF IInv, TypeOK
  <2> QED
    BY <2>1, <2>2, <2>4 DEF ResetIfExpired, IInv, TypeOK
<1>3. LateInv'
  BY DEF ResetIfExpired, IInv, TypeOK, BreakerInv, LateInv
<1>4. BreakerInv'
  <2>1. CASE triggered /\ expired[c]
    BY <1>1, <1>3, <2>1
       DEF ResetIfExpired, IInv, TypeOK, BreakerInv, BreakerStaysOpen, AnnouncedOnce, LateSendsBounded
  <2>2. CASE ~(triggered /\ expired[c])
    BY <1>3, <2>2
       DEF ResetIfExpired, IInv, TypeOK, BreakerInv, BreakerStaysOpen, AnnouncedOnce, LateSendsBounded
  <2> QED
    BY <2>1, <2>2
<1> QED
  BY <1>2, <1>4 DEF IInv

LEMMA ReturnRefusedInv == ASSUME IInv, NEW c \in Caller, ReturnRefused(c) PROVE IInv'
<1>1. TypeOK'
  BY DEF ReturnRefused, IInv, TypeOK
<1>2. LateInv'
  BY DEF ReturnRefused, IInv, TypeOK, BreakerInv, LateInv
<1> QED
  BY <1>1, <1>2
     DEF ReturnRefused, IInv, BreakerInv, BreakerStaysOpen, AnnouncedOnce, LateSendsBounded

\* A request that is counted in the pause is counted among the attempts.
LEMMA CountSendInv ==
  ASSUME IInv, NEW c \in Caller, CountSend(c), attempts[c] <= RetryCount,
         lateSends[c] <= attempts[c]
  PROVE  /\ attempts' \in [Caller -> 0..(RetryCount + 1)]
         /\ lateSends' \in [Caller -> Nat]
         /\ attempts'[c] = attempts[c] + 1
         /\ lateSends'[c] <= attempts'[c]
         /\ \A d \in Caller \ {c} : attempts'[d] = attempts[d] /\ lateSends'[d] = lateSends[d]
         /\ quiet = 0 => lateSends' = lateSends
         /\ LateSendsBounded'
<1>1. /\ attempts' \in [Caller -> 0..(RetryCount + 1)]
      /\ lateSends' \in [Caller -> Nat]
  BY BreakerAssumption DEF BreakerAssumption, CountSend, IInv, TypeOK
<1>2. /\ attempts'[c] = attempts[c] + 1
      /\ lateSends'[c] <= attempts'[c]
      /\ \A d \in Caller \ {c} : attempts'[d] = attempts[d] /\ lateSends'[d] = lateSends[d]
  BY BreakerAssumption DEF BreakerAssumption, CountSend, IInv, TypeOK
<1>3. quiet = 0 => lateSends' = lateSends
  BY DEF CountSend, IInv, TypeOK
<1>4. LateSendsBounded'
  BY <1>1, <1>2, BreakerAssumption
     DEF BreakerAssumption, IInv, TypeOK, BreakerInv, LateSendsBounded
<1> QED
  BY <1>1, <1>2, <1>3, <1>4

LEMMA SendRequestInv == ASSUME IInv, NEW c \in Caller, SendRequest(c) PROVE IInv'
<1>1. CountSend(c) /\ attempts[c] = 0 /\ lateSends[c] = 0
  BY DEF SendRequest, IInv, BreakerInv, LateInv
<1>2. attempts[c] <= RetryCount /\ lateSends[c] <= attempts[c]
  BY <1>1, BreakerAssumption DEF BreakerAssumption
<1>3. TypeOK'
  BY <1>1, <1>2, CountSendInv DEF SendRequest, IInv, TypeOK
<1>4. LateInv'
  BY <1>1, <1>2, CountSendInv DEF SendRequest, IInv, TypeOK, BreakerInv, LateInv
<1>5. LateSendsBounded'
  BY <1>1, <1>2, CountSendInv
<1> QED
  BY <1>3, <1>4, <1>5
     DEF SendRequest, IInv, BreakerInv, BreakerStaysOpen, AnnouncedOnce

LEMMA ResendRequestInv == ASSUME IInv, NEW c \in Caller, ResendRequest(c) PROVE IInv'
<1>1. CountSend(c) /\ attempts[c] <= RetryCount /\ lateSends[c] <= attempts[c]
  BY DEF ResendRequest, IInv, BreakerInv, LateInv
<1>2. TypeOK'
  BY <1>1, CountSendInv DEF ResendRequest, IInv, TypeOK
<1>3. LateInv'
  BY <1>1, CountSendInv DEF ResendRequest, IInv, TypeOK, BreakerInv, LateInv
<1>4. LateSendsBounded'
  BY <1>1, CountSendInv
<1> QED
  BY <1>2, <1>3, <1>4
     DEF ResendRequest, IInv, BreakerInv, BreakerStaysOpen, AnnouncedOnce

LEMMA ReceiveAnswerInv == ASSUME IInv, NEW c \in Caller, ReceiveAnswer(c) PROVE IInv'
<1>1. TypeOK'
  BY BreakerAssumption DEF BreakerAssumption, ReceiveAnswer, IInv, TypeOK
<1>2. LateInv'
  BY DEF ReceiveAnswer, IInv, TypeOK, BreakerInv, LateInv
<1> QED
  BY <1>1, <1>2
     DEF ReceiveAnswer, IInv, BreakerInv, BreakerStaysOpen, AnnouncedOnce, LateSendsBounded

\* Late requests of a pause that is prolonged are kept, and its callers with them.
LEMMA TriggerInv == ASSUME IInv, NEW c \in Caller, TriggerCircuitBreaker(c) PROVE IInv'
<1>1. TypeOK'
  BY BreakerAssumption DEF BreakerAssumption, TriggerCircuitBreaker, IInv, TypeOK
<1>2. LateInv'
  BY BreakerAssumption
     DEF BreakerAssumption, TriggerCircuitBreaker, IInv, TypeOK, BreakerInv, LateInv
<1> QED
  BY <1>1, <1>2
     DEF TriggerCircuitBreaker, IInv, BreakerInv, BreakerStaysOpen, AnnouncedOnce, LateSendsBounded

LEMMA TickInv == ASSUME IInv, Tick PROVE IInv'
<1>1. TypeOK'
  BY BreakerAssumption DEF BreakerAssumption, Tick, IInv, TypeOK
<1>2. LateInv' /\ LateSendsBounded'
  BY BreakerAssumption
     DEF BreakerAssumption, Tick, IInv, TypeOK, BreakerInv, LateInv, LateSendsBounded
<1>3. BreakerStaysOpen'
  BY DEF Tick, IInv, TypeOK, BreakerInv, BreakerStaysOpen
<1> QED
  BY <1>1, <1>2, <1>3 DEF Tick, IInv, TypeOK, BreakerInv, AnnouncedOnce

LEMMA NextInv == ASSUME IInv, [Next]_vars PROVE IInv'
<1>1. CASE Tick
  BY <1>1, TickInv
<1>2. ASSUME NEW c \in Caller, CheckOpen(c) PROVE IInv'
  BY <1>2, CheckOpenInv
<1>3. ASSUME NEW c \in Caller, FetchStep(c) PROVE IInv'
  BY <1>3, ResetInv, ReturnRefusedInv, SendRequestInv, ResendRequestInv, ReceiveAnswerInv, TriggerInv
     DEF FetchStep
<1>4. CASE UNCHANGED vars
  BY <1>4
     DEF vars, IInv, TypeOK, BreakerInv, BreakerStaysOpen, AnnouncedOnce, LateInv, LateSendsBounded
<1> QED
  BY <1>1, <1>2, <1>3, <1>4 DEF Next

-----------------------------------------------------------------------------
(* The theorems.                                                           *)

\* The inductive invariant of the breaker, with its types.
THEOREM BreakerInvariant == Spec => []IInv
<1>1. Init => IInv
  BY InitInv
<1>2. IInv /\ [Next]_vars => IInv'
  BY NextInv
<1> QED
  BY <1>1, <1>2, PTL DEF Spec

\* The state of the breaker and of its callers has its types.
THEOREM TypeCorrect == Spec => []TypeOK
<1>1. IInv => TypeOK
  BY DEF IInv
<1> QED
  BY <1>1, BreakerInvariant, PTL

\* No caller, whatever it has read and whenever, cuts short the pause the site asked
\* for: the breaker is open until that pause is over.
THEOREM PauseIsKept == Spec => []BreakerStaysOpen
<1>1. IInv => BreakerStaysOpen
  BY DEF IInv, BreakerInv
<1> QED
  BY <1>1, BreakerInvariant, PTL

\* However often the pause is prolonged, a caller sends at most the one request with
\* its repetitions in it that it was let through with before.
THEOREM LateRequestsBounded == Spec => []LateSendsBounded
<1>1. IInv => LateSendsBounded
  BY DEF IInv, BreakerInv
<1> QED
  BY <1>1, BreakerInvariant, PTL

\* The end of a pause is announced at most once, however many callers notice it.
THEOREM AnnouncedAtMostOnce == Spec => []AnnouncedOnce
<1>1. IInv => AnnouncedOnce
  BY DEF IInv, BreakerInv
<1> QED
  BY <1>1, BreakerInvariant, PTL

-----------------------------------------------------------------------------
(* What FetchReturns and BreakerCloses rest on besides fairness.           *)

\* The steps a call of fetchHTML has left, at most.
StepsLeft(c) ==
  IF pc[c] = "resetting" THEN RetryCount + 4
  ELSE IF pc[c] = "taking" THEN RetryCount + 3
  ELSE IF pc[c] = "inFlight" THEN RetryCount + 3 - attempts[c]
  ELSE IF pc[c] \in {"refused", "quota"} THEN 1
  ELSE 0

\* Each step of a call uses up at least one of them, and no step of another caller, or of
\* the clock, gives it any.
CallsWindDown ==
  \A c \in Caller : /\ FetchStep(c) => StepsLeft(c)' < StepsLeft(c)
                    /\ pc[c] # "idle" => StepsLeft(c)' <= StepsLeft(c)

\* The callers past the check, who alone can open the breaker.
LetThrough == {c \in Caller : pc[c] \in {"resetting", "taking", "inFlight", "quota"}}

\* While the breaker is open nobody joins them, and who opens it again is one of them no more.
LateCallersRunOut ==
  remaining > 0 => /\ LetThrough' \subseteq LetThrough
                   /\ \A c \in Caller : TriggerCircuitBreaker(c) => c \in LetThrough \ LetThrough'

LEMMA OwnStep ==
  ASSUME IInv, NEW c \in Caller, CheckOpen(c) \/ FetchStep(c)
  PROVE  /\ \A d \in Caller \ {c} : pc'[d] = pc[d] /\ attempts'[d] = attempts[d]
         /\ FetchStep(c) => StepsLeft(c)' < StepsLeft(c)
         /\ CheckOpen(c) => pc[c] = "idle"
<1> USE BreakerAssumption DEF BreakerAssumption, IInv, TypeOK, StepsLeft
<1>1. CASE CheckOpen(c)
  BY <1>1 DEF CheckOpen, FetchStep, ResetIfExpired, ReturnRefused, SendRequest,
              ResendRequest, ReceiveAnswer, TriggerCircuitBreaker
<1>2. CASE ResetIfExpired(c)
  BY <1>2 DEF CheckOpen, ResetIfExpired
<1>3. CASE ReturnRefused(c)
  BY <1>3 DEF CheckOpen, ReturnRefused
<1>4. CASE SendRequest(c)
  <2>1. attempts[c] = 0
    BY <1>4 DEF SendRequest, BreakerInv, LateInv
  <2> QED
    BY <1>4, <2>1 DEF CheckOpen, SendRequest, CountSend
<1>5. CASE ResendRequest(c)
  BY <1>5 DEF CheckOpen, ResendRequest, CountSend
<1>6. CASE ReceiveAnswer(c)
  BY <1>6 DEF CheckOpen, ReceiveAnswer
<1>7. CASE TriggerCircuitBreaker(c)
  BY <1>7 DEF CheckOpen, TriggerCircuitBreaker
<1> QED
  BY <1>1, <1>2, <1>3, <1>4, <1>5, <1>6, <1>7 DEF FetchStep

LEMMA CallsWindDownStep == ASSUME IInv, [Next]_vars PROVE [CallsWindDown]_vars
<1> SUFFICES ASSUME Next PROVE CallsWindDown
  BY DEF vars
<1>1. \A c \in Caller : StepsLeft(c) \in Nat
  BY BreakerAssumption DEF BreakerAssumption, IInv, TypeOK, StepsLeft
<1>2. CASE Tick
  <2>1. UNCHANGED <<pc, attempts>>
    BY <1>2 DEF Tick
  <2>2. \A c \in Caller : ~FetchStep(c) /\ StepsLeft(c)' = StepsLeft(c)
    BY <1>2, <2>1, BreakerAssumption
       DEF BreakerAssumption, IInv, TypeOK, Tick, StepsLeft, FetchStep, ResetIfExpired,
           ReturnRefused, SendRequest, ResendRequest, CountSend, ReceiveAnswer, TriggerCircuitBreaker
  <2> QED
    BY <1>1, <2>2 DEF CallsWindDown
<1>3. ASSUME NEW c \in Caller, CheckOpen(c) \/ FetchStep(c)
      PROVE  CallsWindDown
  <2>1. \A d \in Caller \ {c} : StepsLeft(d)' = StepsLeft(d)
    BY <1>3, OwnStep DEF StepsLeft
  <2>2. \A d \in Caller \ {c} : ~FetchStep(d)
    <3>1. ASSUME NEW d \in Caller \ {c}, FetchStep(d) PROVE FALSE
      <4>1. StepsLeft(d)' < StepsLeft(d)
        BY <3>1, OwnStep
      <4> QED
        BY <1>1, <2>1, <4>1
    <3> QED
      BY <3>1
  <2>3. /\ FetchStep(c) => StepsLeft(c)' < StepsLeft(c)
        /\ pc[c] # "idle" => StepsLeft(c)' < StepsLeft(c)
    BY <1>3, OwnStep
  <2>4. StepsLeft(c)' < StepsLeft(c) => StepsLeft(c)' <= StepsLeft(c)
    <3>1. StepsLeft(c)' \in Int
      BY BreakerAssumption, NextInv DEF BreakerAssumption, IInv, TypeOK, StepsLeft
    <3> QED
      BY <1>1, <3>1
  <2>5. ASSUME NEW d \in Caller
        PROVE  /\ FetchStep(d) => StepsLeft(d)' < StepsLeft(d)
               /\ pc[d] # "idle" => StepsLeft(d)' <= StepsLeft(d)
    <3>1. CASE d = c
      BY <2>3, <2>4, <3>1
    <3>2. CASE d # c
      BY <1>1, <2>1, <2>2, <3>2
    <3> QED
      BY <3>1, <3>2
  <2> QED
    BY <2>5 DEF CallsWindDown
<1> QED
  BY <1>2, <1>3 DEF Next

\* A call of fetchHTML returns after at most RetryCount + 4 steps of its own once the
\* breaker was checked (bricklink.go:410 to 453), whatever the other callers do.
THEOREM CallsReturn == Spec => [][CallsWindDown]_vars
BY BreakerInvariant, CallsWindDownStep, PTL DEF Spec

LEMMA RunOutStep == ASSUME IInv, [Next]_vars PROVE [LateCallersRunOut]_vars
<1> SUFFICES ASSUME Next, remaining > 0
             PROVE  /\ LetThrough' \subseteq LetThrough
                    /\ \A c \in Caller : TriggerCircuitBreaker(c) => c \in LetThrough \ LetThrough'
  BY DEF LateCallersRunOut, vars
<1>1. \A c \in Caller : TriggerCircuitBreaker(c) => c \in LetThrough \ LetThrough'
  BY DEF TriggerCircuitBreaker, LetThrough, IInv, TypeOK
<1>2. CASE Tick
  BY <1>1, <1>2 DEF Tick, LetThrough
<1>3. ASSUME NEW c \in Caller, CheckOpen(c)
      PROVE  LetThrough' \subseteq LetThrough
  BY <1>3 DEF CheckOpen, LetThrough, IInv, TypeOK
<1>4. ASSUME NEW c \in Caller, FetchStep(c)
      PROVE  LetThrough' \subseteq LetThrough
  BY <1>4 DEF FetchStep, ResetIfExpired, ReturnRefused, SendRequest, ResendRequest, ReceiveAnswer,
              TriggerCircuitBreaker, LetThrough, IInv, TypeOK
<1> QED
  BY <1>1, <1>2, <1>3, <1>4 DEF Next

\* A pause cannot be prolonged for ever: only the callers that were let through before it
\* can open the breaker again, each of them once (bricklink.go:268 to 275).
THEOREM PausesRunOut == Spec => [][LateCallersRunOut]_vars
BY BreakerInvariant, RunOutStep, PTL DEF Spec

=============================================================================
