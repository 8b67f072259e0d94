---------------------------- MODULE ProxySupplier ----------------------------
(***************************************************************************)
(* The pool of proxies.  NewProxySupplier tests every proxy of its list in *)
(* a goroutine of its own, of which a semaphore lets only some be testing  *)
(* at a time.  The proxies that work are sent to a buffered channel, which *)
(* the constructor closes and empties when the last goroutine is done.     *)
(* Get then hands them out in turn, to any number of goroutines.           *)
(*                                                                         *)
(* A proxy is its place in the list, which may name one more than once.    *)
(* A test is the environment's choice; it ends within the timeout.         *)
(***************************************************************************)
EXTENDS Integers, Sequences, FiniteSets, Functions

CONSTANTS
  Count,    \* len(proxies) of NewProxySupplier
  Slots,    \* capacity of the semaphore
  MaxGets   \* bound: calls of Get

ASSUME SupplierAssumption ==
  /\ Count \in Nat
  /\ Slots \in Nat \ {0}
  /\ MaxGets \in Nat

VARIABLES
  pc,         \* where the goroutine of a proxy is
  semaphore,  \* slots taken
  channel,    \* validProxiesCh
  main,       \* where the constructor is; Get is called when it has returned
  proxies,    \* the working proxies
  current,    \* index of the next one, from zero
  \* History.
  works,      \* proxies whose test succeeded
  given       \* how often the proxy at an index of the list was handed out

testing == <<pc, semaphore, channel, works>>
supply == <<proxies, current, given>>
vars == <<testing, main, supply>>

Listed == 1..Count

-----------------------------------------------------------------------------
(* NewProxySupplier.                                                       *)

\* With an empty list there is nothing to test and no channel.
Init ==
  /\ pc = [p \in Listed |-> "waiting"]
  /\ semaphore = 0
  /\ channel = << >>
  /\ main = IF Count = 0 THEN "serving" ELSE "testing"
  /\ proxies = << >>
  /\ current = 0
  /\ works = {}
  /\ given = << >>

Acquire(p) ==
  /\ pc[p] = "waiting"
  /\ semaphore < Slots
  /\ semaphore' = semaphore + 1
  /\ pc' = [pc EXCEPT ![p] = "testing"]
  /\ UNCHANGED <<channel, works, main, supply>>

\* isProxyValid.
Test(p) ==
  /\ pc[p] = "testing"
  /\ \/ pc' = [pc EXCEPT ![p] = "sending"] /\ works' = works \union {p}
     \/ pc' = [pc EXCEPT ![p] = "leaving"] /\ UNCHANGED works
  /\ UNCHANGED <<semaphore, channel, main, supply>>

\* Plausible bug: the channel has the size of the semaphore.
SlotsCapacity == Slots

\* Capacity of validProxiesCh.
Capacity == Count

Send(p) ==
  /\ pc[p] = "sending"
  /\ Len(channel) < Capacity
  /\ channel' = Append(channel, p)
  /\ pc' = [pc EXCEPT ![p] = "leaving"]
  /\ UNCHANGED <<semaphore, works, main, supply>>

\* Plausible bug: only the way of a working proxy gives the slot back.
LeaveKeepingSlot(p) ==
  /\ pc[p] = "leaving"
  /\ semaphore' = IF p \in works THEN semaphore - 1 ELSE semaphore
  /\ pc' = [pc EXCEPT ![p] = "done"]
  /\ UNCHANGED <<channel, works, main, supply>>

\* The deferred calls: the slot is given back, then the goroutine is done.
Leave(p) ==
  /\ pc[p] = "leaving"
  /\ semaphore' = semaphore - 1
  /\ pc' = [pc EXCEPT ![p] = "done"]
  /\ UNCHANGED <<channel, works, main, supply>>

\* Plausible bug: it waits for the tests only, not for their results to be sent.
CollectEarly ==
  /\ main = "testing"
  /\ \A p \in Listed : pc[p] \in {"sending", "leaving", "done"}
  /\ main' = "serving"
  /\ proxies' = channel
  /\ channel' = << >>
  /\ given' = [k \in DOMAIN channel |-> 0]
  /\ UNCHANGED <<pc, semaphore, works, current>>

\* All goroutines are done: the channel is closed and emptied.
Collect ==
  /\ main = "testing"
  /\ \A p \in Listed : pc[p] = "done"
  /\ main' = "serving"
  /\ proxies' = channel
  /\ channel' = << >>
  /\ given' = [k \in DOMAIN channel |-> 0]
  /\ UNCHANGED <<pc, semaphore, works, current>>

-----------------------------------------------------------------------------
(* Get.                                                                    *)

Handed == SumFunction(given)

\* Plausible bug: at the end of the list it stays there.
GetStaying ==
  /\ main = "serving"
  /\ Handed < MaxGets
  /\ proxies # << >>
  /\ given' = [given EXCEPT ![current + 1] = @ + 1]
  /\ current' = IF current + 1 < Len(proxies) THEN current + 1 ELSE current
  /\ UNCHANGED <<testing, main, proxies>>

\* Under the mutex.  Without proxies it returns "" and changes nothing.
Get ==
  /\ main = "serving"
  /\ Handed < MaxGets
  /\ proxies # << >>
  /\ given' = [given EXCEPT ![current + 1] = @ + 1]
  /\ current' = (current + 1) % Len(proxies)
  /\ UNCHANGED <<testing, main, proxies>>

TestStep(p) == Acquire(p) \/ Test(p) \/ Send(p) \/ Leave(p)

Next == Collect \/ Get \/ \E p \in Listed : TestStep(p)

Spec == Init /\ [][Next]_vars

\* The goroutines run, and a test ends.  Nobody has to call Get.
Fairness == WF_vars(Collect) /\ \A p \in Listed : WF_vars(TestStep(p))

FairSpec == Spec /\ Fairness

-----------------------------------------------------------------------------
(* Properties.                                                             *)

TypeOK ==
  /\ pc \in [Listed -> {"waiting", "testing", "sending", "leaving", "done"}]
  /\ semaphore \in 0..Slots
  /\ channel \in Seq(Listed)
  /\ main \in {"testing", "serving"}
  /\ proxies \in Seq(Listed)
  /\ current \in Nat /\ (proxies # << >> => current < Len(proxies))
  /\ works \subseteq Listed
  /\ given \in [1..Len(proxies) -> Nat]

InTest == {p \in Listed : pc[p] = "testing"}

\* No more proxies are tested at a time than the semaphore has slots.
TestsBounded == Cardinality(InTest) <= Slots

\* The constructor only waits for the goroutines, so no send may wait for it: there is
\* room for the result of every goroutine that has one.
SendNeverWaits == \A p \in Listed : pc[p] = "sending" => Len(channel) < Capacity

\* Get hands out all the proxies that work, each of them once in the list, and no
\* other.
WorkingKept ==
  main = "serving" => /\ Range(proxies) = works
                      /\ Len(proxies) = Cardinality(works)

\* Round robin: between any two proxies the number of times they were handed out
\* differs by one at most.
HandedOutEvenly == \A j, k \in DOMAIN given : given[j] <= given[k] + 1

\* The constructor returns.
Constructed == <>(main = "serving")

-----------------------------------------------------------------------------
(* The inductive invariant behind them.                                    *)

\* The goroutines that hold a slot, and those that have sent their proxy.
Holding == {p \in Listed : pc[p] \in {"testing", "sending", "leaving"}}
Sent == {p \in works : pc[p] \in {"leaving", "done"}}

\* A result is there after the test, and only a good one is sent.
ResultsInv ==
  \A p \in Listed : /\ pc[p] \in {"waiting", "testing"} => p \notin works
                    /\ pc[p] = "sending" => p \in works

SupplierInv ==
  /\ semaphore = Cardinality(Holding)
  /\ ResultsInv
  /\ main = "testing" => /\ Range(channel) = Sent /\ Len(channel) = Cardinality(Sent)
                         /\ proxies = << >> /\ current = 0
  /\ main = "serving" => \A p \in Listed : pc[p] = "done"
  /\ WorkingKept
  /\ \E rounds \in Nat :
       \A k \in 1..Len(proxies) : given[k] = IF k <= current THEN rounds + 1 ELSE rounds

=============================================================================
