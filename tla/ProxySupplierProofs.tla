------------------------ MODULE ProxySupplierProofs ------------------------
(***************************************************************************)
(* Theorems about ProxySupplier, for any number of proxies, of slots and   *)
(* of calls of Get.                                                        *)
(***************************************************************************)
EXTENDS ProxySupplier, TLAPS, FiniteSetTheorems, SequenceTheorems

SInv == TypeOK /\ SupplierInv

USE DEF testing, supply, vars

-----------------------------------------------------------------------------
(* Sets of proxies.                                                        *)

LEMMA ListedFinite ==
  ASSUME NEW S \in SUBSET Listed
  PROVE  /\ IsFiniteSet(S) /\ Cardinality(S) \in Nat /\ Cardinality(S) <= Count
         /\ \A p \in Listed \ S : Cardinality(S) < Count
<1>1. IsFiniteSet(Listed) /\ Cardinality(Listed) = Count
  BY FS_Interval, SupplierAssumption DEF SupplierAssumption, Listed
<1>2. IsFiniteSet(S) /\ Cardinality(S) <= Cardinality(Listed)
      /\ (Cardinality(S) = Cardinality(Listed) => S = Listed)
  BY <1>1, FS_Subset
<1>3. Cardinality(S) \in Nat
  BY <1>2, FS_CardinalityType
<1> QED BY <1>1, <1>2, <1>3, SupplierAssumption DEF SupplierAssumption

LEMMA AddOne ==
  ASSUME NEW S \in SUBSET Listed, NEW p \in Listed, p \notin S
  PROVE  Cardinality(S \union {p}) = Cardinality(S) + 1
  BY ListedFinite, FS_AddElement

LEMMA RemoveOne ==
  ASSUME NEW S \in SUBSET Listed, NEW p \in S
  PROVE  Cardinality(S \ {p}) = Cardinality(S) - 1
  BY ListedFinite, FS_RemoveElement

LEMMA AppendRange ==
  ASSUME NEW s \in Seq(Listed), NEW p \in Listed
  PROVE  /\ Append(s, p) \in Seq(Listed) /\ Len(Append(s, p)) = Len(s) + 1
         /\ Range(Append(s, p)) = Range(s) \union {p}
<1>1. /\ Append(s, p) \in Seq(Listed) /\ Len(Append(s, p)) = Len(s) + 1
      /\ \A i \in 1..Len(s) : Append(s, p)[i] = s[i]
      /\ Append(s, p)[Len(s) + 1] = p
  BY AppendProperties
<1>2. DOMAIN s = 1..Len(s) /\ DOMAIN Append(s, p) = 1..(Len(s) + 1) /\ Len(s) \in Nat
  BY <1>1, LenProperties
<1> QED BY <1>1, <1>2 DEF Range

-----------------------------------------------------------------------------
(* The steps.                                                              *)

LEMMA InitInv == ASSUME Init PROVE SInv
<1>1. Holding = {} /\ Sent = {}
  BY DEF Init, Holding, Sent
<1>2. Cardinality(Holding) = 0 /\ Cardinality(Sent) = 0 /\ Cardinality(works) = 0
  BY <1>1, FS_EmptySet DEF Init
<1>3. /\ << >> \in Seq(Listed) /\ Len(<< >>) = 0 /\ Range(<< >>) = {} /\ DOMAIN << >> = {}
      /\ 1..0 = {}
  BY EmptySeq DEF Range
<1>4. given \in [1..Len(proxies) -> Nat]
  BY <1>3 DEF Init
<1>5. TypeOK
  <2>1. semaphore \in 0..Slots
    BY SupplierAssumption DEF SupplierAssumption, Init
  <2>2. pc \in [Listed -> {"waiting", "testing", "sending", "leaving", "done"}]
    BY DEF Init
  <2>3. main \in {"testing", "serving"}
    BY Zenon DEF Init
  <2> QED BY <1>3, <1>4, <2>1, <2>2, <2>3 DEF Init, TypeOK
<1>6. WorkingKept
  BY <1>2, <1>3 DEF Init, WorkingKept
<1>7. Count = 0 => Listed = {}
  BY DEF Listed
<1>8. \E rounds \in Nat :
        \A k \in 1..Len(proxies) : given[k] = IF k <= current THEN rounds + 1 ELSE rounds
  BY <1>3 DEF Init
<1>9. main = "testing" => /\ Range(channel) = Sent /\ Len(channel) = Cardinality(Sent)
                         /\ proxies = << >> /\ current = 0
  BY <1>1, <1>2, <1>3 DEF Init
<1>10. main = "serving" => \A p \in Listed : pc[p] = "done"
  BY <1>7 DEF Init
<1>11. /\ semaphore = Cardinality(Holding)
       /\ ResultsInv
  BY <1>2 DEF Init, ResultsInv
<1> QED BY <1>5, <1>6, <1>8, <1>9, <1>10, <1>11 DEF SInv, SupplierInv

LEMMA TestStepInv ==
  ASSUME SInv, NEW p \in Listed, TestStep(p) PROVE SInv'
<1>1. main = "testing"
  BY DEF TestStep, Acquire, Test, Send, Leave, SInv, TypeOK, SupplierInv
<1>2. Holding \subseteq Listed /\ Sent \subseteq Listed /\ semaphore = Cardinality(Holding)
  BY DEF SInv, TypeOK, SupplierInv, Holding, Sent
<1>3. Range(channel) = Sent /\ Len(channel) = Cardinality(Sent) /\ proxies = << >> /\ current = 0
  BY <1>1 DEF SInv, SupplierInv
<1>4. main' = "testing" /\ UNCHANGED supply
  BY <1>1 DEF TestStep, Acquire, Test, Send, Leave
<1>5. ASSUME semaphore' = Cardinality(Holding)',
             ResultsInv',
             Range(channel)' = Sent', Len(channel)' = Cardinality(Sent)'
      PROVE  SupplierInv'
  <2>1. \E rounds \in Nat :
          \A k \in 1..Len(proxies') : given'[k] = IF k <= current' THEN rounds + 1 ELSE rounds
    BY <1>4 DEF SInv, SupplierInv
  <2>2. main' # "serving" /\ WorkingKept'
    BY <1>4 DEF WorkingKept
  <2>3. proxies' = << >> /\ current' = 0
    BY <1>3, <1>4
  <2>4. (main = "testing" => /\ Range(channel) = Sent /\ Len(channel) = Cardinality(Sent)
                            /\ proxies = << >> /\ current = 0)'
    BY <1>5, <2>3
  <2>5. (main = "serving" => \A q \in Listed : pc[q] = "done")'
    BY <2>2
  <2> QED BY <1>5, <2>1, <2>2, <2>4, <2>5 DEF SupplierInv
<1>6. CASE Acquire(p)
  <2>1. Holding' = Holding \union {p} /\ p \notin Holding
    BY <1>6 DEF Acquire, SInv, TypeOK, Holding
  <2>2. Sent' = Sent
    BY <1>6 DEF Acquire, SInv, TypeOK, SupplierInv, ResultsInv, Sent
  <2>3. semaphore' = Cardinality(Holding')
    BY <1>2, <1>6, <2>1, AddOne DEF Acquire
  <2>4. TypeOK'
    BY <1>6, SupplierAssumption DEF SupplierAssumption, Acquire, SInv, TypeOK
  <2>5. ResultsInv'
    BY <1>6 DEF Acquire, SInv, TypeOK, SupplierInv, ResultsInv, Listed
  <2> QED BY <1>3, <1>5, <1>6, <2>2, <2>3, <2>4, <2>5 DEF Acquire, SInv
<1>7. CASE Test(p)
  <2>1. Holding' = Holding
    BY <1>7 DEF Test, SInv, TypeOK, Holding
  <2>2. Sent' = Sent
    BY <1>7 DEF Test, SInv, TypeOK, SupplierInv, ResultsInv, Sent
  <2>3. TypeOK'
    BY <1>7 DEF Test, SInv, TypeOK
  <2>4. ResultsInv'
    BY <1>7 DEF Test, SInv, TypeOK, SupplierInv, ResultsInv, Listed
  <2> QED BY <1>2, <1>3, <1>5, <1>7, <2>1, <2>2, <2>3, <2>4 DEF Test, SInv
<1>8. CASE Send(p)
  <2>1. Holding' = Holding
    BY <1>8 DEF Send, SInv, TypeOK, Holding
  <2>2. Sent' = Sent \union {p} /\ p \notin Sent
    BY <1>8 DEF Send, SInv, TypeOK, SupplierInv, ResultsInv, Sent
  <2>3. /\ channel' \in Seq(Listed) /\ Len(channel') = Len(channel) + 1
        /\ Range(channel') = Range(channel) \union {p}
    BY <1>8, AppendRange DEF Send, SInv, TypeOK
  <2>4. Len(channel') = Cardinality(Sent')
    BY <1>2, <1>3, <2>2, <2>3, AddOne
  <2>5. TypeOK'
    BY <1>8, <2>3 DEF Send, SInv, TypeOK
  <2>6. ResultsInv'
    BY <1>8 DEF Send, SInv, TypeOK, SupplierInv, ResultsInv, Listed
  <2> QED BY <1>2, <1>3, <1>5, <1>8, <2>1, <2>2, <2>3, <2>4, <2>5, <2>6 DEF Send, SInv
<1>9. CASE Leave(p)
  <2>1. Holding' = Holding \ {p} /\ p \in Holding
    BY <1>9 DEF Leave, SInv, TypeOK, Holding
  <2>2. Sent' = Sent
    BY <1>9 DEF Leave, SInv, TypeOK, SupplierInv, ResultsInv, Sent
  <2>3. semaphore' = Cardinality(Holding')
    BY <1>2, <1>9, <2>1, RemoveOne DEF Leave
  <2>4. semaphore' \in 0..Slots
    <3>1. semaphore' \in Nat
      BY <1>2, <2>1, <2>3, ListedFinite
    <3> QED BY <1>9, <3>1, SupplierAssumption DEF SupplierAssumption, Leave, SInv, TypeOK
  <2>5. TypeOK'
    BY <1>9, <2>4 DEF Leave, SInv, TypeOK
  <2>6. ResultsInv'
    BY <1>9 DEF Leave, SInv, TypeOK, SupplierInv, ResultsInv, Listed
  <2> QED BY <1>3, <1>5, <1>9, <2>2, <2>3, <2>5, <2>6 DEF Leave, SInv
<1> QED BY <1>6, <1>7, <1>8, <1>9 DEF TestStep

\* When all are done, what was sent is what works.
LEMMA CollectInv == ASSUME SInv, Collect PROVE SInv'
<1>1. Sent = works /\ Sent' = works' /\ Holding' = Holding
  BY DEF Collect, SInv, TypeOK, SupplierInv, ResultsInv, Sent, Holding
<1>2. Range(channel) = works /\ Len(channel) = Cardinality(works)
  BY <1>1 DEF Collect, SInv, SupplierInv
<1>3. DOMAIN channel = 1..Len(channel) /\ Len(channel) \in Nat
  BY LenProperties DEF SInv, TypeOK
<1>4. given' = [k \in 1..Len(proxies') |-> 0] /\ current' = 0
  <2>1. current = 0
    BY DEF Collect, SInv, TypeOK, SupplierInv
  <2> QED BY <1>3, <2>1 DEF Collect
<1>5. TypeOK'
  <2>1. given' \in [1..Len(proxies') -> Nat]
    BY <1>4
  <2>2. proxies' \in Seq(Listed) /\ channel' \in Seq(Listed)
    BY DEF Collect, SInv, TypeOK
  <2>3. proxies' # << >> => current' < Len(proxies')
    BY <1>3, <1>4, <2>2, EmptySeq DEF Collect
  <2> QED BY <1>4, <2>1, <2>2, <2>3 DEF Collect, SInv, TypeOK
<1>6. WorkingKept'
  BY <1>2 DEF Collect, WorkingKept
<1>7. \E rounds \in Nat :
        \A k \in 1..Len(proxies') : given'[k] = IF k <= current' THEN rounds + 1 ELSE rounds
  BY <1>4
<1>8. ResultsInv'
  BY DEF Collect, SInv, SupplierInv, ResultsInv, Listed
<1>9. main' = "serving" /\ (\A p \in Listed : pc'[p] = "done")
      /\ semaphore' = Cardinality(Holding')
  BY <1>1 DEF Collect, SInv, SupplierInv
<1> QED BY <1>5, <1>6, <1>7, <1>8, <1>9 DEF SInv, SupplierInv

\* A round that is complete is the next one of which nothing is given yet.
LEMMA GetInv == ASSUME SInv, Get PROVE SInv'
<1> DEFINE n == Len(proxies)
<1>1. n \in Nat \ {0} /\ current \in 0..(n - 1) /\ given \in [1..n -> Nat]
  <2>1. n \in Nat
    BY LenProperties DEF SInv, TypeOK
  <2>2. proxies # << >> /\ current \in Nat /\ current < n
    BY DEF Get, SInv, TypeOK
  <2> QED BY <2>1, <2>2 DEF SInv, TypeOK
<1>2. /\ given' = [given EXCEPT ![current + 1] = given[current + 1] + 1]
      /\ UNCHANGED <<testing, main, proxies>>
      /\ current' = (current + 1) % n
  BY DEF Get
<1>3. current' = IF current + 1 = n THEN 0 ELSE current + 1
  <2>1. CASE current + 1 = n
    BY <1>1, <1>2, <2>1
  <2>2. CASE current + 1 # n
    BY <1>1, <1>2, <2>2
  <2> QED BY <2>1, <2>2
<1>4. TypeOK'
  <2>1. given' \in [1..Len(proxies') -> Nat]
    BY <1>1, <1>2
  <2>2. current' \in Nat /\ (proxies' # << >> => current' < Len(proxies'))
    BY <1>1, <1>2, <1>3
  <2> QED BY <1>2, <2>1, <2>2 DEF SInv, TypeOK
<1>5. PICK rounds \in Nat :
        \A k \in 1..n : given[k] = IF k <= current THEN rounds + 1 ELSE rounds
  BY DEF SInv, SupplierInv
<1>6. \A k \in 1..n : given'[k] = IF k <= current + 1 THEN rounds + 1 ELSE rounds
  BY <1>1, <1>2, <1>5
<1>7. \E r \in Nat :
        \A k \in 1..Len(proxies') : given'[k] = IF k <= current' THEN r + 1 ELSE r
  <2>1. CASE current + 1 = n
    <3>1. \A k \in 1..n : given'[k] = IF k <= 0 THEN (rounds + 1) + 1 ELSE rounds + 1
      BY <1>1, <1>6, <2>1
    <3> QED BY <1>2, <1>3, <2>1, <3>1
  <2>2. CASE current + 1 # n
    BY <1>2, <1>3, <1>6, <2>2
  <2> QED BY <2>1, <2>2
<1>8. main = "serving"
  BY DEF Get
<1>9. Holding' = Holding
  BY <1>2 DEF Holding
<1> QED BY <1>2, <1>4, <1>7, <1>8, <1>9 DEF SInv, SupplierInv, WorkingKept, ResultsInv

LEMMA NextInv == ASSUME SInv, [Next]_vars PROVE SInv'
<1>1. CASE UNCHANGED vars
  BY <1>1 DEF SInv, TypeOK, SupplierInv, WorkingKept, ResultsInv, Holding, Sent
<1> QED BY <1>1, TestStepInv, CollectInv, GetInv DEF Next

-----------------------------------------------------------------------------
(* The theorems.                                                           *)

\* The inductive invariant.
THEOREM SupplierInvariant == Spec => []SInv
<1>1. Init => SInv
  BY InitInv
<1>2. SInv /\ [Next]_vars => SInv'
  BY NextInv
<1> QED BY <1>1, <1>2, PTL DEF Spec

\* The state of the supplier has its types.
THEOREM TypeCorrect == Spec => []TypeOK
<1>1. SInv => TypeOK
  BY DEF SInv
<1> QED BY <1>1, SupplierInvariant, PTL

\* However many proxies are listed, no more are in test than there are slots.
THEOREM TestsAreBounded == Spec => []TestsBounded
<1>1. ASSUME SInv PROVE TestsBounded
  <2>1. InTest \subseteq Holding /\ Holding \subseteq Listed
    BY DEF InTest, Holding
  <2>2. Cardinality(InTest) <= Cardinality(Holding)
    BY <2>1, ListedFinite, FS_Subset
  <2>3. Cardinality(InTest) \in Nat /\ Cardinality(Holding) \in Nat
    BY <2>1, ListedFinite
  <2>4. Cardinality(Holding) <= Slots
    BY <1>1, SupplierAssumption DEF SupplierAssumption, SInv, TypeOK, SupplierInv
  <2> QED BY <2>2, <2>3, <2>4, SupplierAssumption DEF SupplierAssumption, TestsBounded
<1> QED BY <1>1, SupplierInvariant, PTL

LEMMA SendsLeaveRoom == ASSUME SInv PROVE SendNeverWaits
<1> SUFFICES ASSUME NEW p \in Listed, pc[p] = "sending" PROVE Len(channel) < Capacity
  BY DEF SendNeverWaits
<1>1. main = "testing"
  BY DEF SInv, TypeOK, SupplierInv
<1>2. Sent \subseteq Listed /\ p \notin Sent
  BY DEF SInv, TypeOK, Sent
<1>3. Len(channel) = Cardinality(Sent)
  BY <1>1 DEF SInv, SupplierInv
<1> QED BY <1>2, <1>3, ListedFinite DEF Capacity

\* The channel has room for every proxy that may still be sent.
THEOREM SendsNeverWait == Spec => []SendNeverWaits
BY SendsLeaveRoom, SupplierInvariant, PTL

\* Get hands out the working proxies, each of them once in its list.
THEOREM WorkingProxiesKept == Spec => []WorkingKept
<1>1. SInv => WorkingKept
  BY DEF SInv, SupplierInv
<1> QED BY <1>1, SupplierInvariant, PTL

\* Round robin over any list and any number of calls.
THEOREM HandedOutInTurn == Spec => []HandedOutEvenly
<1>1. ASSUME SInv PROVE HandedOutEvenly
  <2>1. DOMAIN given = 1..Len(proxies) /\ current \in Nat /\ Len(proxies) \in Nat
    BY <1>1, LenProperties DEF SInv, TypeOK
  <2>2. PICK rounds \in Nat :
          \A k \in 1..Len(proxies) : given[k] = IF k <= current THEN rounds + 1 ELSE rounds
    BY <1>1 DEF SInv, SupplierInv
  <2> QED BY <2>1, <2>2 DEF HandedOutEvenly
<1> QED BY <1>1, SupplierInvariant, PTL

-----------------------------------------------------------------------------
(* What Constructed rests on besides fairness.                             *)

\* The goroutines that have not started, not ended their test, not sent, not left.
At(places) == {p \in Listed : pc[p] \in places}
Unstarted == At({"waiting"})
Untested == At({"waiting", "testing"})
Unsent == At({"waiting", "testing", "sending"})
Unfinished == At({"waiting", "testing", "sending", "leaving"})

\* The steps the constructor and its goroutines have left, at most.
StepsLeft ==
  Cardinality(Unstarted) + Cardinality(Untested) + Cardinality(Unsent) + Cardinality(Unfinished)
  + (IF main = "testing" THEN 1 ELSE 0)

\* The guards of Collect and of the steps of a test.
CanGoOn ==
  \/ \A p \in Listed : pc[p] = "done"
  \/ \E p \in Listed : \/ pc[p] = "waiting" /\ semaphore < Slots
                       \/ pc[p] \in {"testing", "leaving"}
                       \/ pc[p] = "sending" /\ Len(channel) < Capacity

\* The constructor never waits for a goroutine that cannot go on: neither semaphore nor
\* channel holds up everybody.
NeverStands == main = "testing" => CanGoOn

\* Each step until the constructor returns uses up at least one of those that are left.
WindsDown == main = "testing" => StepsLeft' < StepsLeft

\* Some goroutine can always go on, for any number of proxies and slots (supplier.go:31 to
\* 58).
THEOREM NobodyIsStuck == Spec => []NeverStands
<1>1. ASSUME SInv PROVE NeverStands
  <2> SUFFICES ASSUME \A p \in Listed : pc[p] \in {"waiting", "done"},
                      NEW p \in Listed, pc[p] = "waiting"
               PROVE  semaphore < Slots
    BY <1>1, SendsLeaveRoom DEF NeverStands, CanGoOn, SInv, TypeOK, SendNeverWaits
  <2>1. Holding = {}
    BY DEF Holding
  <2> QED BY <1>1, <2>1, FS_EmptySet, SupplierAssumption
          DEF SupplierAssumption, SInv, SupplierInv
<1> QED BY <1>1, SupplierInvariant, PTL

\* A goroutine that moves on leaves at least one of the sets, and none joins any.
LEMMA FewerLeft ==
  ASSUME NEW S \in SUBSET Listed, NEW T \in SUBSET Listed, T \subseteq S
  PROVE  /\ Cardinality(S) \in Nat /\ Cardinality(T) \in Nat
         /\ Cardinality(T) <= Cardinality(S)
         /\ T # S => Cardinality(T) < Cardinality(S)
BY ListedFinite, FS_Subset

LEMMA StepWindsDown == ASSUME SInv, [Next]_vars PROVE [WindsDown]_vars
<1> SUFFICES ASSUME Next, main = "testing" PROVE StepsLeft' < StepsLeft
  BY DEF WindsDown
<1>1. /\ Unstarted \in SUBSET Listed /\ Untested \in SUBSET Listed
      /\ Unsent \in SUBSET Listed /\ Unfinished \in SUBSET Listed
  BY DEF Unstarted, Untested, Unsent, Unfinished, At
<1>2. CASE Collect
  <2>1. UNCHANGED <<Unstarted, Untested, Unsent, Unfinished>>
    BY <1>2 DEF Collect, Unstarted, Untested, Unsent, Unfinished, At
  <2>2. /\ Cardinality(Unstarted) \in Nat /\ Cardinality(Untested) \in Nat
        /\ Cardinality(Unsent) \in Nat /\ Cardinality(Unfinished) \in Nat
    BY <1>1, FewerLeft
  <2> QED BY <1>2, <2>1, <2>2 DEF Collect, StepsLeft
<1>3. ASSUME NEW p \in Listed, TestStep(p) PROVE StepsLeft' < StepsLeft
  <2>1. main' = main
    BY <1>3 DEF TestStep, Acquire, Test, Send, Leave
  <2>2. /\ Unstarted' \subseteq Unstarted /\ Untested' \subseteq Untested
        /\ Unsent' \subseteq Unsent /\ Unfinished' \subseteq Unfinished
    BY <1>3 DEF TestStep, Acquire, Test, Send, Leave, Unstarted, Untested, Unsent, Unfinished,
                At, SInv, TypeOK
  <2>3. \/ Unstarted' # Unstarted \/ Untested' # Untested
        \/ Unsent' # Unsent \/ Unfinished' # Unfinished
    BY <1>3 DEF TestStep, Acquire, Test, Send, Leave, Unstarted, Untested, Unsent, Unfinished,
                At, SInv, TypeOK
  <2> DEFINE Fewer(S, T) ==
               /\ Cardinality(S) \in Nat /\ Cardinality(T) \in Nat
               /\ Cardinality(T) <= Cardinality(S)
               /\ T # S => Cardinality(T) < Cardinality(S)
  <2>4. \A S, T \in SUBSET Listed : T \subseteq S => Fewer(S, T)
    BY FewerLeft
  <2>5. /\ Fewer(Unstarted, Unstarted') /\ Fewer(Untested, Untested')
        /\ Fewer(Unsent, Unsent') /\ Fewer(Unfinished, Unfinished')
    <3>1. /\ Unstarted' \in SUBSET Listed /\ Untested' \in SUBSET Listed
          /\ Unsent' \in SUBSET Listed /\ Unfinished' \in SUBSET Listed
      BY <1>1, <2>2
    <3> HIDE DEF Fewer
    <3> QED BY <1>1, <2>2, <2>4, <3>1
  <2> QED BY <2>1, <2>3, <2>5 DEF StepsLeft
<1>4. ~Get
  BY DEF Get
<1> QED BY <1>2, <1>3, <1>4 DEF Next

\* The constructor takes finitely many steps, whatever the tests say (supplier.go:39 to 74).
THEOREM ConstructorWindsDown == Spec => [][WindsDown]_vars
BY SupplierInvariant, StepWindsDown, PTL DEF Spec

=============================================================================
