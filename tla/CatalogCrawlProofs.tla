------------------------- MODULE CatalogCrawlProofs -------------------------
(***************************************************************************)
(* Proofs about the crawl of a category, for every number of workers, of   *)
(* pages and of restarts: its types, the inductive invariant CrawlInv and  *)
(* what follows from it.  One lemma per conjunct of the invariant says     *)
(* that no step breaks it; each has one step per action that could.        *)
(***************************************************************************)
EXTENDS CatalogCrawl, TLAPS, FiniteSetTheorems, SequenceTheorems

\* Every step is one of the actions or changes nothing.
LEMMA Steps ==
  ASSUME [Next]_vars
  PROVE  \/ GetLastProcessedPage \/ FetchFirstPage \/ LaunchFetcher
         \/ (\E p \in fetching \union leaving : SendPage(p))
         \/ (\E p \in fetching \union leaving : FailPage(p))
         \/ (\E p \in fetching \union leaving : ReleaseSlot(p))
         \/ ClosePagesChan \/ ReceivePage \/ AddPageTask \/ FinishCategory
         \/ Restart \/ UNCHANGED vars
BY DEF Next, CategoryStep, LauncherStep, FetcherStep

\* Handed only grows.
LEMMA HandedGrows ==
  ASSUME [Next]_vars
  PROVE  Handed \subseteq Handed'
<1> USE DEF Handed, vars, durable
<1>1. CASE \E p \in fetching \union leaving : FailPage(p)
  BY <1>1 DEF FailPage
<1>2. CASE AddPageTask
  BY <1>2 DEF AddPageTask
<1>3. CASE GetLastProcessedPage \/ FetchFirstPage \/ LaunchFetcher \/ ClosePagesChan
  BY <1>3 DEF GetLastProcessedPage, FetchFirstPage, LaunchFetcher, ClosePagesChan
<1>4. CASE \E p \in fetching \union leaving : SendPage(p) \/ ReleaseSlot(p)
  BY <1>4 DEF SendPage, ReleaseSlot
<1>5. CASE ReceivePage \/ FinishCategory \/ Restart \/ UNCHANGED vars
  BY <1>5 DEF ReceivePage, FinishCategory, Restart
<1> QED
  BY <1>1, <1>2, <1>3, <1>4, <1>5, Steps

-----------------------------------------------------------------------------
(* Types.                                                                  *)

LEMMA InitType == Init => TypeOK
BY CrawlAssumption, EmptySeq DEF CrawlAssumption, Init, TypeOK, NoPage, Page

LEMMA NextType ==
  ASSUME TypeOK, SlotsCounted, Phases, [Next]_vars
  PROVE  TypeOK'
<1> USE CrawlAssumption DEF CrawlAssumption, TypeOK, vars, durable, main, fetchers, Page, NoPage
<1>1. CASE GetLastProcessedPage
  BY <1>1 DEF GetLastProcessedPage
<1>2. CASE FetchFirstPage
  <2>1. pagesChan' \in Seq(Page)
    <3>1. CASE UNCHANGED pagesChan
      BY <3>1
    <3>2. CASE pc' = "range"
      <4>1. startPage \in Page /\ pagesChan' = <<startPage>>
        BY <1>2, <3>2 DEF FetchFirstPage, Phases
      <4> QED
        BY <4>1
    <3> QED
      BY <1>2, <3>1, <3>2 DEF FetchFirstPage
  <2>2. totalPages' \in Totals \union {totalPages} /\ pageNum' \in {startPage + 1, pageNum}
    BY <1>2 DEF FetchFirstPage
  <2>3. pc' \in {"range", "blocked", "failed"} /\ launcher' \in {"none", "running", "closed"}
    BY <1>2 DEF FetchFirstPage
  <2> QED
    BY <1>2, <2>1, <2>2, <2>3 DEF FetchFirstPage
<1>3. CASE LaunchFetcher
  BY <1>3 DEF LaunchFetcher
<1>4. CASE \E p \in fetching \union leaving : SendPage(p)
  <2>1. PICK p \in Page : SendPage(p)
    BY <1>4
  <2>2. pagesChan' \in Seq(Page)
    BY <2>1, AppendProperties DEF SendPage
  <2> QED
    BY <2>1, <2>2 DEF SendPage
<1>5. CASE \E p \in fetching \union leaving : FailPage(p)
  BY <1>5 DEF FailPage
<1>6. CASE \E p \in fetching \union leaving : ReleaseSlot(p)
  <2>1. PICK p : ReleaseSlot(p)
    BY <1>6
  <2>2. semaphore' \in 0..MaxWorkers
    <3>1. Cardinality(leaving) \in Nat /\ Cardinality(leaving) # 0
      BY <2>1, FS_CardinalityType, FS_EmptySet DEF ReleaseSlot, SlotsCounted
    <3>2. Cardinality(fetching) \in Nat
      BY FS_CardinalityType DEF SlotsCounted
    <3> QED
      BY <2>1, <3>1, <3>2 DEF ReleaseSlot, SlotsCounted
  <2> QED
    BY <2>1, <2>2 DEF ReleaseSlot
<1>7. CASE ClosePagesChan
  BY <1>7 DEF ClosePagesChan
<1>8. CASE ReceivePage
  <2>1. page' \in Page /\ pagesChan' \in Seq(Page)
    BY <1>8, HeadTailProperties DEF ReceivePage
  <2>2. progress' \in Nat
    BY <1>8, <2>1 DEF ReceivePage, SetLastProcessedPage, MaxOf, PageNumber
  <2> QED
    BY <1>8, <2>1, <2>2 DEF ReceivePage
<1>9. CASE AddPageTask
  BY <1>9 DEF AddPageTask, Phases
<1>10. CASE FinishCategory
  BY <1>10 DEF FinishCategory, SetLastProcessedPage
<1>11. CASE Restart
  BY <1>11 DEF Restart
<1>12. CASE UNCHANGED vars
  BY <1>12
<1> QED
  BY <1>1, <1>2, <1>3, <1>4, <1>5, <1>6, <1>7, <1>8, <1>9, <1>10, <1>11, <1>12, Steps

-----------------------------------------------------------------------------
(* The semaphore, the goroutines and the phases of the category.           *)

LEMMA NextSlots ==
  ASSUME TypeOK, SlotsCounted, Launched, [Next]_vars
  PROVE  SlotsCounted'
<1> USE DEF SlotsCounted, vars, durable, main, fetchers
<1>1. CASE LaunchFetcher
  <2>1. pageNum \notin fetching \union leaving
    BY DEF Launched, TypeOK, Page
  <2>2. /\ IsFiniteSet(fetching \union {pageNum})
        /\ Cardinality(fetching \union {pageNum}) = Cardinality(fetching) + 1
    BY <2>1, FS_AddElement
  <2>3. Cardinality(fetching) \in Nat /\ Cardinality(leaving) \in Nat
    BY FS_CardinalityType
  <2> QED
    BY <1>1, <2>1, <2>2, <2>3 DEF LaunchFetcher
<1>2. CASE \E p \in fetching \union leaving : SendPage(p) \/ FailPage(p)
  <2>1. PICK p \in fetching :
          /\ fetching' = fetching \ {p}
          /\ leaving' = leaving \union {p}
          /\ semaphore' = semaphore
    BY <1>2 DEF SendPage, FailPage
  <2>2. IsFiniteSet(fetching') /\ Cardinality(fetching') = Cardinality(fetching) - 1
    BY <2>1, FS_RemoveElement
  <2>3. IsFiniteSet(leaving') /\ Cardinality(leaving') = Cardinality(leaving) + 1
    <3>1. p \notin leaving
      BY <2>1
    <3> QED
      BY <2>1, <3>1, FS_AddElement
  <2>4. Cardinality(fetching) \in Nat /\ Cardinality(leaving) \in Nat
    BY FS_CardinalityType
  <2> QED
    BY <2>1, <2>2, <2>3, <2>4
<1>3. CASE \E p \in fetching \union leaving : ReleaseSlot(p)
  <2>1. PICK p : ReleaseSlot(p)
    BY <1>3
  <2>2. IsFiniteSet(leaving \ {p}) /\ Cardinality(leaving \ {p}) = Cardinality(leaving) - 1
    BY <2>1, FS_RemoveElement DEF ReleaseSlot
  <2>3. Cardinality(fetching) \in Nat /\ Cardinality(leaving) \in Nat
    BY FS_CardinalityType
  <2> QED
    BY <2>1, <2>2, <2>3 DEF ReleaseSlot
<1>4. CASE Restart
  BY <1>4, FS_EmptySet DEF Restart
<1>5. CASE UNCHANGED <<semaphore, fetching, leaving>>
  BY <1>5
<1> QED
  BY <1>1, <1>2, <1>3, <1>4, <1>5, Steps
  DEF GetLastProcessedPage, FetchFirstPage, ClosePagesChan, ReceivePage, AddPageTask,
      FinishCategory

LEMMA NextLaunched ==
  ASSUME TypeOK, Phases, Launched, [Next]_vars
  PROVE  Launched'
<1> USE DEF Launched, TypeOK, vars, durable, main, fetchers, Page, NoPage
<1>1. CASE GetLastProcessedPage
  BY <1>1 DEF GetLastProcessedPage, Phases
<1>2. CASE FetchFirstPage
  <2>1. fetching \union leaving = {} /\ launcher = "none" /\ startPage # NoPage
    BY <1>2 DEF FetchFirstPage, Phases
  <2>2. launcher' # "closed"
    BY <1>2, <2>1 DEF FetchFirstPage
  <2>3. launcher' = "running" =>
          startPage' # NoPage /\ pageNum' \in (startPage' + 1)..(totalPages' + 1)
    <3>1. SUFFICES ASSUME launcher' = "running"
                   PROVE  pageNum' \in (startPage + 1)..(totalPages' + 1)
      BY <1>2, <2>1 DEF FetchFirstPage
    <3>2. totalPages' \in Totals /\ totalPages' > startPage /\ pageNum' = startPage + 1
      BY <1>2, <2>1, <3>1 DEF FetchFirstPage
    <3>3. totalPages' \in Nat
      BY <3>2, CrawlAssumption DEF CrawlAssumption
    <3>4. \A s, t \in Nat : t > s => s + 1 \in (s + 1)..(t + 1)
      OBVIOUS
    <3> QED
      BY <3>2, <3>3, <3>4
  <2> QED
    BY <1>2, <2>1, <2>2, <2>3 DEF FetchFirstPage
<1>3. CASE LaunchFetcher
  BY <1>3 DEF LaunchFetcher
<1>4. CASE \E p \in fetching \union leaving : SendPage(p) \/ FailPage(p)
  BY <1>4 DEF SendPage, FailPage
<1>5. CASE \E p \in fetching \union leaving : ReleaseSlot(p)
  BY <1>5 DEF ReleaseSlot
<1>6. CASE ClosePagesChan
  BY <1>6 DEF ClosePagesChan
<1>7. CASE Restart
  BY <1>7 DEF Restart
<1>8. CASE ReceivePage \/ AddPageTask \/ FinishCategory \/ UNCHANGED vars
  BY <1>8 DEF ReceivePage, AddPageTask, FinishCategory
<1> QED
  BY <1>1, <1>2, <1>3, <1>4, <1>5, <1>6, <1>7, <1>8, Steps

LEMMA NextPhases ==
  ASSUME TypeOK, Phases, Launched, [Next]_vars
  PROVE  Phases'
<1> USE DEF Phases, TypeOK, vars, durable, main, fetchers, Page, NoPage
<1>1. CASE GetLastProcessedPage
  BY <1>1 DEF GetLastProcessedPage
<1>2. CASE FetchFirstPage
  BY <1>2 DEF FetchFirstPage
<1>3. CASE LaunchFetcher \/ ClosePagesChan
  BY <1>3 DEF LaunchFetcher, ClosePagesChan
<1>4. CASE \E p \in fetching \union leaving : SendPage(p) \/ FailPage(p) \/ ReleaseSlot(p)
  BY <1>4 DEF SendPage, FailPage, ReleaseSlot, Launched
<1>5. CASE ReceivePage
  <2>1. page' # NoPage /\ pc' = "adding" /\ UNCHANGED startPage
    BY <1>5, HeadTailProperties DEF ReceivePage
  <2> QED
    BY <1>5, <2>1 DEF ReceivePage
<1>6. CASE AddPageTask \/ FinishCategory
  BY <1>6 DEF AddPageTask, FinishCategory
<1>7. CASE Restart
  BY <1>7 DEF Restart
<1>8. CASE UNCHANGED vars
  BY <1>8
<1> QED
  BY <1>1, <1>2, <1>3, <1>4, <1>5, <1>6, <1>7, <1>8, Steps

-----------------------------------------------------------------------------
(* Where the pages are.                                                    *)

\* What the channel operations do to the set of queued pages.
LEMMA SetOfSingleton ==
  ASSUME NEW e
  PROVE  ToSet(<<e>>) = {e}
<1>1. DOMAIN <<e>> = {1} /\ <<e>>[1] = e
  OBVIOUS
<1> QED
  BY <1>1 DEF ToSet

LEMMA SetOfAppend ==
  ASSUME NEW S, NEW seq \in Seq(S), NEW e \in S
  PROVE  ToSet(Append(seq, e)) = ToSet(seq) \union {e}
<1>1. /\ DOMAIN Append(seq, e) = 1..(Len(seq) + 1)
      /\ DOMAIN seq = 1..Len(seq)
      /\ Len(seq) \in Nat
  BY AppendProperties, LenProperties
<1>2. \A i \in 1..Len(seq) : Append(seq, e)[i] = seq[i]
  BY AppendProperties
<1>3. Append(seq, e)[Len(seq) + 1] = e
  BY AppendProperties
<1> QED
  BY <1>1, <1>2, <1>3 DEF ToSet

LEMMA SetOfTail ==
  ASSUME NEW S, NEW seq \in Seq(S), seq # << >>
  PROVE  ToSet(seq) = ToSet(Tail(seq)) \union {Head(seq)}
<1>1. /\ Len(seq) \in Nat \ {0}
      /\ DOMAIN seq = 1..Len(seq)
      /\ DOMAIN Tail(seq) = 1..(Len(seq) - 1)
  BY HeadTailProperties, LenProperties, EmptySeq
<1>2. \A i \in 1..(Len(seq) - 1) : Tail(seq)[i] = seq[i + 1]
  BY HeadTailProperties
<1>3. Head(seq) = seq[1]
  OBVIOUS
<1>4. \A i \in 1..Len(seq) : i = 1 \/ (i - 1 \in 1..(Len(seq) - 1) /\ (i - 1) + 1 = i)
  BY <1>1
<1>5. \A i \in 1..(Len(seq) - 1) : i + 1 \in 1..Len(seq)
  BY <1>1
<1>6. 1 \in 1..Len(seq)
  BY <1>1
<1>7. ToSet(Tail(seq)) = {seq[i + 1] : i \in 1..(Len(seq) - 1)}
  BY <1>1, <1>2 DEF ToSet
<1>8. ToSet(seq) = {seq[i] : i \in 1..Len(seq)}
  BY <1>1 DEF ToSet
<1>9. ToSet(seq) \subseteq ToSet(Tail(seq)) \union {Head(seq)}
  BY <1>3, <1>4, <1>7, <1>8
<1>10. ToSet(Tail(seq)) \union {Head(seq)} \subseteq ToSet(seq)
  BY <1>3, <1>5, <1>6, <1>7, <1>8
<1> QED
  BY <1>9, <1>10

LEMMA NextAccounted ==
  ASSUME TypeOK, Phases, Launched, Accounted, [Next]_vars
  PROVE  Accounted'
<1> USE DEF Accounted, TypeOK, vars, durable, main, fetchers, Page, NoPage, Receiving
<1>0. Handed \subseteq Handed'
  BY HandedGrows
<1>1. CASE GetLastProcessedPage \/ FinishCategory \/ Restart
  BY <1>1 DEF GetLastProcessedPage, FinishCategory, Restart
<1>2. CASE FetchFirstPage
  <2>1. SUFFICES ASSUME pc' = "range"
                 PROVE  \A p \in startPage'..(pageNum' - 1) : p \in ToSet(pagesChan')
    BY <1>2 DEF FetchFirstPage
  <2>2. startPage' = startPage /\ pageNum' = startPage + 1 /\ pagesChan' = <<startPage>>
    BY <1>2, <2>1 DEF FetchFirstPage
  <2>3. startPage \in ToSet(<<startPage>>)
    BY SetOfSingleton
  <2>4. \A p \in startPage..((startPage + 1) - 1) : p = startPage
    OBVIOUS
  <2> QED
    BY <2>2, <2>3, <2>4
<1>3. CASE LaunchFetcher
  BY <1>3 DEF LaunchFetcher, Handed
<1>4. CASE \E n \in fetching \union leaving : SendPage(n)
  <2>1. PICK n \in Page : SendPage(n)
    BY <1>4
  <2>2. ToSet(pagesChan') = ToSet(pagesChan) \union {n}
    <3>1. ToSet(Append(pagesChan, n)) = ToSet(pagesChan) \union {n}
      BY SetOfAppend
    <3> QED
      BY <2>1, <3>1 DEF SendPage
  <2> QED
    BY <2>1, <2>2 DEF SendPage, Handed
<1>5. CASE \E n \in fetching \union leaving : FailPage(n)
  BY <1>5 DEF FailPage, Handed
<1>6. CASE \E n \in fetching \union leaving : ReleaseSlot(n)
  BY <1>6 DEF ReleaseSlot, Handed
<1>7. CASE ClosePagesChan
  BY <1>7 DEF ClosePagesChan, Handed
<1>8. CASE ReceivePage
  <2>1. ToSet(pagesChan) = ToSet(pagesChan') \union {page'}
    BY <1>8, SetOfTail DEF ReceivePage
  <2>2. page = NoPage /\ pc = "range" /\ startPage # NoPage
    BY <1>8 DEF ReceivePage, Phases
  <2>3. UNCHANGED <<startPage, pageNum, fetching>>
    BY <1>8 DEF ReceivePage
  <2>4. \A p \in startPage..(pageNum - 1) : p # NoPage
    BY <2>2
  <2> QED
    BY <1>0, <2>1, <2>2, <2>3, <2>4
<1>9. CASE AddPageTask
  <2>1. pc' = "range" => page \in Handed'
    BY <1>9 DEF AddPageTask, Handed
  <2> QED
    BY <1>0, <1>9, <2>1 DEF AddPageTask
<1>10. CASE UNCHANGED vars
  BY <1>10 DEF Handed
<1> QED
  BY <1>1, <1>2, <1>3, <1>4, <1>5, <1>6, <1>7, <1>8, <1>9, <1>10, Steps

LEMMA NextRoom ==
  ASSUME TypeOK, SlotsCounted, Launched, Phases, Room, [Next]_vars
  PROVE  Room'
<1> USE DEF Room, TypeOK, vars, durable, main, fetchers, Page, NoPage
<1>0. Cardinality(fetching) \in Nat /\ Len(pagesChan) \in Nat
  BY FS_CardinalityType, LenProperties DEF SlotsCounted
<1>1. CASE FetchFirstPage
  <2>1. SUFFICES ASSUME launcher' = "running"
                 PROVE  Len(<<startPage>>) + Cardinality({}) <= (startPage + 1) - startPage
    BY <1>1 DEF FetchFirstPage, Phases, Launched
  <2> QED
    BY FS_EmptySet
<1>2. CASE LaunchFetcher
  <2>1. pageNum \notin fetching
    BY DEF Launched
  <2>2. Cardinality(fetching \union {pageNum}) = Cardinality(fetching) + 1
    BY <2>1, FS_AddElement DEF SlotsCounted
  <2> QED
    BY <1>0, <1>2, <2>2 DEF LaunchFetcher
<1>3. CASE \E p \in fetching \union leaving : SendPage(p)
  <2>1. PICK p \in fetching : SendPage(p)
    BY <1>3 DEF SendPage
  <2>2. Cardinality(fetching \ {p}) = Cardinality(fetching) - 1
    BY FS_RemoveElement DEF SlotsCounted
  <2>3. Len(Append(pagesChan, p)) = Len(pagesChan) + 1
    BY AppendProperties
  <2> QED
    BY <1>0, <2>1, <2>2, <2>3 DEF SendPage
<1>4. CASE \E p \in fetching \union leaving : FailPage(p)
  <2>1. PICK p \in fetching : FailPage(p)
    BY <1>4 DEF FailPage
  <2>2. Cardinality(fetching \ {p}) = Cardinality(fetching) - 1
    BY FS_RemoveElement DEF SlotsCounted
  <2> QED
    BY <1>0, <2>1, <2>2 DEF FailPage
<1>5. CASE ReceivePage
  <2>1. Len(Tail(pagesChan)) = Len(pagesChan) - 1
    BY <1>5, HeadTailProperties DEF ReceivePage
  <2> QED
    BY <1>0, <1>5, <2>1 DEF ReceivePage
<1>6. CASE GetLastProcessedPage \/ ClosePagesChan \/ Restart
  BY <1>6 DEF GetLastProcessedPage, ClosePagesChan, Restart, Phases
<1>7. CASE \E p \in fetching \union leaving : ReleaseSlot(p)
  BY <1>7 DEF ReleaseSlot
<1>8. CASE AddPageTask \/ FinishCategory \/ UNCHANGED vars
  BY <1>8 DEF AddPageTask, FinishCategory
<1> QED
  BY <1>1, <1>2, <1>3, <1>4, <1>5, <1>6, <1>7, <1>8, Steps

-----------------------------------------------------------------------------
(* Pages the resume page may pass.                                         *)

\* Sets of pages bounded from both sides are finite.
LEMMA FiniteLate ==
  ASSUME NEW a \in Int, NEW b \in Int, NEW S, S \subseteq a..b
  PROVE  IsFiniteSet(S) /\ Cardinality(S) \in Nat
BY FS_Interval, FS_Subset, FS_CardinalityType

\* A smaller set is within the same bound.
LEMMA SmallerBound ==
  ASSUME NEW S, NEW T, IsFiniteSet(T), S \subseteq T, NEW b \in Int, Cardinality(T) <= b
  PROVE  Cardinality(S) <= b
<1>1. Cardinality(S) <= Cardinality(T) /\ IsFiniteSet(S)
  BY FS_Subset
<1>2. Cardinality(S) \in Nat /\ Cardinality(T) \in Nat
  BY <1>1, FS_CardinalityType
<1> QED
  BY <1>1, <1>2

LEMMA NextFewLate ==
  ASSUME TypeOK, SlotsCounted, Launched, Phases, Accounted, FewLate, [Next]_vars
  PROVE  FewLate'
<1> USE CrawlAssumption DEF CrawlAssumption, TypeOK, vars, durable, main, fetchers, Page, NoPage
<1> DEFINE Few(S) == Cardinality(S) <= MaxWorkers - 1
<1>0. Handed \subseteq Handed'
  BY HandedGrows
<1>1. ASSUME Receiving, NEW i \in 1..Len(pagesChan)
      PROVE  /\ pagesChan[i] \in Nat
             /\ IsFiniteSet(Late(i))
             /\ Few(Late(i))
  <2>1. pagesChan[i] \in Nat
    BY <1>1, ElementOfSeq
  <2>2. IsFiniteSet(Late(i))
    <3>1. Late(i) \subseteq startPage..(pagesChan[i] - 1)
      BY DEF Late
    <3>2. startPage \in Int /\ pagesChan[i] - 1 \in Int
      BY <2>1
    <3> HIDE DEF Late
    <3> QED
      BY <3>1, <3>2, FiniteLate
  <2> QED
    BY <1>1, <2>1, <2>2 DEF FewLate
<1>2. ASSUME Receiving, UNCHANGED pagesChan, UNCHANGED startPage, page' = page \/ page \in Handed'
      PROVE  FewLate'
  <2>1. SUFFICES ASSUME NEW i \in 1..Len(pagesChan)
                 PROVE  Few(Late(i)')
    BY <1>2 DEF FewLate
  <2>2. Late(i)' \subseteq Late(i)
    BY <1>0, <1>2 DEF Late
  <2> QED
    BY <1>1, <1>2, <2>2, SmallerBound
<1>3. CASE FetchFirstPage
  <2>1. SUFFICES ASSUME pc' = "range"
                 PROVE  \A i \in 1..Len(pagesChan') : Few(Late(i)')
    BY <1>3 DEF FewLate, FetchFirstPage, Receiving
  <2>2. pagesChan' = <<startPage>> /\ startPage' = startPage
    BY <1>3, <2>1 DEF FetchFirstPage
  <2>3. SUFFICES ASSUME NEW i \in 1..1
                 PROVE  Few(Late(i)')
    BY <2>2
  <2>4. Late(i)' = {}
    <3>1. startPage..(startPage - 1) = {} /\ i = 1 /\ <<startPage>>[1] = startPage
      OBVIOUS
    <3> QED
      BY <2>2, <3>1 DEF Late
  <2> QED
    BY <2>4, FS_EmptySet
<1>4. CASE LaunchFetcher \/ ClosePagesChan
  BY <1>2, <1>4 DEF LaunchFetcher, ClosePagesChan, FewLate, Receiving
<1>5. CASE \E n \in fetching \union leaving : FailPage(n) \/ ReleaseSlot(n)
  BY <1>2, <1>5 DEF FailPage, ReleaseSlot, FewLate, Receiving
<1>6. CASE AddPageTask
  <2>1. SUFFICES ASSUME pc' = "range"
                 PROVE  FewLate'
    BY <1>6 DEF FewLate, Receiving, AddPageTask
  <2>2. page \in Handed'
    BY <1>6, <2>1 DEF AddPageTask, Handed
  <2> QED
    BY <1>2, <1>6, <2>2 DEF AddPageTask, Receiving
<1>7. CASE GetLastProcessedPage \/ FinishCategory \/ Restart
  BY <1>7 DEF GetLastProcessedPage, FinishCategory, Restart, FewLate, Receiving
<1>8. CASE UNCHANGED vars
  BY <1>8, <1>2 DEF FewLate, Receiving
<1>9. CASE \E n \in fetching \union leaving : SendPage(n)
  <2>1. PICK n \in fetching : SendPage(n)
    BY <1>9 DEF SendPage
  <2>2. SUFFICES ASSUME Receiving, NEW i \in 1..(Len(pagesChan) + 1)
                 PROVE  Few(Late(i)')
    <3>1. Len(pagesChan') = Len(pagesChan) + 1
      BY <2>1, AppendProperties DEF SendPage
    <3>2. Receiving' => Receiving
      BY <2>1 DEF SendPage, Receiving
    <3> QED
      BY <3>1, <3>2 DEF FewLate
  <2>3. /\ Len(pagesChan) \in Nat
        /\ \A j \in 1..Len(pagesChan) : pagesChan'[j] = pagesChan[j]
        /\ pagesChan'[Len(pagesChan) + 1] = n
    BY <2>1, AppendProperties, LenProperties DEF SendPage
  <2>4. UNCHANGED <<startPage, page, Handed>>
    BY <2>1 DEF SendPage, Handed
  <2>5. CASE i \in 1..Len(pagesChan)
    <3>1. \A j \in 1..(i - 1) : pagesChan'[j] = pagesChan[j]
      BY <2>3, <2>5
    <3>2. Late(i)' = Late(i)
      BY <2>3, <2>4, <2>5, <3>1 DEF Late
    <3> QED
      BY <1>1, <2>2, <2>5, <3>2
  <2>6. CASE i = Len(pagesChan) + 1
    <3>1. Late(i)' \subseteq fetching \ {n}
      <4>1. SUFFICES ASSUME NEW p \in startPage..(n - 1),
                            p \notin Handed, p # page, p \notin ToSet(pagesChan)
                     PROVE  p \in fetching \ {n}
        <5>1. \A q : q \in ToSet(pagesChan) => \E j \in 1..(i - 1) : pagesChan'[j] = q
          BY <2>3, <2>6, LenProperties DEF ToSet
        <5> QED
          BY <2>3, <2>4, <2>6, <5>1 DEF Late
      <4>2. p \in startPage..(pageNum - 1) /\ p # n
        BY <4>1 DEF Launched
      <4> QED
        BY <2>2, <4>1, <4>2 DEF Accounted
    <3>2. IsFiniteSet(fetching \ {n}) /\ Cardinality(fetching \ {n}) = Cardinality(fetching) - 1
      BY FS_RemoveElement DEF SlotsCounted
    <3>3. Cardinality(fetching) \in Nat /\ Cardinality(leaving) \in Nat
      BY FS_CardinalityType DEF SlotsCounted
    <3>4. Few(fetching \ {n})
      BY <3>2, <3>3 DEF SlotsCounted
    <3> QED
      BY <3>1, <3>2, <3>4, SmallerBound
  <2> QED
    BY <2>2, <2>3, <2>5, <2>6
<1>10. CASE ReceivePage
  <2>1. /\ Len(pagesChan) \in Nat \ {0}
        /\ Len(pagesChan') = Len(pagesChan) - 1
        /\ \A j \in 1..Len(pagesChan') : pagesChan'[j] = pagesChan[j + 1]
        /\ page' = pagesChan[1]
    BY <1>10, HeadTailProperties, EmptySeq DEF ReceivePage
  <2>2. /\ Receiving /\ page = NoPage
        /\ UNCHANGED <<startPage, Handed>>
    BY <1>10 DEF ReceivePage, Receiving, Handed, Phases
  <2>3. SUFFICES ASSUME NEW i \in 1..Len(pagesChan')
                 PROVE  Few(Late(i)')
    BY DEF FewLate
  <2>4. i + 1 \in 1..Len(pagesChan) /\ pagesChan'[i] = pagesChan[i + 1]
    BY <2>1
  <2>5. Late(i)' \subseteq Late(i + 1)
    <3>1. SUFFICES ASSUME NEW p \in startPage..(pagesChan[i + 1] - 1),
                          p \notin Handed, p # page',
                          \A j \in 1..(i - 1) : pagesChan'[j] # p
                   PROVE  p \in Late(i + 1)
      BY <2>2, <2>4 DEF Late
    <3>2. p # page
      BY <1>10, <2>2, <2>4, <1>1 DEF ReceivePage, Phases
    <3>3. \A j \in 1..i : pagesChan[j] # p
      <4>1. SUFFICES ASSUME NEW j \in 1..i, j # 1
                     PROVE  pagesChan[j] # p
        BY <2>1, <3>1
      <4>2. PICK k \in 1..(i - 1) : k \in 1..Len(pagesChan') /\ k + 1 = j
        <5>1. j - 1 \in 1..(i - 1) /\ j - 1 \in 1..Len(pagesChan') /\ (j - 1) + 1 = j
          BY <2>1, <4>1
        <5> QED
          BY <5>1
      <4>3. pagesChan'[k] = pagesChan[j] /\ pagesChan'[k] # p
        BY <2>1, <3>1, <4>2
      <4> QED
        BY <4>3
    <3> QED
      BY <3>1, <3>2, <3>3 DEF Late
  <2> QED
    BY <1>1, <2>2, <2>4, <2>5, SmallerBound
<1> QED
  BY <1>3, <1>4, <1>5, <1>6, <1>7, <1>8, <1>9, <1>10, Steps

LEMMA NextCompleted ==
  ASSUME TypeOK, Launched, Phases, Accounted, CompletedIsHanded, [Next]_vars
  PROVE  CompletedIsHanded'
<1> USE DEF CompletedIsHanded, TypeOK, vars, durable, main, fetchers, Page, NoPage
<1>0. Handed \subseteq Handed'
  BY HandedGrows
<1>1. CASE FinishCategory
  <2>1. /\ fetching = {} /\ pageNum = totalPages + 1
        /\ page = NoPage /\ startPage # NoPage
        /\ pagesChan = << >>
        /\ UNCHANGED <<startPage, totalPages>>
    BY <1>1 DEF FinishCategory, Launched, Phases
  <2>2. ToSet(pagesChan) = {}
    BY <2>1 DEF ToSet
  <2>3. \A p \in startPage..(pageNum - 1) : p \in Handed
    BY <1>1, <2>1, <2>2 DEF FinishCategory, Accounted, Receiving
  <2>4. pageNum - 1 = totalPages
    BY <2>1
  <2> QED
    BY <1>0, <2>1, <2>3, <2>4
<1>2. CASE GetLastProcessedPage \/ FetchFirstPage \/ ReceivePage \/ AddPageTask \/ Restart
  BY <1>2 DEF GetLastProcessedPage, FetchFirstPage, ReceivePage, AddPageTask, Restart
<1>3. CASE UNCHANGED main
  BY <1>0, <1>3
<1> QED
  BY <1>1, <1>2, <1>3, Steps
  DEF LaunchFetcher, SendPage, FailPage, ReleaseSlot, ClosePagesChan

LEMMA NextGap ==
  ASSUME TypeOK, Launched, Phases, Accounted, FewLate, CheckpointGap, CompletedIsHanded,
         [Next]_vars
  PROVE  CheckpointGap'
<1> USE CrawlAssumption
    DEF CrawlAssumption, CheckpointGap, TypeOK, vars, durable, main, fetchers, Page, NoPage
<1>0. Handed \subseteq Handed'
  BY HandedGrows
<1>a. ASSUME Overtaken' = {}
      PROVE  CheckpointGap'
  BY <1>a, FS_EmptySet
<1>1. IsFiniteSet(Overtaken)
  <2>1. Overtaken \subseteq startPage..(progress - 1) /\ progress - 1 \in Int /\ startPage \in Int
    BY DEF Overtaken
  <2> HIDE DEF Overtaken
  <2> QED
    BY <2>1, FiniteLate
<1>2. CASE UNCHANGED <<startPage, progress>>
  <2>1. Overtaken' \subseteq Overtaken
    BY <1>0, <1>2 DEF Overtaken
  <2> QED
    BY <1>1, <1>2, <2>1, SmallerBound
<1>3. CASE GetLastProcessedPage
  <2>1. SUFFICES ASSUME startPage' # startPage
                 PROVE  Overtaken' = {}
    BY <1>a, <1>2, <1>3 DEF GetLastProcessedPage
  <2>2. progress' = progress /\ startPage' = IF progress = 0 THEN 1 ELSE progress
    BY <1>3, <2>1 DEF GetLastProcessedPage
  <2>3. \A a \in Nat : (IF a = 0 THEN 1 ELSE a)..(a - 1) = {}
    OBVIOUS
  <2> QED
    BY <2>2, <2>3 DEF Overtaken
<1>4. CASE ReceivePage
  <2>1. SUFFICES ASSUME progress' # progress
                 PROVE  Cardinality(Overtaken') <= MaxWorkers - 1
    BY <1>2, <1>4 DEF ReceivePage
  <2>2. /\ page' = pagesChan[1] /\ pagesChan[1] \in Page
        /\ 1 \in 1..Len(pagesChan)
        /\ startPage' = startPage /\ Handed' = Handed
        /\ progress' = MaxOf(0, PageNumber(page') - MaxWorkers)
    <3>1. pagesChan[1] \in Page /\ 1 \in 1..Len(pagesChan) /\ Head(pagesChan) = pagesChan[1]
      BY <1>4, EmptySeq, ElementOfSeq DEF ReceivePage
    <3> QED
      BY <1>4, <2>1, <3>1 DEF ReceivePage, SetLastProcessedPage, Handed
  <2>3. PICK first \in Page : first = pagesChan[1]
    BY <2>2
  <2>4. progress' = 0 \/ (progress' = first - MaxWorkers /\ first - MaxWorkers \in Nat)
    <3>1. PageNumber(first) = 0 \/ PageNumber(first) = first
      BY DEF PageNumber
    <3> QED
      BY <2>2, <2>3, <3>1 DEF MaxOf
  <2>5. Overtaken' \subseteq Late(1)
    <3>1. SUFFICES ASSUME NEW p \in startPage..(progress' - 1), p \notin Handed
                   PROVE  p \in Late(1)
      BY <2>2 DEF Overtaken
    <3>2. startPage # NoPage /\ page = NoPage
      BY <1>4 DEF ReceivePage, Phases
    <3>3. \A q \in startPage..(0 - 1) : FALSE
      OBVIOUS
    <3>4. progress' = first - MaxWorkers /\ p \in startPage..(first - MaxWorkers - 1)
      BY <2>4, <3>1, <3>3
    <3>5. p \in startPage..(first - 1) /\ p # page
      BY <3>2, <3>4
    <3>6. \A j \in 1..(1 - 1) : FALSE
      OBVIOUS
    <3> QED
      BY <2>3, <3>1, <3>5, <3>6 DEF Late
  <2>6. IsFiniteSet(Late(1)) /\ Cardinality(Late(1)) <= MaxWorkers - 1
    <3>1. Late(1) \subseteq startPage..(first - 1) /\ startPage \in Int /\ first - 1 \in Int
      BY <2>3 DEF Late
    <3>2. Cardinality(Late(1)) <= MaxWorkers - 1
      BY <1>4, <2>2 DEF FewLate, Receiving, ReceivePage
    <3> HIDE DEF Late
    <3> QED
      BY <3>1, <3>2, FiniteLate
  <2> QED
    BY <2>5, <2>6, SmallerBound
<1>5. CASE FinishCategory
  <2>1. SUFFICES ASSUME progress' = totalPages
                 PROVE  Overtaken' = {}
    BY <1>a, <1>2, <1>5 DEF FinishCategory, SetLastProcessedPage
  <2>2. CompletedIsHanded'
    BY NextCompleted
  <2>3. \A p \in startPage..totalPages : p \in Handed'
    BY <1>5, <2>2 DEF FinishCategory, CompletedIsHanded
  <2>4. UNCHANGED startPage
    BY <1>5 DEF FinishCategory
  <2> QED
    BY <2>1, <2>3, <2>4 DEF Overtaken
<1>6. CASE Restart
  BY <1>6 DEF Restart
<1> QED
  BY <1>2, <1>3, <1>4, <1>5, <1>6, Steps
  DEF FetchFirstPage, LaunchFetcher, SendPage, FailPage, ReleaseSlot, ClosePagesChan, AddPageTask

-----------------------------------------------------------------------------
(* The theorems.                                                           *)

LEMMA InitInv == Init => TypeOK /\ CrawlInv
<1> SUFFICES ASSUME Init
             PROVE  TypeOK /\ CrawlInv
  OBVIOUS
<1> USE CrawlAssumption, FS_EmptySet DEF CrawlAssumption, Init, NoPage
<1>1. SlotsCounted
  BY DEF SlotsCounted
<1>2. Launched /\ Phases /\ Room /\ CheckpointGap /\ CompletedIsHanded
  BY DEF Launched, Phases, Room, CheckpointGap, CompletedIsHanded
<1>3. Accounted /\ FewLate
  BY DEF Accounted, FewLate, Receiving
<1> QED
  BY <1>1, <1>2, <1>3, InitType DEF CrawlInv

LEMMA NextInv ==
  ASSUME TypeOK, CrawlInv, [Next]_vars
  PROVE  TypeOK' /\ CrawlInv'
<1> USE DEF CrawlInv
<1>1. TypeOK' /\ SlotsCounted' /\ Launched' /\ Phases'
  BY NextType, NextSlots, NextLaunched, NextPhases
<1>2. Accounted' /\ FewLate' /\ Room'
  BY NextAccounted, NextFewLate, NextRoom
<1>3. CheckpointGap' /\ CompletedIsHanded'
  BY NextGap, NextCompleted
<1> QED
  BY <1>1, <1>2, <1>3

\* Every variable of the crawl stays within its type, in particular the
\* semaphore is never released more often than it was taken.
THEOREM TypeCorrect == Spec => []TypeOK
<1>1. TypeOK /\ CrawlInv /\ [Next]_vars => TypeOK' /\ CrawlInv'
  BY NextInv
<1> QED
  BY <1>1, InitInv, PTL DEF Spec

\* The accounting of slots, goroutines and pages that the crawl rests on holds
\* in every state.
THEOREM CrawlInvariant == Spec => []CrawlInv
<1>1. TypeOK /\ CrawlInv /\ [Next]_vars => TypeOK' /\ CrawlInv'
  BY NextInv
<1> QED
  BY <1>1, InitInv, PTL DEF Spec

\* The saved resume page never passes more pages of a run that are not in Redis
\* than there are other slots of the semaphore: MaxWorkers - 1.
THEOREM GapBounded == Spec => []CheckpointGap
BY CrawlInvariant, PTL DEF CrawlInv

\* A category that reports "Completed" has handed over every page from its start
\* page to the last one.
THEOREM CompletedHanded == Spec => []CompletedIsHanded
BY CrawlInvariant, PTL DEF CrawlInv

LEMMA RoomSuffices ==
  ASSUME TypeOK, CrawlInv
  PROVE  SendNeverBlocks
<1> SUFFICES ASSUME fetching # {}
             PROVE  Len(pagesChan) < totalPages
  BY DEF SendNeverBlocks
<1>1. Cardinality(fetching) \in Nat \ {0} /\ Len(pagesChan) \in Nat
  BY FS_CardinalityType, FS_EmptySet, LenProperties DEF CrawlInv, SlotsCounted, TypeOK
<1>2. startPage # 0 /\ pageNum \in (startPage + 1)..(totalPages + 1)
  BY DEF CrawlInv, Launched, NoPage
<1>3. Len(pagesChan) + Cardinality(fetching) <= pageNum - startPage
  BY DEF CrawlInv, Launched, Room
<1> QED
  BY <1>1, <1>2, <1>3 DEF TypeOK

\* The buffered channel always has room for a fetcher's page, whether or not
\* anybody still receives from it.
THEOREM SendsNeverBlock == Spec => []SendNeverBlocks
BY TypeCorrect, CrawlInvariant, RoomSuffices, PTL

LEMMA NextBelowStart ==
  ASSUME TypeOK, CrawlInv, CrawlInv', NoPageSkipped, BelowStart, MaxWorkers = 1, [Next]_vars
  PROVE  NoPageSkipped' /\ BelowStart'
<1> USE DEF TypeOK, vars, durable, main, fetchers, NoPage
<1>0. Handed \subseteq Handed'
  BY HandedGrows
<1>1. BelowStart'
  <2>1. CASE GetLastProcessedPage
    <3>1. SUFFICES ASSUME startPage' # startPage
                   PROVE  \A p \in 1..(startPage' - 1) : p \in Handed
      BY <1>0, <2>1 DEF BelowStart, GetLastProcessedPage
    <3>2. startPage' = 1 \/ startPage' = progress
      BY <2>1, <3>1 DEF GetLastProcessedPage
    <3>3. \A p \in 1..(1 - 1) : FALSE
      OBVIOUS
    <3> QED
      BY <3>2, <3>3 DEF NoPageSkipped
  <2>2. CASE Restart
    BY <2>2 DEF Restart, BelowStart
  <2>3. CASE UNCHANGED startPage
    BY <1>0, <2>3 DEF BelowStart
  <2> QED
    BY <2>1, <2>2, <2>3, Steps
    DEF FetchFirstPage, LaunchFetcher, SendPage, FailPage, ReleaseSlot, ClosePagesChan,
        ReceivePage, AddPageTask, FinishCategory
<1>2. progress' \in Nat
  BY NextType DEF CrawlInv
<1>3. PICK last \in Nat : last = progress'
  BY <1>2
<1>4. CASE UNCHANGED progress
  <2>1. \A p \in 1..(last - 1) : p \in Handed'
    BY <1>0, <1>3, <1>4 DEF NoPageSkipped
  <2> QED
    BY <1>1, <1>3, <2>1 DEF NoPageSkipped
<1>5. CASE ReceivePage \/ FinishCategory
  <2>1. UNCHANGED startPage /\ startPage # 0
    BY <1>5 DEF ReceivePage, FinishCategory, CrawlInv, Phases
  <2>2. Overtaken' = {p \in startPage..(last - 1) : p \notin Handed'}
    BY <1>3, <2>1 DEF Overtaken
  <2>3. Overtaken' = {}
    <3>1. Cardinality(Overtaken') <= MaxWorkers - 1
      BY <2>1 DEF CrawlInv, CheckpointGap
    <3>2. IsFiniteSet(Overtaken')
      <4>1. Overtaken' \subseteq startPage..(last - 1) /\ last - 1 \in Int /\ startPage \in Int
        BY <2>2
      <4> QED
        BY <4>1, FiniteLate
    <3>3. Cardinality(Overtaken') \in Nat
      BY <3>2, FS_CardinalityType
    <3> QED
      BY <3>1, <3>2, <3>3, FS_EmptySet
  <2>4. \A p \in 1..(last - 1) : p < startPage \/ p \in startPage..(last - 1)
    OBVIOUS
  <2>5. \A p \in 1..(last - 1) : p \in Handed'
    <3>1. SUFFICES ASSUME NEW p \in 1..(last - 1)
                   PROVE  p \in Handed'
      OBVIOUS
    <3>2. CASE p < startPage
      BY <1>0, <2>1, <3>2 DEF BelowStart
    <3>3. CASE p \in startPage..(last - 1)
      BY <2>2, <2>3, <3>3
    <3> QED
      BY <2>4, <3>2, <3>3
  <2> QED
    BY <1>1, <1>3, <2>5 DEF NoPageSkipped
<1> QED
  BY <1>1, <1>4, <1>5, Steps
  DEF GetLastProcessedPage, FetchFirstPage, LaunchFetcher, SendPage, FailPage, ReleaseSlot,
      ClosePagesChan, AddPageTask, Restart

\* With max_workers = 1 a restarted crawl leaves no page out: below the saved
\* resume page every page is in a stream or was given up by its fetcher.
THEOREM OneWorkerSkipsNothing ==
  ASSUME MaxWorkers = 1
  PROVE  Spec => []NoPageSkipped
<1>1. Init => NoPageSkipped /\ BelowStart
  BY DEF Init, NoPageSkipped, BelowStart, NoPage
<1>2. /\ TypeOK /\ CrawlInv /\ CrawlInv'
      /\ NoPageSkipped /\ BelowStart
      /\ [Next]_vars
      => NoPageSkipped' /\ BelowStart'
  BY NextBelowStart
<1> QED
  BY <1>1, <1>2, TypeCorrect, CrawlInvariant, PTL DEF Spec

-----------------------------------------------------------------------------
(* The crawl implements the resumable scan.                                *)

LEMMA ScanStep ==
  ASSUME TypeOK, CrawlInv, TypeOK', CheckpointGap', [Next]_vars
  PROVE  Scan!Next \/ UNCHANGED <<Handed, progress, startPage>>
<1> USE DEF vars, durable, main, fetchers
<1>1. CASE GetLastProcessedPage
  BY <1>1 DEF GetLastProcessedPage, CrawlInv, Phases, NoPage, Handed, Scan!Next, Scan!Resume
<1>2. CASE \E p \in fetching \union leaving : FailPage(p)
  <2>1. UNCHANGED <<progress, startPage>>
    BY <1>2 DEF FailPage
  <2> QED
    BY <2>1, HandedGrows DEF Scan!Next, Scan!HandOver
<1>3. CASE AddPageTask
  <2>1. UNCHANGED <<progress, startPage>>
    BY <1>3 DEF AddPageTask
  <2> QED
    BY <2>1, HandedGrows DEF Scan!Next, Scan!HandOver
<1>4. CASE ReceivePage \/ FinishCategory
  <2>1. UNCHANGED <<Handed, startPage>> /\ startPage # 0
    BY <1>4 DEF ReceivePage, FinishCategory, Handed, CrawlInv, Phases, NoPage
  <2>2. progress' \in Nat
    BY DEF TypeOK
  <2>3. Overtaken' = Scan!LeftOut(progress')
    BY <2>1 DEF Overtaken, Scan!LeftOut
  <2>4. Cardinality(Overtaken') <= MaxWorkers - 1
    BY <2>1 DEF CheckpointGap, NoPage
  <2>5. Scan!Cardinality(Scan!LeftOut(progress')) <= MaxWorkers - 1
    <3>1. Cardinality(Overtaken') = Scan!Cardinality(Overtaken')
      BY DEF Cardinality, Scan!Cardinality, IsFiniteSet, Scan!IsFiniteSet
    <3> QED
      BY <2>3, <2>4, <3>1
  <2>6. Scan!MoveMark
    BY <2>1, <2>2, <2>5 DEF Scan!MoveMark
  <2> QED
    BY <2>6 DEF Scan!Next
<1>5. CASE Restart
  BY <1>5 DEF Restart, Handed, NoPage, Scan!Next, Scan!Stop
<1>6. CASE UNCHANGED <<Handed, progress, startPage>>
  BY <1>6
<1> QED
  BY <1>1, <1>2, <1>3, <1>4, <1>5, <1>6, Steps
  DEF FetchFirstPage, LaunchFetcher, SendPage, ReleaseSlot, ClosePagesChan, Handed

\* Whoever restarts the crawl may rely on the resumable scan: what it handed over
\* stays handed over, a run resumes at the saved page, and that page moves past
\* at most MaxWorkers - 1 pages of the run that it has not handed over.
THEOREM CrawlImplementsScan == Spec => ImplementsScan
<1>1. Init => Scan!Init
  BY DEF Init, Handed, NoPage, Scan!Init
<1>2. /\ TypeOK /\ CrawlInv /\ TypeOK' /\ CrawlInv' /\ [Next]_vars
      => [Scan!Next]_(Scan!scanVars)
  BY ScanStep DEF CrawlInv, Scan!scanVars
<1> QED
  BY <1>1, <1>2, TypeCorrect, CrawlInvariant, PTL DEF Spec, ImplementsScan, Scan!Spec

-----------------------------------------------------------------------------
(* A run comes to its end.  What CrawlEnds and FetchersExit rest on        *)
(* besides fairness: as long as anything is to be done some goroutine can  *)
(* go on, and every step brings the end nearer.                            *)

\* The run has a channel, or its goroutine has failed.
UnderWay == pc \in {"range", "adding", "done", "failed"}

\* At least as many as the steps that are left to the run: five for every page that is not
\* launched yet (launch, send, release, receive, add) and for the channel that is not closed,
\* and so on.
Unlaunched == IF launcher = "running" THEN totalPages + 2 - pageNum ELSE 0
StepsLeft ==
  5 * Unlaunched + 4 * Cardinality(fetching) + Cardinality(leaving) + 2 * Len(pagesChan)
  + (IF pc = "adding" THEN 2 ELSE IF pc = "range" THEN 1 ELSE 0)

\* The guards of the steps of a run.
CanGoOn ==
  \/ pc = "adding"
  \/ pc = "range" /\ (pagesChan # << >> \/ launcher = "closed")
  \/ launcher = "running" /\ pageNum <= totalPages /\ semaphore < MaxWorkers
  \/ launcher = "running" /\ pageNum > totalPages /\ fetching \union leaving = {}
  \/ fetching # {} /\ Len(pagesChan) < totalPages
  \/ leaving # {}

\* A run that stands still has no fetchers, and if it is not over it waits for a channel
\* that nobody is there to close: it started at its last page.
StandsOnlyUnclosed ==
  ~CanGoOn => /\ fetching \union leaving = {}
              /\ launcher # "running"
              /\ pc = "range" => launcher = "none" /\ startPage >= totalPages

\* A step of a run uses up at least one of those that are left.
WindsDown == UnderWay /\ (restarts' = restarts) => StepsLeft' < StepsLeft

\* There is a launching goroutine whenever there is something to launch.
Launching == pc \in {"range", "adding"} /\ launcher = "none" => startPage >= totalPages

LEMMA NextLaunching ==
  ASSUME TypeOK, CrawlInv, Launching, [Next]_vars
  PROVE  Launching'
<1> USE DEF Launching, TypeOK, vars, durable, main, fetchers
<1>1. CASE FetchFirstPage
  <2>1. startPage \in Nat /\ startPage' = startPage
    BY <1>1 DEF FetchFirstPage
  <2>2. pc' = "range" => totalPages' \in Nat
    BY <1>1, CrawlAssumption DEF FetchFirstPage, CrawlAssumption
  <2> QED
    BY <1>1, <2>1, <2>2 DEF FetchFirstPage
<1>2. CASE GetLastProcessedPage \/ FinishCategory \/ Restart
  BY <1>2 DEF GetLastProcessedPage, FinishCategory, Restart
<1>3. CASE LaunchFetcher \/ ClosePagesChan \/ ReceivePage \/ AddPageTask \/ UNCHANGED vars
  BY <1>3 DEF LaunchFetcher, ClosePagesChan, ReceivePage, AddPageTask
<1>4. CASE \E p \in fetching \union leaving : SendPage(p) \/ FailPage(p) \/ ReleaseSlot(p)
  BY <1>4 DEF SendPage, FailPage, ReleaseSlot
<1> QED
  BY <1>1, <1>2, <1>3, <1>4, Steps

\* The only way for a crawl to stand still is a category that starts at its last page
\* (bricklink.go:174 makes the channel, only the goroutine of :179 closes it): no fetcher is
\* ever stuck at the channel, nor the launching goroutine at the semaphore.
THEOREM NothingElseStands == Spec => []StandsOnlyUnclosed
<1>1. Init => Launching
  BY DEF Init, Launching
<1>2. TypeOK /\ CrawlInv /\ Launching /\ [Next]_vars => Launching'
  BY NextLaunching
<1>3. TypeOK /\ CrawlInv /\ Launching => StandsOnlyUnclosed
  <2> SUFFICES ASSUME TypeOK, CrawlInv, Launching, ~CanGoOn
               PROVE  /\ fetching \union leaving = {}
                      /\ launcher # "running"
                      /\ pc = "range" => launcher = "none" /\ startPage >= totalPages
    BY DEF StandsOnlyUnclosed
  <2>1. fetching \union leaving = {}
    BY RoomSuffices DEF CanGoOn, SendNeverBlocks
  <2>2. Cardinality(fetching) = 0 /\ Cardinality(leaving) = 0
    BY <2>1, FS_EmptySet
  <2>3. semaphore < MaxWorkers
    BY <2>2, CrawlAssumption DEF CrawlInv, SlotsCounted, CrawlAssumption
  <2>4. launcher # "running"
    BY <2>1, <2>3 DEF CanGoOn, TypeOK, Page
  <2> QED
    BY <2>1, <2>4 DEF CanGoOn, TypeOK, Launching
<1> QED
  BY <1>1, <1>2, <1>3, TypeCorrect, CrawlInvariant, PTL DEF Spec

LEMMA PartsOfStepsLeft ==
  ASSUME TypeOK, CrawlInv
  PROVE  /\ Cardinality(fetching) \in Nat /\ Cardinality(leaving) \in Nat
         /\ Len(pagesChan) \in Nat
         /\ Unlaunched \in Nat /\ (launcher = "running" => Unlaunched # 0)
         /\ StepsLeft \in Nat
<1>1. Cardinality(fetching) \in Nat /\ Cardinality(leaving) \in Nat
  BY FS_CardinalityType DEF CrawlInv, SlotsCounted
<1>2. Len(pagesChan) \in Nat
  BY LenProperties DEF TypeOK
<1>3. Unlaunched \in Nat /\ (launcher = "running" => Unlaunched # 0)
  BY DEF Unlaunched, TypeOK, Page, CrawlInv, Launched
<1> QED
  BY <1>1, <1>2, <1>3 DEF StepsLeft

\* A fetcher that leaves `fetching` for `leaving`.
LEMMA StepsOfFetcher ==
  ASSUME TypeOK, CrawlInv, NEW p \in fetching,
         fetching' = fetching \ {p}, leaving' = leaving \union {p}
  PROVE  /\ Cardinality(fetching') = Cardinality(fetching) - 1
         /\ Cardinality(leaving') = Cardinality(leaving) + 1
<1>1. IsFiniteSet(fetching) /\ IsFiniteSet(leaving) /\ p \notin leaving
  BY DEF CrawlInv, SlotsCounted
<1> QED
  BY <1>1, FS_AddElement, FS_RemoveElement

LEMMA StepWindsDown ==
  ASSUME TypeOK, CrawlInv, Next
  PROVE  WindsDown
<1> SUFFICES ASSUME UnderWay, restarts' = restarts
             PROVE  StepsLeft' < StepsLeft
  BY DEF WindsDown
<1> USE DEF StepsLeft, durable, main, fetchers
<1>0. /\ Cardinality(fetching) \in Nat /\ Cardinality(leaving) \in Nat
      /\ Len(pagesChan) \in Nat /\ Unlaunched \in Nat
  BY PartsOfStepsLeft
<1>1. CASE LaunchFetcher
  <2>1. pageNum \notin fetching
    BY <1>1 DEF LaunchFetcher, CrawlInv, Launched, TypeOK, Page
  <2>2. Cardinality(fetching') = Cardinality(fetching) + 1
    BY <1>1, <2>1, FS_AddElement DEF LaunchFetcher, CrawlInv, SlotsCounted
  <2>3. Unlaunched' = Unlaunched - 1
    BY <1>1 DEF LaunchFetcher, Unlaunched, TypeOK, Page
  <2> QED
    BY <1>0, <1>1, <2>2, <2>3 DEF LaunchFetcher
<1>2. ASSUME NEW p \in fetching \union leaving, SendPage(p) PROVE StepsLeft' < StepsLeft
  <2>1. /\ Cardinality(fetching') = Cardinality(fetching) - 1
        /\ Cardinality(leaving') = Cardinality(leaving) + 1
    BY <1>2, StepsOfFetcher DEF SendPage
  <2>2. Len(pagesChan') = Len(pagesChan) + 1
    <3>1. pagesChan \in Seq(Page) /\ p \in Page
      BY <1>2 DEF SendPage, TypeOK
    <3> QED
      BY <1>2, <3>1, AppendProperties DEF SendPage
  <2>3. Unlaunched' = Unlaunched /\ UNCHANGED <<launcher, pc>>
    BY <1>2 DEF SendPage, Unlaunched
  <2> QED
    BY <1>0, <2>1, <2>2, <2>3
<1>3. ASSUME NEW p \in fetching \union leaving, FailPage(p) PROVE StepsLeft' < StepsLeft
  <2>1. /\ Cardinality(fetching') = Cardinality(fetching) - 1
        /\ Cardinality(leaving') = Cardinality(leaving) + 1
    BY <1>3, StepsOfFetcher DEF FailPage
  <2>2. Unlaunched' = Unlaunched /\ UNCHANGED <<launcher, pc, pagesChan>>
    BY <1>3 DEF FailPage, Unlaunched
  <2> QED
    BY <1>0, <2>1, <2>2
<1>4. ASSUME NEW p \in fetching \union leaving, ReleaseSlot(p) PROVE StepsLeft' < StepsLeft
  <2>1. Cardinality(leaving') = Cardinality(leaving) - 1
    BY <1>4, FS_RemoveElement DEF ReleaseSlot, CrawlInv, SlotsCounted
  <2>2. Unlaunched' = Unlaunched /\ UNCHANGED <<launcher, pc, pagesChan, fetching>>
    BY <1>4 DEF ReleaseSlot, Unlaunched
  <2> QED
    BY <1>0, <2>1, <2>2
<1>5. CASE ClosePagesChan
  <2>1. Unlaunched' = 0 /\ UNCHANGED <<pc, pagesChan, fetching, leaving>>
    BY <1>5 DEF ClosePagesChan, Unlaunched
  <2>2. Unlaunched # 0
    BY <1>5, PartsOfStepsLeft DEF ClosePagesChan
  <2> QED
    BY <1>0, <2>1, <2>2
<1>6. CASE ReceivePage
  <2>1. Len(pagesChan') = Len(pagesChan) - 1
    BY <1>6, HeadTailProperties DEF ReceivePage, TypeOK
  <2>2. Unlaunched' = Unlaunched /\ UNCHANGED <<launcher, fetching, leaving>>
    BY <1>6 DEF ReceivePage, Unlaunched
  <2> QED
    BY <1>0, <1>6, <2>1, <2>2 DEF ReceivePage
<1>7. CASE AddPageTask \/ FinishCategory
  <2>1. Unlaunched' = Unlaunched /\ UNCHANGED <<launcher, fetching, leaving, pagesChan>>
    BY <1>7 DEF AddPageTask, FinishCategory, Unlaunched
  <2> QED
    BY <1>0, <1>7, <2>1 DEF AddPageTask, FinishCategory
<1>8. ~(GetLastProcessedPage \/ FetchFirstPage \/ Restart)
  BY DEF UnderWay, GetLastProcessedPage, FetchFirstPage, Restart, TypeOK
<1> QED
  BY <1>1, <1>2, <1>3, <1>4, <1>5, <1>6, <1>7, <1>8
  DEF Next, CategoryStep, LauncherStep, FetcherStep

\* A run takes finitely many steps, however many pages and workers there are and whatever
\* fails (service.go:84 to 109, bricklink.go:178 to 225): each of them lowers the number of
\* those left.
THEOREM RunsWindDown == Spec => [](StepsLeft \in Nat) /\ [][WindsDown]_vars
<1>1. TypeOK /\ CrawlInv => StepsLeft \in Nat
  BY PartsOfStepsLeft
<1>2. TypeOK /\ CrawlInv /\ [Next]_vars => [WindsDown]_vars
  BY StepWindsDown
<1> QED
  BY <1>1, <1>2, TypeCorrect, CrawlInvariant, PTL DEF Spec

=============================================================================
