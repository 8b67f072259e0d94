------------------------- MODULE ApplicationProofs -------------------------
(***************************************************************************)
(* Theorems about Application, for any categories, streams, configuration  *)
(* files and number of restarts.  TypeOK is inductive on its own;          *)
(* ApplicationInv is inductive together with it and contains the others.   *)
(***************************************************************************)
EXTENDS Application, TLAPS

USE DEF cfg, crawling, vars

-----------------------------------------------------------------------------
(* Types.                                                                  *)

LEMMA InitTypes == ASSUME Init PROVE TypeOK
<1>1. session \in BOOLEAN /\ groups \subseteq Stream /\ file \in File
  BY DEF Init
<1>2. starts \in 0..MaxStarts
  BY ApplicationAssumption DEF ApplicationAssumption, Init
<1>3. crawl \in [Category -> {"off"}]
  BY DEF Init
<1>4. resultsChan \subseteq Category /\ allResults \subseteq Category /\ launching \subseteq Category
  BY DEF Init
<1> QED BY <1>1, <1>2, <1>3, <1>4 DEF Init, TypeOK

LEMMA StartUpTypes == ASSUME TypeOK, StartUp PROVE TypeOK'
  BY DEF TypeOK, StartUp, Load, Connect, EnsureStreamsExist, NewBrickLinkClient, GetMainPage,
         PostLogin, GoTo, GoToOrDie

LEMMA CategoryTypes ==
  ASSUME TypeOK, NEW k \in Category, CategoryStep(k) PROVE TypeOK'
<1>1. CASE ReadProgress(k)
  BY <1>1 DEF TypeOK, ReadProgress, Proceed, ReturnError
<1>2. CASE FetchFirstPage(k)
  BY <1>2 DEF TypeOK, FetchFirstPage, Proceed, ReturnError
<1>3. CASE MakeSemaphore(k)
  BY <1>3 DEF TypeOK, MakeSemaphore
<1>4. CASE ReceivePage(k)
  BY <1>4 DEF TypeOK, ReceivePage, Proceed, ReturnError
<1>5. CASE FinishCategory(k)
  BY <1>5 DEF TypeOK, FinishCategory, Proceed
<1> QED BY <1>1, <1>2, <1>3, <1>4, <1>5 DEF CategoryStep

LEMMA NextTypes == ASSUME TypeOK, [Next]_vars PROVE TypeOK'
<1>1. CASE StartUp
  BY <1>1, StartUpTypes
<1>2. CASE StartParseAll
  BY <1>2 DEF TypeOK, StartParseAll
<1>3. CASE ParseAllReturns
  BY <1>3 DEF TypeOK, ParseAllReturns
<1>4. CASE RunWorkers
  BY <1>4 DEF TypeOK, RunWorkers
<1>5. CASE Restart
  <2>1. session' \in BOOLEAN /\ groups' \subseteq Stream /\ file' \in File
    BY <1>5 DEF Restart, TypeOK
  <2>2. starts' \in 0..MaxStarts
    BY <1>5, ApplicationAssumption DEF ApplicationAssumption, Restart, TypeOK
  <2>3. crawl' \in [Category -> {"off"}]
    BY <1>5 DEF Restart
  <2>4. resultsChan' \subseteq Category /\ allResults' \subseteq Category /\ launching' \subseteq Category
    BY <1>5 DEF Restart
  <2> QED BY <1>5, <2>1, <2>2, <2>3, <2>4 DEF Restart, TypeOK
<1>6. CASE \E k \in Category : CategoryStep(k)
  BY <1>6, CategoryTypes
<1>7. CASE UNCHANGED vars
  BY <1>7 DEF TypeOK
<1> QED BY <1>1, <1>2, <1>3, <1>4, <1>5, <1>6, <1>7 DEF Next

\* The state of the application has its types.
THEOREM TypeCorrect == Spec => []TypeOK
<1>1. Init => TypeOK
  BY InitTypes
<1>2. TypeOK /\ [Next]_vars => TypeOK'
  BY NextTypes
<1> QED BY <1>1, <1>2, PTL DEF Spec

-----------------------------------------------------------------------------
(* The inductive invariant.                                                *)

LEMMA InitInv == ASSUME Init PROVE ApplicationInv
  BY ApplicationAssumption
  DEF ApplicationAssumption, Init, ApplicationInv, Working, GroupsBeforeWork, LoginBeforeWork,
         PanicsOverFileOnly, ParseAllIsHonest

LEMMA Settings ==
  ASSUME TypeOK
  PROVE  /\ file.workers # Unset => file.workers \in Int /\ cfg.workers = file.workers
         /\ file.idle # Unset => file.idle \in Int /\ cfg.idle = file.idle
         /\ file.workers = Unset => cfg.workers = 10
         /\ file.idle = Unset => cfg.idle = 120
<1>1. \A n \in Number : n \in Int
  BY ApplicationAssumption DEF ApplicationAssumption
<1>2. file.workers \in Number \union {Unset} /\ file.idle \in Number \union {Unset}
  BY DEF TypeOK, File
<1>3. cfg.workers = Default(file.workers, 10) /\ cfg.idle = Default(file.idle, 120)
  BY DEF Unmarshalled
<1> QED BY <1>1, <1>2, <1>3 DEF Default

\* The three settings that make it panic, and what the file said where they come from.
LEMMA PanicsOverRate == ASSUME cfg.rate = 0 PROVE ~Sensible(file)
  BY DEF Unmarshalled, Default, Sensible

LEMMA PanicsOverWorkers == ASSUME TypeOK, cfg.workers <= 0 PROVE ~Sensible(file)
<1>1. file.workers # Unset /\ file.workers \in Int /\ file.workers <= 0
  BY Settings
<1> QED BY <1>1 DEF Sensible

\* A number of seconds that is positive and small enough is that many seconds.
LEMMA DurationOf ==
  ASSUME NEW n \in Int, 0 < n * Second, n * Second < Half PROVE Duration(n) = n * Second
<1>1. n * Second \in Nat /\ Half \in Nat
  BY ApplicationAssumption DEF ApplicationAssumption
<1>2. \A d \in Nat : d < Half => d % (2 * Half) = d
  BY <1>1
<1>3. (n * Second) % (2 * Half) = n * Second
  BY <1>1, <1>2
<1> QED BY <1>1, <1>3 DEF Duration

LEMMA PanicsOverIdle == ASSUME TypeOK, Duration(cfg.idle) <= 0 PROVE ~Sensible(file)
<1>1. CASE file.idle = Unset
  <2>1. 0 < 120 * Second /\ 120 * Second < Half
    BY ApplicationAssumption DEF ApplicationAssumption
  <2>2. Duration(120) = 120 * Second
    BY <2>1, DurationOf
  <2>3. 120 * Second \in Int
    BY ApplicationAssumption DEF ApplicationAssumption
  <2> QED BY <1>1, <2>1, <2>2, <2>3, Settings
<1>2. CASE file.idle # Unset
  <2> SUFFICES ASSUME file.idle > 0, file.idle * Second < Half PROVE FALSE
    BY <1>2 DEF Sensible
  <2>1. file.idle \in Int /\ cfg.idle = file.idle
    BY <1>2, Settings
  <2>2. Second \in Nat \ {0} /\ Half \in Nat
    BY ApplicationAssumption DEF ApplicationAssumption
  <2>3. \A m, n \in Int : m > 0 /\ n > 0 => m * n > 0
    OBVIOUS
  <2>4. 0 < file.idle * Second
    BY <2>1, <2>2, <2>3
  <2>5. Duration(file.idle) = file.idle * Second
    BY <2>1, <2>4, DurationOf
  <2> QED BY <2>1, <2>2, <2>4, <2>5
<1> QED BY <1>1, <1>2

\* Before main waits nothing works, and starting up changes nothing of the crawl.
LEMMA StartUpInv == ASSUME TypeOK, ApplicationInv, StartUp PROVE ApplicationInv'
<1>1. ~Working /\ UNCHANGED <<crawling, workers>>
  BY DEF StartUp, Load, Connect, EnsureStreamsExist, NewBrickLinkClient, GetMainPage, PostLogin,
         ApplicationInv
<1>2. ~Working'
  BY <1>1 DEF Working
<1>3. pc' = "wait" => groups' = Stream
  BY DEF StartUp, Load, Connect, EnsureStreamsExist, NewBrickLinkClient, GetMainPage, PostLogin,
         GoTo, GoToOrDie
<1>4. pc' \in {"ensure", "wait"} /\ cfg'.credentials => session'
  BY <1>1 DEF StartUp, Load, Connect, EnsureStreamsExist, NewBrickLinkClient, GetMainPage,
              PostLogin, GoTo, GoToOrDie, ApplicationInv
<1>5. PanicsOverFileOnly'
  <2>1. CASE NewBrickLinkClient
    <3>1. pc' = "panicked" => cfg.rate = 0 /\ UNCHANGED file
      BY <2>1 DEF NewBrickLinkClient, GoTo
    <3> QED BY <3>1, PanicsOverRate DEF PanicsOverFileOnly
  <2>2. CASE ~NewBrickLinkClient
    BY <2>2 DEF StartUp, Load, Connect, EnsureStreamsExist, GetMainPage, PostLogin, GoTo, GoToOrDie,
                PanicsOverFileOnly
  <2> QED BY <2>1, <2>2
<1> QED
  BY <1>1, <1>2, <1>3, <1>4, <1>5
  DEF ApplicationInv, GroupsBeforeWork, LoginBeforeWork, ParseAllIsHonest, Returned

\* A goroutine that goes on, or that returns an error.
LEMMA ProceedInv ==
  ASSUME TypeOK, ApplicationInv, NEW k \in Category, pc = "wait",
         crawl[k] \notin {"off", "done", "failed"},
         \/ \E next \in {"fetching", "receiving", "received", "lastPage", "hung"} : Proceed(k, next)
         \/ ReturnError(k),
         UNCHANGED <<file, groups, pc, session, resultsChan, parseAll, allResults, workers>>
  PROVE  ApplicationInv'
<1>1. parseAll = "waiting"
  BY DEF TypeOK, ApplicationInv, ParseAllIsHonest, Returned
<1>2. \A j \in Category : crawl'[j] # "off" /\ (crawl'[j] = "done" <=> crawl[j] = "done")
  BY <1>1 DEF TypeOK, Proceed, ReturnError, ApplicationInv
<1>3. groupErr' = NoError => \A j \in Category : crawl'[j] # "failed"
  BY ApplicationAssumption DEF ApplicationAssumption, TypeOK, Proceed, ReturnError, ApplicationInv
<1>4. groupErr' # NoError => crawl'[groupErr'] = "failed"
  BY DEF TypeOK, Proceed, ReturnError, ApplicationInv
<1> QED
  BY <1>1, <1>2, <1>3, <1>4
  DEF ApplicationInv, Working, GroupsBeforeWork, LoginBeforeWork, PanicsOverFileOnly,
      ParseAllIsHonest

LEMMA CategoryInv ==
  ASSUME TypeOK, ApplicationInv, NEW k \in Category, CategoryStep(k) PROVE ApplicationInv'
<1>1. CASE ReadProgress(k)
  BY <1>1, ProceedInv DEF ReadProgress
<1>2. CASE FetchFirstPage(k)
  BY <1>2, ProceedInv DEF FetchFirstPage
<1>3. CASE MakeSemaphore(k)
  <2>1. pc' # pc => cfg.workers <= 0 /\ pc' = "panicked"
    <3>1. cfg.workers \in Int
      BY Settings
    <3> QED BY <1>3, <3>1 DEF MakeSemaphore
  <2>2. pc = "wait" /\ pc' \in {"wait", "panicked"}
    BY <1>3 DEF MakeSemaphore
  <2>3. PanicsOverFileOnly'
    BY <1>3, <2>1, <2>2, PanicsOverWorkers DEF MakeSemaphore, PanicsOverFileOnly
  <2> QED
    BY <1>3, <2>2, <2>3
    DEF MakeSemaphore, ApplicationInv, Working, GroupsBeforeWork, LoginBeforeWork, ParseAllIsHonest,
        Returned
<1>4. CASE ReceivePage(k)
  <2>1. CASE cfg.workers = 0
    <3>1. ~Sensible(file)
      BY <2>1, PanicsOverWorkers
    <3> QED
      BY <1>4, <2>1, <3>1
      DEF ReceivePage, ApplicationInv, Working, GroupsBeforeWork, LoginBeforeWork,
          PanicsOverFileOnly, ParseAllIsHonest, Returned
  <2>2. CASE cfg.workers # 0
    BY <1>4, <2>2, ProceedInv DEF ReceivePage
  <2> QED BY <2>1, <2>2
<1>5. CASE FinishCategory(k)
  <2>1. parseAll = "waiting"
    BY <1>5 DEF FinishCategory, TypeOK, ApplicationInv, ParseAllIsHonest, Returned
  <2>2. crawl' = [crawl EXCEPT ![k] = "done"] /\ UNCHANGED groupErr
    BY <1>5 DEF FinishCategory, Proceed
  <2>3. resultsChan' = {j \in Category : crawl'[j] = "done"}
    BY <1>5, <2>1, <2>2 DEF FinishCategory, TypeOK, ApplicationInv
  <2>4. groupErr # NoError => groupErr # k
    BY <1>5 DEF FinishCategory, ApplicationInv
  <2>5. groupErr' # NoError => crawl'[groupErr'] = "failed"
    BY <2>2, <2>4 DEF TypeOK, ApplicationInv
  <2> QED
    BY <1>5, <2>1, <2>2, <2>3, <2>5
    DEF FinishCategory, TypeOK, ApplicationInv, Working, GroupsBeforeWork, LoginBeforeWork,
        PanicsOverFileOnly, ParseAllIsHonest
<1> QED BY <1>1, <1>2, <1>3, <1>4, <1>5 DEF CategoryStep

\* With no error kept nobody failed, so all are done and all results are there.
LEMMA ParseAllInv == ASSUME TypeOK, ApplicationInv, ParseAllReturns PROVE ApplicationInv'
<1>1. CASE groupErr = NoError
  <2>1. \A k \in Category : crawl[k] = "done"
    BY <1>1 DEF ParseAllReturns, Returned, ApplicationInv
  <2>2. resultsChan = Category
    BY <2>1 DEF ParseAllReturns, ApplicationInv
  <2> QED
    BY <1>1, <2>1, <2>2
    DEF ParseAllReturns, ApplicationInv, Working, GroupsBeforeWork, LoginBeforeWork,
        PanicsOverFileOnly, ParseAllIsHonest
<1>2. CASE groupErr # NoError
  BY <1>2
  DEF ParseAllReturns, ApplicationInv, Working, GroupsBeforeWork, LoginBeforeWork,
      PanicsOverFileOnly, ParseAllIsHonest, Returned
<1> QED BY <1>1, <1>2

LEMMA NextInv == ASSUME TypeOK, ApplicationInv, [Next]_vars PROVE ApplicationInv'
<1>1. CASE StartUp
  BY <1>1, StartUpInv
<1>2. CASE StartParseAll
  BY <1>2
  DEF StartParseAll, TypeOK, ApplicationInv, Working, GroupsBeforeWork, LoginBeforeWork,
      PanicsOverFileOnly, ParseAllIsHonest
<1>3. CASE ParseAllReturns
  BY <1>3, ParseAllInv
<1>4. CASE RunWorkers
  <2>1. Duration(cfg.idle) <= 0 => ~Sensible(file)
    BY PanicsOverIdle
  <2> QED
    BY <1>4, <2>1
    DEF RunWorkers, ApplicationInv, Working, GroupsBeforeWork, LoginBeforeWork,
        PanicsOverFileOnly, ParseAllIsHonest, Returned
<1>5. CASE Restart
  BY <1>5, ApplicationAssumption
  DEF ApplicationAssumption, Restart, ApplicationInv, Working, GroupsBeforeWork, LoginBeforeWork,
      PanicsOverFileOnly, ParseAllIsHonest
<1>6. CASE \E k \in Category : CategoryStep(k)
  BY <1>6, CategoryInv
<1>7. CASE UNCHANGED vars
  BY <1>7
  DEF ApplicationInv, Working, GroupsBeforeWork, LoginBeforeWork, PanicsOverFileOnly,
      ParseAllIsHonest, Returned
<1> QED BY <1>1, <1>2, <1>3, <1>4, <1>5, <1>6, <1>7 DEF Next

LEMMA Invariant == Spec => []ApplicationInv
<1>1. Init => ApplicationInv
  BY InitInv
<1>2. TypeOK /\ ApplicationInv /\ [Next]_vars => ApplicationInv'
  BY NextInv
<1> QED BY <1>1, <1>2, TypeCorrect, PTL DEF Spec

-----------------------------------------------------------------------------

\* No worker and no crawl before every stream has its group.
THEOREM GroupsComeFirst == Spec => []GroupsBeforeWork
<1>1. ApplicationInv => GroupsBeforeWork
  BY DEF ApplicationInv
<1> QED BY <1>1, Invariant, PTL

\* With credentials, no worker and no crawl without a session.
THEOREM LoginComesFirst == Spec => []LoginBeforeWork
<1>1. ApplicationInv => LoginBeforeWork
  BY DEF ApplicationInv
<1> QED BY <1>1, Invariant, PTL

\* What ParseAll reports is what happened, for any number of categories.
THEOREM ParseAllTellsTheTruth == Spec => []ParseAllIsHonest
<1>1. ApplicationInv => ParseAllIsHonest
  BY DEF ApplicationInv
<1> QED BY <1>1, Invariant, PTL

\* Only a configuration file without a rate, with a zero for it, or with a number of workers
\* or an idle time that is not positive (in nanoseconds, of 64 bits), makes it panic: for any
\* numbers, negative ones too, whatever fails and however often it is started again.
THEOREM OnlyTheFilePanics == Spec => []PanicsOverFileOnly
<1>1. ApplicationInv => PanicsOverFileOnly
  BY DEF ApplicationInv
<1> QED BY <1>1, Invariant, PTL

=============================================================================
