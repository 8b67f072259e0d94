----------------------- MODULE CatalogPipelineProofs -----------------------
(***************************************************************************)
(* Theorems about CatalogPipeline, for any pages, links and goroutines.    *)
(* A step of the pipeline is a step of the breaker or leaves it alone, so  *)
(* what CircuitBreakerProofs proves of the breaker holds here, and is used *)
(* in the induction.                                                       *)
(***************************************************************************)
EXTENDS CatalogPipeline, CircuitBreakerProofs, FiniteSetTheorems

PInv == PipelineTypeOK /\ PipelineInv

USE DEF pipeline, allVars, vars, breaker, history, Streams, Roles, Target

-----------------------------------------------------------------------------
(* The breaker under the pipeline.                                         *)

LEMMA StepOfBreaker == ASSUME [PipelineNext]_allVars PROVE [Next]_vars
<1>1. CASE TimePasses
  BY <1>1 DEF TimePasses, Next
<1>2. ASSUME NEW c \in Caller, Work(c) PROVE [Next]_vars
  BY <1>2 DEF Work, TakeTask, TakePage, TakeItem, Fetch, Settle, Next, FetchStep
<1>3. ASSUME NEW c \in Caller, Claim(c) PROVE [Next]_vars
  BY <1>3 DEF Claim
<1> QED BY <1>1, <1>2, <1>3 DEF PipelineNext

LEMMA FetchesType == \A t : Fetches(t) \in {1, 2}
  BY DEF Fetches

\* Whatever is shown of the breaker alone holds under the pipeline.
THEOREM PipelineImplementsBreaker == PipelineSpec => Spec
<1>1. PipelineInit => Init
  BY DEF PipelineInit
<1>2. [PipelineNext]_allVars => [Next]_vars
  BY StepOfBreaker
<1> QED BY <1>1, <1>2, PTL DEF PipelineSpec, Spec

-----------------------------------------------------------------------------
(* Where a page or a link is.                                              *)

LEMMA PlaceForms ==
  \A place \in Place :
    \/ \E r \in Roles : place = <<"todo", r>>
    \/ \E c \in Caller : place = <<"job", c>>
    \/ \E c \in Caller : place = <<"left", c>>
    \/ place = <<"end", "done">>
    \/ place = <<"end", "dropped">>
  BY DEF Place

PlacesLaw ==
  \A t \in Target :
    /\ Places(t) \subseteq Place
    /\ \A r \in Roles : <<"todo", r>> \in Places(t) <=> t \in todo[r]
    /\ \A c \in Caller : <<"job", c>> \in Places(t) <=> t = job[c]
    /\ \A c \in Caller : <<"left", c>> \in Places(t) <=> t \in left[c]
    /\ <<"end", "done">> \in Places(t) <=> t \in done
    /\ <<"end", "dropped">> \in Places(t) <=> t \in dropped

LEMMA PlacesOf == PlacesLaw
<1> SUFFICES ASSUME NEW t \in Target
             PROVE  /\ Places(t) \subseteq Place
                    /\ \A r \in Roles : <<"todo", r>> \in Places(t) <=> t \in todo[r]
                    /\ \A c \in Caller : <<"job", c>> \in Places(t) <=> t = job[c]
                    /\ \A c \in Caller : <<"left", c>> \in Places(t) <=> t \in left[c]
                    /\ <<"end", "done">> \in Places(t) <=> t \in done
                    /\ <<"end", "dropped">> \in Places(t) <=> t \in dropped
  BY DEF PlacesLaw
<1>1. Places(t) \subseteq Place
  BY DEF Places
<1>2. ASSUME NEW r \in Roles PROVE <<"todo", r>> \in Places(t) <=> t \in todo[r]
  BY DEF Places, Place, IsAt
<1>3. ASSUME NEW c \in Caller PROVE <<"job", c>> \in Places(t) <=> t = job[c]
  BY DEF Places, Place, IsAt
<1>4. ASSUME NEW c \in Caller PROVE <<"left", c>> \in Places(t) <=> t \in left[c]
  BY DEF Places, Place, IsAt
<1>5. <<"end", "done">> \in Places(t) <=> t \in done
  BY DEF Places, Place, IsAt
<1>6. <<"end", "dropped">> \in Places(t) <=> t \in dropped
  BY DEF Places, Place, IsAt
<1> QED BY <1>1, <1>2, <1>3, <1>4, <1>5, <1>6

LEMMA PlacesOfNext == PlacesLaw'
  BY PlacesOf, PTL

\* What is found is what is somewhere.
Somewhere(t) ==
  \/ \E r \in Roles : t \in todo[r]
  \/ \E c \in Caller : t = job[c]
  \/ \E c \in Caller : t \in left[c]
  \/ t \in done
  \/ t \in dropped

FoundLaw == \A t \in Target : t \in Found <=> Places(t) # {}

LEMMA FoundIs == FoundLaw
<1> SUFFICES ASSUME NEW t \in Target PROVE t \in Found <=> Places(t) # {}
  BY DEF FoundLaw
<1>1. t \in Found <=> Somewhere(t)
  <2> DEFINE waiting == UNION {todo[r] : r \in Roles}
             inHand == {job[c] : c \in Caller}
             ahead == UNION {left[c] : c \in Caller}
  <2>1. t \in waiting <=> \E r \in Roles : t \in todo[r]
    OBVIOUS
  <2>2. t \in inHand <=> \E c \in Caller : t = job[c]
    OBVIOUS
  <2>3. t \in ahead <=> \E c \in Caller : t \in left[c]
    OBVIOUS
  <2>4. Found = Target \intersect (waiting \union inHand \union ahead \union done \union dropped)
    BY DEF Found
  <2> HIDE DEF waiting, inHand, ahead
  <2>5. t \in Found <=> \/ t \in waiting \/ t \in inHand \/ t \in ahead
                       \/ t \in done \/ t \in dropped
    BY <2>4
  <2> QED BY <2>1, <2>2, <2>3, <2>5 DEF Somewhere
<1>2. ASSUME Somewhere(t) PROVE Places(t) # {}
  <2>1. CASE \E r \in Roles : t \in todo[r]
    BY <2>1, PlacesOf DEF PlacesLaw
  <2>2. CASE \E c \in Caller : t = job[c]
    BY <2>2, PlacesOf DEF PlacesLaw
  <2>3. CASE \E c \in Caller : t \in left[c]
    BY <2>3, PlacesOf DEF PlacesLaw
  <2>4. CASE t \in done
    BY <2>4, PlacesOf DEF PlacesLaw
  <2>5. CASE t \in dropped
    BY <2>5, PlacesOf DEF PlacesLaw
  <2> QED BY <1>2, <2>1, <2>2, <2>3, <2>4, <2>5 DEF Somewhere
<1>3. ASSUME NEW place \in Places(t) PROVE Somewhere(t)
  <2>1. place \in Place
    BY PlacesOf DEF PlacesLaw
  <2> QED BY <2>1, PlaceForms, PlacesOf DEF PlacesLaw, Somewhere
<1> QED BY <1>1, <1>2, <1>3

LEMMA FoundIsNext == FoundLaw'
  BY FoundIs, PTL

\* WorkAccounted, in places.
WorkPlaced ==
  /\ \A t \in Target : \A a, b \in Places(t) : a = b
  /\ \A p \in Page \ Copies : Places(p) # {}
  /\ \A p \in Page : \A i \in Listed[p] : Places(i) # {} <=> p \in done

LEMMA WorkInPlaces == WorkAccounted <=> WorkPlaced
<1>1. \A p \in Page : p \in Target /\ \A i \in Listed[p] : i \in Target
  BY PipelineAssumption DEF PipelineAssumption
<1> QED BY <1>1, FoundIs DEF FoundLaw, WorkAccounted, WorkPlaced

LEMMA WorkInPlacesNext == WorkAccounted' <=> WorkPlaced'
  BY WorkInPlaces, PTL

\* It is where it was if it was not moved.
LEMMA Unmoved ==
  ASSUME NEW t \in Target,
         \A r \in Roles : t \in todo'[r] <=> t \in todo[r],
         \A c \in Caller : t = job'[c] <=> t = job[c],
         \A c \in Caller : t \in left'[c] <=> t \in left[c],
         t \in done' <=> t \in done,
         t \in dropped' <=> t \in dropped
  PROVE  Places(t)' = Places(t)
<1>1. \A place \in Place : place \in Places(t)' <=> place \in Places(t)
  BY PlaceForms, PlacesOf, PlacesOfNext DEF PlacesLaw
<1>2. Places(t) \subseteq Place /\ Places(t)' \subseteq Place
  BY PlacesOf, PlacesOfNext DEF PlacesLaw, Place
<1> QED BY <1>1, <1>2

\* A move of something that is somewhere, by which no page is parsed.
LEMMA MoveInv ==
  ASSUME WorkAccounted, NEW t \in Target, NEW place,
         Places(t) # {}, Places(t)' = {place},
         \A u \in Target : u # t => Places(u)' = Places(u),
         \A p \in Page : p \in done' <=> p \in done
  PROVE  WorkAccounted'
<1>1. WorkPlaced
  BY WorkInPlaces
<1>2. \A u \in Target : Places(u)' # {} <=> Places(u) # {}
  OBVIOUS
<1>3. \A u \in Target : \A a, b \in Places(u)' : a = b
  BY <1>1 DEF WorkPlaced
<1>4. \A p \in Page : \A i \in Listed[p] : i \in Target
  BY PipelineAssumption DEF PipelineAssumption
<1>5. WorkPlaced'
  BY <1>1, <1>2, <1>3, <1>4 DEF WorkPlaced
<1> QED BY <1>5, WorkInPlacesNext

\* Nothing is in two places.
LEMMA OnePlace ==
  ASSUME WorkAccounted, NEW t \in Target, NEW a \in Places(t), NEW b \in Places(t)
  PROVE  a = b
  BY DEF WorkAccounted

\* What a goroutine has in hand is nowhere else.
LEMMA InHandAlone ==
  ASSUME WorkAccounted, NEW c \in Caller, job[c] \in Target
  PROVE  /\ Places(job[c]) = {<<"job", c>>}
         /\ \A r \in Roles : job[c] \notin todo[r]
         /\ \A d \in Caller : d # c => job[d] # job[c]
         /\ \A d \in Caller : job[c] \notin left[d]
         /\ job[c] \notin done /\ job[c] \notin dropped
<1>1. <<"job", c>> \in Places(job[c])
  BY PlacesOf DEF PlacesLaw
<1>2. \A a \in Places(job[c]) : a = <<"job", c>>
  BY <1>1, OnePlace
<1>3. \A r \in Roles : job[c] \notin todo[r]
  BY <1>2, PlacesOf DEF PlacesLaw
<1>4. \A d \in Caller : d # c => job[d] # job[c]
  <2> SUFFICES ASSUME NEW d \in Caller, d # c, job[d] = job[c] PROVE FALSE
    OBVIOUS
  <2>1. <<"job", d>> \in Places(job[c])
    BY PlacesOf DEF PlacesLaw
  <2> QED BY <1>2, <2>1
<1>5. \A d \in Caller : job[c] \notin left[d]
  BY <1>2, PlacesOf DEF PlacesLaw
<1>6. job[c] \notin done /\ job[c] \notin dropped
  BY <1>2, PlacesOf DEF PlacesLaw
<1> QED BY <1>1, <1>2, <1>3, <1>4, <1>5, <1>6

\* What waits is in nobody's hand.
LEMMA WaitingAlone ==
  ASSUME WorkAccounted, NEW r \in Roles, NEW t \in Target, t \in todo[r]
  PROVE  /\ Places(t) = {<<"todo", r>>}
         /\ \A q \in Roles : q # r => t \notin todo[q]
         /\ \A d \in Caller : job[d] # t /\ t \notin left[d]
         /\ t \notin done /\ t \notin dropped
<1>1. <<"todo", r>> \in Places(t)
  BY PlacesOf DEF PlacesLaw
<1>2. \A a \in Places(t) : a = <<"todo", r>>
  BY <1>1, OnePlace
<1>3. \A q \in Roles : q # r => t \notin todo[q]
  <2> SUFFICES ASSUME NEW q \in Roles, q # r, t \in todo[q] PROVE FALSE
    OBVIOUS
  <2>1. <<"todo", q>> \in Places(t)
    BY PlacesOf DEF PlacesLaw
  <2> QED BY <1>2, <2>1
<1>4. \A d \in Caller : job[d] # t /\ t \notin left[d]
  BY <1>2, PlacesOf DEF PlacesLaw
<1>5. t \notin done /\ t \notin dropped
  BY <1>2, PlacesOf DEF PlacesLaw
<1> QED BY <1>1, <1>2, <1>3, <1>4, <1>5

LEMMA LeftAlone ==
  ASSUME WorkAccounted, NEW c \in Caller, NEW t \in Target, t \in left[c]
  PROVE  /\ Places(t) = {<<"left", c>>}
         /\ \A r \in Roles : t \notin todo[r]
         /\ \A d \in Caller : job[d] # t
         /\ \A d \in Caller : d # c => t \notin left[d]
         /\ t \notin done /\ t \notin dropped
<1>1. <<"left", c>> \in Places(t)
  BY PlacesOf DEF PlacesLaw
<1>2. \A a \in Places(t) : a = <<"left", c>>
  BY <1>1, OnePlace
<1>3. \A r \in Roles : t \notin todo[r]
  BY <1>2, PlacesOf DEF PlacesLaw
<1>4. \A d \in Caller : job[d] # t
  BY <1>2, PlacesOf DEF PlacesLaw
<1>5. \A d \in Caller : d # c => t \notin left[d]
  <2> SUFFICES ASSUME NEW d \in Caller, d # c, t \in left[d] PROVE FALSE
    OBVIOUS
  <2>1. <<"left", d>> \in Places(t)
    BY PlacesOf DEF PlacesLaw
  <2> QED BY <1>2, <2>1
<1>6. t \notin done /\ t \notin dropped
  BY <1>2, PlacesOf DEF PlacesLaw
<1> QED BY <1>1, <1>2, <1>3, <1>4, <1>5, <1>6

\* It is where its one place says, and nowhere else.
LEMMA OnlyPlace ==
  ASSUME NEW t \in Target, NEW place \in Place, place \in Places(t)',
         \A other \in Place : other # place => other \notin Places(t)'
  PROVE  Places(t)' = {place}
<1>1. Places(t)' \subseteq Place
  BY PlacesOfNext DEF PlacesLaw, Place
<1> QED BY <1>1

-----------------------------------------------------------------------------
(* The steps.                                                              *)

\* The pages and links nobody touches are no matter of UnfoundInv.
LEMMA UnfoundStays ==
  ASSUME UnfoundInv, NEW t \in Target, Places(t)' # {},
         \A u \in Target : u # t => Places(u)' = Places(u) /\ asked'[u] = asked[u]
  PROVE  UnfoundInv'
  BY FoundIs, FoundIsNext DEF FoundLaw, UnfoundInv

\* The first check of the breaker refuses nobody before "Quota Exceeded".
LEMMA CheckOpenFacts ==
  ASSUME IInv, PInv, NEW c \in Caller, CheckOpen(c)
  PROVE  /\ job[c] = Nothing /\ attempts[c] = 0 /\ attempts' = attempts
         /\ triggered' = triggered
         /\ pc'[c] \in {"refused", "resetting", "taking"}
         /\ pc'[c] = "refused" => quotaSeen
         /\ \A d \in Caller : d # c => pc'[d] = pc[d]
<1>1. job[c] = Nothing /\ attempts[c] = 0
  BY DEF CheckOpen, IInv, BreakerInv, LateInv, PInv, PipelineInv, HandsInv
<1>2. remaining > 0 => quotaSeen
  BY DEF IInv, BreakerInv, PInv, PipelineInv, QuotaInv
<1>3. attempts' = attempts /\ triggered' = triggered
  BY DEF CheckOpen
<1>4. /\ pc'[c] \in {"refused", "resetting", "taking"}
      /\ pc'[c] = "refused" => remaining > 0
      /\ \A d \in Caller : d # c => pc'[d] = pc[d]
  BY DEF CheckOpen, IInv, TypeOK
<1> QED BY <1>1, <1>2, <1>3, <1>4

\* What it takes goes from its stream into its hand.
LEMMA TakeTaskMoves ==
  ASSUME IInv, PInv, NEW c \in Caller, TakeTask(c), NEW t \in todo[Role[c]],
         todo' = [todo EXCEPT ![Role[c]] = @ \ {t}], job' = [job EXCEPT ![c] = t]
  PROVE  /\ t \in Target
         /\ Places(t) = {<<"todo", Role[c]>>} /\ Places(t)' = {<<"job", c>>}
         /\ \A u \in Target : u # t => Places(u)' = Places(u)
<1> DEFINE r == Role[c]
<1>1. r \in Roles /\ t \in Target /\ t # Nothing
  BY PipelineAssumption DEF PipelineAssumption, PInv, PipelineTypeOK
<1>2. CheckOpen(c) /\ UNCHANGED <<left, done, dropped>>
  BY DEF TakeTask
<1>3. WorkAccounted
  BY DEF PInv, PipelineInv
<1>4. /\ Places(t) = {<<"todo", r>>}
      /\ \A q \in Roles : q # r => t \notin todo[q]
      /\ \A d \in Caller : job[d] # t /\ t \notin left[d]
      /\ t \notin done /\ t \notin dropped
  BY <1>1, <1>3, WaitingAlone
<1>5. Places(t)' = {<<"job", c>>}
  <2>1. <<"job", c>> \in Places(t)'
    BY <1>1, PlacesOfNext DEF PlacesLaw, PInv, PipelineTypeOK
  <2>2. \A q \in Roles : t \notin todo'[q]
    BY <1>1, <1>4 DEF PInv, PipelineTypeOK
  <2>3. /\ \A d \in Caller : d # c => job'[d] # t
        /\ \A d \in Caller : t \notin left'[d]
        /\ t \notin done' /\ t \notin dropped'
    BY <1>2, <1>4 DEF PInv, PipelineTypeOK
  <2>4. \A other \in Place : other # <<"job", c>> => other \notin Places(t)'
    BY <1>1, <2>2, <2>3, PlaceForms, PlacesOfNext DEF PlacesLaw
  <2> QED BY <1>1, <2>1, <2>4, OnlyPlace DEF Place
<1>6. ASSUME NEW u \in Target, u # t PROVE Places(u)' = Places(u)
  <2>1. \A q \in Roles : u \in todo'[q] <=> u \in todo[q]
    BY <1>1, <1>6 DEF PInv, PipelineTypeOK
  <2>2. \A d \in Caller : u = job'[d] <=> u = job[d]
    BY <1>2, <1>6, CheckOpenFacts, PipelineAssumption
    DEF PipelineAssumption, PInv, PipelineTypeOK
  <2> QED BY <1>2, <2>1, <2>2, Unmoved
<1> QED BY <1>1, <1>4, <1>5, <1>6

LEMMA TakeTaskInv ==
  ASSUME IInv, PInv, NEW c \in Caller, TakeTask(c) PROVE PInv'
<1> DEFINE r == Role[c]
<1>0. r \in {"crawl", "pageRetry", "itemRetry"}
  BY PipelineAssumption DEF PipelineAssumption, TakeTask
<1>1. PICK t \in todo[r] : /\ todo' = [todo EXCEPT ![r] = @ \ {t}]
                           /\ job' = [job EXCEPT ![c] = t]
  BY DEF TakeTask
<1>2. t \in Target /\ t # Nothing /\ t \in IF r \in {"crawl", "pageRetry"} THEN Page ELSE Link
  BY <1>0, PipelineAssumption DEF PipelineAssumption, PInv, PipelineTypeOK, Kind
<1>3. CheckOpen(c) /\ UNCHANGED <<left, done, dropped, asked, quotaSeen>>
  BY DEF TakeTask
<1>4. WorkAccounted
  BY DEF PInv, PipelineInv
<1>5. PipelineTypeOK'
  BY <1>0, <1>1, <1>2, <1>3 DEF PInv, PipelineTypeOK
<1>6. HandsInv'
  BY <1>0, <1>1, <1>2, <1>3, CheckOpenFacts DEF PInv, PipelineTypeOK, PipelineInv, HandsInv
<1>7. Places(t)' = {<<"job", c>>} /\ \A u \in Target : u # t => Places(u)' = Places(u)
  BY <1>0, <1>1, TakeTaskMoves
<1>8. WorkAccounted'
  <2>1. Places(t) # {} /\ <<"job", c>> \in Place
    BY <1>0, <1>2, <1>4, WaitingAlone DEF Place
  <2> QED BY <1>2, <1>3, <1>4, <1>7, <2>1, MoveInv
<1>9. AskedInv'
  <2>1. todo'["crawl"] \subseteq todo["crawl"]
        /\ \A q \in {"pageRetry", "itemRetry"} : todo'[q] \subseteq todo[q]
    BY <1>0, <1>1 DEF PInv, PipelineTypeOK
  <2>2. IF First(r) THEN asked[t] = 0
        ELSE asked[t] <= RetryCount + 1 /\ (asked[t] >= Fetches(t) - 1 \/ quotaSeen)
    BY <1>0, <1>1 DEF First, PInv, PipelineInv, AskedInv
  <2>3. \A d \in Caller : d # c => job'[d] = job[d] /\ pc'[d] = pc[d]
    BY <1>1, <1>3, CheckOpenFacts DEF PInv, PipelineTypeOK
  <2>4. job'[c] = t /\ attempts'[c] = 0 /\ pc'[c] # "quota"
    BY <1>1, <1>3, CheckOpenFacts DEF PInv, PipelineTypeOK
  <2>5. ASSUME NEW d \in Caller, pc'[d] # "idle"
        PROVE  IF First(Role[d])
               THEN /\ asked'[job'[d]] <= IF pc'[d] = "quota" THEN RetryCount + 1 ELSE attempts'[d]
                    /\ asked'[job'[d]] >= attempts'[d]
               ELSE /\ asked'[job'[d]] <= IF pc'[d] = "quota" THEN 2 * (RetryCount + 1)
                                          ELSE RetryCount + 1 + attempts'[d]
                    /\ asked'[job'[d]] >= attempts'[d] + Fetches(job'[d]) - 1 \/ quotaSeen'
    <3>1. CASE d = c
      BY <1>3, <2>2, <2>4, <3>1, BreakerAssumption, FetchesType DEF BreakerAssumption, PInv, PipelineTypeOK
    <3>2. CASE d # c
      BY <1>3, <2>3, <2>5, <3>2, CheckOpenFacts DEF PInv, PipelineInv, AskedInv
    <3> QED BY <3>1, <3>2
  <2> QED BY <1>3, <2>1, <2>5 DEF PInv, PipelineInv, AskedInv
<1>10. UnfoundInv'
  BY <1>2, <1>3, <1>7, UnfoundStays DEF PInv, PipelineInv
<1>11. QuotaInv' /\ AskedBounded' /\ UnaskedOnlyAfterQuota'
  BY <1>3, CheckOpenFacts
  DEF PInv, PipelineInv, QuotaInv, AskedBounded, UnaskedOnlyAfterQuota
<1> QED BY <1>5, <1>6, <1>8, <1>9, <1>10, <1>11 DEF PInv, PipelineInv

\* The page has come to its end, and its links, which were nowhere since it was not parsed
\* before, are left to the worker.
LEMMA TakePageMoves ==
  ASSUME PInv, NEW c \in Caller, TakePage(c), NEW p \in todo["page"],
         todo' = [todo EXCEPT !["page"] = @ \ {p}], left' = [left EXCEPT ![c] = Listed[p]],
         done' = done \union {p}
  PROVE  /\ p \in Target
         /\ Places(p) = {<<"todo", "page">>} /\ Places(p)' = {<<"end", "done">>}
         /\ \A i \in Listed[p] : i \in Link /\ Places(i) = {} /\ Places(i)' = {<<"left", c>>}
         /\ \A u \in Target : u # p /\ u \notin Listed[p] => Places(u)' = Places(u)
<1>1. Role[c] = "page" /\ left[c] = {} /\ UNCHANGED <<job, dropped>>
  BY DEF TakePage
<1>2. p \in Page /\ p \in Target
  BY DEF PInv, PipelineTypeOK, Kind
<1>3. WorkAccounted
  BY DEF PInv, PipelineInv
<1>4. /\ \A q \in Roles : q # "page" => todo'[q] = todo[q]
      /\ todo'["page"] = todo["page"] \ {p}
      /\ \A d \in Caller : d # c => left'[d] = left[d]
      /\ left'[c] = Listed[p]
  BY DEF PInv, PipelineTypeOK
<1>5. /\ Places(p) = {<<"todo", "page">>}
      /\ p \notin done /\ p \notin dropped
      /\ \A d \in Caller : job[d] # p /\ p \notin left[d]
      /\ \A q \in Roles : q # "page" => p \notin todo[q]
  BY <1>2, <1>3, WaitingAlone
<1>6. \A i \in Listed[p] : i \in Link /\ i \in Target /\ i # p /\ Places(i) = {}
  BY <1>2, <1>3, <1>5, WorkInPlaces, PipelineAssumption DEF PipelineAssumption, WorkPlaced
<1>7. Places(p)' = {<<"end", "done">>}
  <2>1. <<"end", "done">> \in Place /\ <<"end", "done">> \in Places(p)'
    BY <1>2, PlacesOfNext DEF PlacesLaw, Place
  <2>2. p \notin Listed[p]
    BY <1>2, PipelineAssumption DEF PipelineAssumption
  <2>3. \A other \in Place : other # <<"end", "done">> => other \notin Places(p)'
    BY <1>1, <1>2, <1>4, <1>5, <2>2, PlaceForms, PlacesOfNext DEF PlacesLaw
  <2> QED BY <1>2, <2>1, <2>3, OnlyPlace
<1>8. ASSUME NEW i \in Listed[p] PROVE Places(i)' = {<<"left", c>>}
  <2>1. <<"left", c>> \in Place /\ <<"left", c>> \in Places(i)'
    BY <1>4, <1>6, PlacesOfNext DEF PlacesLaw, Place
  <2>2. /\ \A r \in Roles : i \notin todo[r]
        /\ \A d \in Caller : job[d] # i /\ i \notin left[d]
        /\ i \notin done /\ i \notin dropped
    BY <1>6, PlacesOf DEF PlacesLaw
  <2>3. \A other \in Place : other # <<"left", c>> => other \notin Places(i)'
    BY <1>1, <1>4, <1>6, <2>2, PlaceForms, PlacesOfNext DEF PlacesLaw
  <2> QED BY <1>6, <2>1, <2>3, OnlyPlace
<1>9. ASSUME NEW u \in Target, u # p, u \notin Listed[p] PROVE Places(u)' = Places(u)
  <2>1. \A q \in Roles : u \in todo'[q] <=> u \in todo[q]
    BY <1>4, <1>9
  <2>2. \A d \in Caller : u \in left'[d] <=> u \in left[d]
    BY <1>1, <1>4, <1>9
  <2>3. (u \in done' <=> u \in done) /\ UNCHANGED <<job, dropped>>
    BY <1>1, <1>9
  <2> QED BY <2>1, <2>2, <2>3, Unmoved
<1> QED BY <1>2, <1>5, <1>6, <1>7, <1>8, <1>9

LEMMA TakePageInv ==
  ASSUME IInv, PInv, NEW c \in Caller, TakePage(c) PROVE PInv'
<1>1. PICK p \in todo["page"] : /\ todo' = [todo EXCEPT !["page"] = @ \ {p}]
                                /\ left' = [left EXCEPT ![c] = Listed[p]]
                                /\ done' = done \union {p}
  BY DEF TakePage
<1>2. Role[c] = "page" /\ left[c] = {} /\ UNCHANGED <<vars, job, dropped, asked, quotaSeen>>
  BY DEF TakePage
<1>3. p \in Page /\ p \in Target
  BY DEF PInv, PipelineTypeOK, Kind
<1>4. WorkAccounted
  BY DEF PInv, PipelineInv
<1>5. PipelineTypeOK'
  BY <1>1, <1>2, <1>3, PipelineAssumption DEF PipelineAssumption, PInv, PipelineTypeOK
<1>6. HandsInv'
  BY <1>1, <1>2, PipelineAssumption
  DEF PipelineAssumption, PInv, PipelineTypeOK, PipelineInv, HandsInv
<1>7. /\ \A q \in Roles : q # "page" => todo'[q] = todo[q]
      /\ todo'["page"] = todo["page"] \ {p}
      /\ \A d \in Caller : d # c => left'[d] = left[d]
      /\ left'[c] = Listed[p]
  BY <1>1 DEF PInv, PipelineTypeOK
<1>8. /\ Places(p)' = {<<"end", "done">>}
      /\ \A i \in Listed[p] : i \in Link /\ Places(i) = {} /\ Places(i)' = {<<"left", c>>}
      /\ \A u \in Target : u # p /\ u \notin Listed[p] => Places(u)' = Places(u)
  BY <1>1, TakePageMoves
<1>9. WorkAccounted'
  <2>1. WorkPlaced
    BY <1>4, WorkInPlaces
  <2>2. Places(p) # {} /\ \A q \in Page : q \notin Listed[p]
    BY <1>3, <1>4, <1>1, WaitingAlone, PipelineAssumption DEF PipelineAssumption
  <2>3. \A t \in Target : \A a, b \in Places(t)' : a = b
    BY <1>8, <2>1 DEF WorkPlaced
  <2>4. \A q \in Page \ Copies : Places(q)' # {}
    BY <1>8, <2>1, <2>2 DEF WorkPlaced
  <2>5. ASSUME NEW q \in Page, NEW i \in Listed[q] PROVE Places(i)' # {} <=> q \in done'
    <3>1. i \in Target /\ i # p /\ (q # p => i \notin Listed[p])
      BY <1>3, <2>5, PipelineAssumption DEF PipelineAssumption
    <3> QED BY <1>1, <1>8, <2>1, <3>1 DEF WorkPlaced
  <2>6. WorkPlaced'
    BY <2>3, <2>4, <2>5 DEF WorkPlaced
  <2> QED BY <2>6, WorkInPlacesNext
<1>10. \A i \in Listed[p] : asked[i] = 0
  BY <1>8, FoundIs DEF FoundLaw, PInv, PipelineInv, UnfoundInv
<1>11. AskedInv'
  <2>1. \A d \in Caller : \A i \in left'[d] : asked'[i] = 0
    BY <1>2, <1>7, <1>10 DEF PInv, PipelineInv, AskedInv
  <2>2. /\ \A q \in todo'["crawl"] : asked'[q] = 0
        /\ \A r \in {"pageRetry", "itemRetry"} : \A t \in todo'[r] :
             asked'[t] <= RetryCount + 1 /\ (asked'[t] >= Fetches(t) - 1 \/ quotaSeen')
    BY <1>2, <1>7 DEF PInv, PipelineInv, AskedInv
  <2> QED BY <1>2, <2>1, <2>2 DEF PInv, PipelineInv, AskedInv
<1>12. UnfoundInv'
  <2> SUFFICES ASSUME NEW i \in Target, Places(i)' = {} PROVE asked'[i] = 0
    BY FoundIsNext DEF FoundLaw, UnfoundInv
  <2>1. i \notin Listed[p] /\ i # p
    BY <1>8
  <2>2. Places(i) = {}
    BY <1>8, <2>1
  <2> QED BY <1>2, <2>2, FoundIs DEF FoundLaw, PInv, PipelineInv, UnfoundInv
<1>13. QuotaInv' /\ AskedBounded' /\ UnaskedOnlyAfterQuota'
  BY <1>2 DEF PInv, PipelineInv, QuotaInv, AskedBounded, UnaskedOnlyAfterQuota
<1> QED BY <1>5, <1>6, <1>9, <1>11, <1>12, <1>13 DEF PInv, PipelineInv

\* What it comes to goes from those that are left into its hand.
LEMMA TakeItemMoves ==
  ASSUME IInv, PInv, NEW c \in Caller, TakeItem(c), NEW t \in left[c],
         left' = [left EXCEPT ![c] = @ \ {t}], job' = [job EXCEPT ![c] = t]
  PROVE  /\ t \in Target
         /\ Places(t) = {<<"left", c>>} /\ Places(t)' = {<<"job", c>>}
         /\ \A u \in Target : u # t => Places(u)' = Places(u)
<1>1. t \in Target
  BY DEF PInv, PipelineTypeOK
<1>2. CheckOpen(c) /\ UNCHANGED <<todo, done, dropped>>
  BY DEF TakeItem
<1>3. WorkAccounted
  BY DEF PInv, PipelineInv
<1>4. /\ left'[c] = left[c] \ {t} /\ job'[c] = t
      /\ \A d \in Caller : d # c => left'[d] = left[d] /\ job'[d] = job[d]
  BY DEF PInv, PipelineTypeOK
<1>5. /\ Places(t) = {<<"left", c>>}
      /\ \A r \in Roles : t \notin todo[r]
      /\ \A d \in Caller : job[d] # t
      /\ \A d \in Caller : d # c => t \notin left[d]
      /\ t \notin done /\ t \notin dropped
  BY <1>1, <1>3, LeftAlone
<1>6. Places(t)' = {<<"job", c>>}
  <2>1. <<"job", c>> \in Place /\ <<"job", c>> \in Places(t)'
    BY <1>1, <1>4, PlacesOfNext DEF PlacesLaw, Place
  <2>2. \A other \in Place : other # <<"job", c>> => other \notin Places(t)'
    BY <1>1, <1>2, <1>4, <1>5, PlaceForms, PlacesOfNext DEF PlacesLaw
  <2> QED BY <1>1, <2>1, <2>2, OnlyPlace
<1>7. ASSUME NEW u \in Target, u # t PROVE Places(u)' = Places(u)
  <2>1. \A d \in Caller : (u = job'[d] <=> u = job[d]) /\ (u \in left'[d] <=> u \in left[d])
    BY <1>2, <1>4, <1>7, CheckOpenFacts, PipelineAssumption DEF PipelineAssumption
  <2> QED BY <1>2, <2>1, Unmoved
<1> QED BY <1>1, <1>5, <1>6, <1>7

LEMMA TakeItemInv ==
  ASSUME IInv, PInv, NEW c \in Caller, TakeItem(c) PROVE PInv'
<1>1. PICK t \in left[c] : /\ left' = [left EXCEPT ![c] = @ \ {t}]
                           /\ job' = [job EXCEPT ![c] = t]
  BY DEF TakeItem
<1>2. CheckOpen(c) /\ UNCHANGED <<todo, done, dropped, asked, quotaSeen>>
  BY DEF TakeItem
<1>3. Role[c] = "page" /\ t \in Link /\ t \in Target /\ t # Nothing
  BY PipelineAssumption
  DEF PipelineAssumption, PInv, PipelineTypeOK, PipelineInv, HandsInv
<1>4. WorkAccounted
  BY DEF PInv, PipelineInv
<1>5. PipelineTypeOK'
  BY <1>1, <1>2, <1>3 DEF PInv, PipelineTypeOK
<1>6. HandsInv'
  BY <1>1, <1>2, <1>3, CheckOpenFacts DEF PInv, PipelineTypeOK, PipelineInv, HandsInv
<1>7. /\ left'[c] = left[c] \ {t} /\ job'[c] = t
      /\ \A d \in Caller : d # c => left'[d] = left[d] /\ job'[d] = job[d]
  BY <1>1 DEF PInv, PipelineTypeOK
<1>8. /\ Places(t) = {<<"left", c>>} /\ Places(t)' = {<<"job", c>>}
      /\ \A u \in Target : u # t => Places(u)' = Places(u)
  BY <1>1, TakeItemMoves
<1>9. WorkAccounted'
  BY <1>2, <1>3, <1>4, <1>8, MoveInv DEF Place
<1>10. AskedInv'
  <2>1. asked[t] = 0
    BY DEF PInv, PipelineInv, AskedInv
  <2>2. attempts'[c] = 0 /\ pc'[c] # "quota" /\ \A d \in Caller : d # c => pc'[d] = pc[d]
    BY <1>2, CheckOpenFacts
  <2>3. ASSUME NEW d \in Caller, pc'[d] # "idle"
        PROVE  IF First(Role[d])
               THEN /\ asked'[job'[d]] <= IF pc'[d] = "quota" THEN RetryCount + 1 ELSE attempts'[d]
                    /\ asked'[job'[d]] >= attempts'[d]
               ELSE /\ asked'[job'[d]] <= IF pc'[d] = "quota" THEN 2 * (RetryCount + 1)
                                          ELSE RetryCount + 1 + attempts'[d]
                    /\ asked'[job'[d]] >= attempts'[d] + Fetches(job'[d]) - 1 \/ quotaSeen'
    <3>1. CASE d = c
      BY <1>2, <1>3, <1>7, <2>1, <2>2, <3>1 DEF First
    <3>2. CASE d # c
      BY <1>2, <1>7, <2>2, <2>3, <3>2, CheckOpenFacts DEF PInv, PipelineInv, AskedInv
    <3> QED BY <3>1, <3>2
  <2>4. \A d \in Caller : left'[d] \subseteq left[d]
    BY <1>7
  <2> QED BY <1>2, <2>3, <2>4 DEF PInv, PipelineInv, AskedInv
<1>11. UnfoundInv'
  BY <1>2, <1>3, <1>8, UnfoundStays DEF PInv, PipelineInv
<1>12. QuotaInv' /\ AskedBounded' /\ UnaskedOnlyAfterQuota'
  BY <1>2, CheckOpenFacts
  DEF PInv, PipelineInv, QuotaInv, AskedBounded, UnaskedOnlyAfterQuota
<1> QED BY <1>5, <1>6, <1>9, <1>10, <1>11, <1>12 DEF PInv, PipelineInv

\* A step of fetchHTML moves nothing.
LEMMA StaysInPlace ==
  ASSUME WorkAccounted, UNCHANGED <<todo, job, left, done, dropped>>
  PROVE  /\ WorkAccounted'
         /\ \A t \in Target : Places(t)' = Places(t)
         /\ Found' = Found
<1>1. \A t \in Target : Places(t)' = Places(t)
  BY Unmoved
<1>2. WorkPlaced' <=> WorkPlaced
  <2>1. \A p \in Page : \A i \in Listed[p] : i \in Target
    BY PipelineAssumption DEF PipelineAssumption
  <2> QED BY <1>1, <2>1 DEF WorkPlaced
<1>3. Found' = Found
  BY DEF Found
<1> QED BY <1>1, <1>2, <1>3, WorkInPlaces, WorkInPlacesNext

\* A request is counted for what is in hand, which is nowhere else.
LEMMA RequestInv ==
  ASSUME IInv, IInv', PInv, NEW c \in Caller, SendRequest(c) \/ ResendRequest(c), CountRequest(c),
         UNCHANGED <<todo, job, left, done, dropped, quotaSeen>>
  PROVE  PInv'
<1> DEFINE t == job[c]
<1>1. pc[c] \in {"taking", "inFlight"} /\ CountSend(c) /\ triggered' = triggered
  BY DEF SendRequest, ResendRequest
<1>2. pc'[c] = "inFlight" /\ \A d \in Caller : d # c => pc'[d] = pc[d]
  BY DEF SendRequest, ResendRequest, IInv, TypeOK
<1>3. /\ attempts'[c] = attempts[c] + 1
      /\ \A d \in Caller : d # c => attempts'[d] = attempts[d]
      /\ attempts[c] \in Nat
  BY <1>1, BreakerAssumption DEF BreakerAssumption, CountSend, IInv, TypeOK
<1>4. attempts'[c] <= RetryCount + 1
  BY BreakerAssumption DEF BreakerAssumption, IInv, TypeOK
<1>5. t \in Target
  BY <1>1 DEF PInv, PipelineTypeOK, PipelineInv, HandsInv
<1>6. WorkAccounted
  BY DEF PInv, PipelineInv
<1>7. /\ \A r \in Roles : t \notin todo[r]
      /\ \A d \in Caller : d # c => job[d] # t
      /\ \A d \in Caller : t \notin left[d]
      /\ t \notin done /\ t \notin dropped
      /\ Places(t) # {}
  BY <1>5, <1>6, InHandAlone
<1>8. asked'[t] = asked[t] + 1 /\ asked[t] \in Nat
      /\ \A u \in Target : u # t => asked'[u] = asked[u]
  BY <1>5 DEF CountRequest, PInv, PipelineTypeOK
<1>9. PipelineTypeOK'
  BY <1>5 DEF CountRequest, PInv, PipelineTypeOK
<1>10. HandsInv'
  BY <1>1, <1>2, <1>3 DEF PInv, PipelineTypeOK, PipelineInv, HandsInv
<1>11. WorkAccounted' /\ \A u \in Target : Places(u)' = Places(u)
  BY <1>6, StaysInPlace
<1>12. IF First(Role[c])
       THEN asked'[t] <= attempts'[c] /\ asked'[t] >= attempts'[c]
       ELSE /\ asked'[t] <= RetryCount + 1 + attempts'[c]
            /\ asked'[t] >= attempts'[c] + Fetches(t) - 1 \/ quotaSeen
  <2>1. CASE First(Role[c])
    <3>1. asked[t] <= attempts[c] /\ asked[t] >= attempts[c]
      BY <1>1, <2>1 DEF PInv, PipelineInv, AskedInv
    <3> QED BY <1>3, <1>8, <2>1, <3>1
  <2>2. CASE ~First(Role[c])
    <3>1. asked[t] <= RetryCount + 1 + attempts[c] /\ (asked[t] >= attempts[c] + Fetches(t) - 1 \/ quotaSeen)
      BY <1>1, <2>2 DEF PInv, PipelineInv, AskedInv
    <3> QED BY <1>3, <1>8, <2>2, <3>1, BreakerAssumption, FetchesType DEF BreakerAssumption
  <2> QED BY <2>1, <2>2
<1>13. AskedInv'
  <2>1. /\ \A p \in todo'["crawl"] : asked'[p] = 0
        /\ \A d \in Caller : \A i \in left'[d] : asked'[i] = 0
        /\ \A r \in {"pageRetry", "itemRetry"} : \A u \in todo'[r] :
             asked'[u] <= RetryCount + 1 /\ (asked'[u] >= Fetches(u) - 1 \/ quotaSeen')
    <3>1. /\ \A r \in Roles : \A u \in todo[r] : u \in Target /\ u # t
          /\ \A d \in Caller : \A i \in left[d] : i \in Target /\ i # t
      BY <1>7 DEF PInv, PipelineTypeOK
    <3> QED BY <1>8, <3>1 DEF PInv, PipelineInv, AskedInv
  <2>2. ASSUME NEW d \in Caller, pc'[d] # "idle"
        PROVE  IF First(Role[d])
               THEN /\ asked'[job'[d]] <= IF pc'[d] = "quota" THEN RetryCount + 1 ELSE attempts'[d]
                    /\ asked'[job'[d]] >= attempts'[d]
               ELSE /\ asked'[job'[d]] <= IF pc'[d] = "quota" THEN 2 * (RetryCount + 1)
                                          ELSE RetryCount + 1 + attempts'[d]
                    /\ asked'[job'[d]] >= attempts'[d] + Fetches(job'[d]) - 1 \/ quotaSeen'
    <3>1. CASE d = c
      BY <1>2, <1>12, <3>1
    <3>2. CASE d # c
      <4>1. pc[d] # "idle" /\ job[d] \in Target /\ job[d] # t
        BY <1>2, <1>7, <2>2, <3>2 DEF PInv, PipelineTypeOK, PipelineInv, HandsInv
      <4> QED BY <1>2, <1>3, <1>8, <3>2, <4>1 DEF PInv, PipelineInv, AskedInv
    <3> QED BY <3>1, <3>2
  <2> QED BY <2>1, <2>2 DEF AskedInv
<1>14. UnfoundInv'
  BY <1>5, <1>7, <1>8, <1>11, UnfoundStays
  DEF PInv, PipelineInv
<1>15. QuotaInv'
  BY <1>1, <1>2 DEF PInv, PipelineInv, QuotaInv
<1>16. AskedBounded'
  <2>1. asked'[t] <= 2 * (RetryCount + 1)
    BY <1>3, <1>4, <1>8, <1>12, BreakerAssumption DEF BreakerAssumption
  <2> QED BY <1>8, <2>1 DEF PInv, PipelineInv, AskedBounded
<1>17. UnaskedOnlyAfterQuota'
  BY <1>7, <1>8 DEF PInv, PipelineTypeOK, PipelineInv, UnaskedOnlyAfterQuota
<1> QED BY <1>9, <1>10, <1>11, <1>13, <1>14, <1>15, <1>16, <1>17 DEF PInv, PipelineInv

LEMMA FetchInv ==
  ASSUME IInv, IInv', PInv, NEW c \in Caller, Fetch(c) PROVE PInv'
<1>0. WorkAccounted
  BY DEF PInv, PipelineInv
<1>1. CASE ResetIfExpired(c) /\ UNCHANGED pipeline
  <2>1. /\ pc[c] = "resetting" /\ pc'[c] = "taking" /\ attempts' = attempts
        /\ \A d \in Caller : d # c => pc'[d] = pc[d]
        /\ triggered' => triggered
    BY <1>1 DEF ResetIfExpired, IInv, TypeOK
  <2>2. WorkAccounted' /\ Found' = Found
    BY <1>0, <1>1, StaysInPlace
  <2>3. PipelineTypeOK' /\ HandsInv' /\ QuotaInv'
    BY <1>1, <2>1 DEF PInv, PipelineTypeOK, PipelineInv, HandsInv, QuotaInv
  <2>4. AskedInv'
    BY <1>1, <2>1 DEF PInv, PipelineInv, AskedInv
  <2>5. UnfoundInv' /\ AskedBounded' /\ UnaskedOnlyAfterQuota'
    BY <1>1, <2>2 DEF PInv, PipelineInv, UnfoundInv, AskedBounded, UnaskedOnlyAfterQuota
  <2> QED BY <2>2, <2>3, <2>4, <2>5 DEF PInv, PipelineInv
<1>2. CASE /\ SendRequest(c) \/ ResendRequest(c)
           /\ CountRequest(c)
           /\ UNCHANGED <<todo, job, left, done, dropped, quotaSeen>>
  BY <1>2, RequestInv
<1>3. CASE /\ ReceiveAnswer(c) /\ pc'[c] = "quota" /\ quotaSeen' = TRUE
           /\ UNCHANGED <<todo, job, left, done, dropped, asked>>
  <2>1. /\ pc[c] = "inFlight" /\ attempts'[c] = 0 /\ triggered' = triggered
        /\ \A d \in Caller : d # c => pc'[d] = pc[d] /\ attempts'[d] = attempts[d]
        /\ attempts[c] \in Nat /\ attempts[c] <= RetryCount + 1
    BY <1>3, BreakerAssumption DEF BreakerAssumption, ReceiveAnswer, IInv, TypeOK
  <2>2. WorkAccounted' /\ Found' = Found
    BY <1>0, <1>3, StaysInPlace
  <2>3. PipelineTypeOK' /\ HandsInv' /\ QuotaInv'
    BY <1>3, <2>1 DEF PInv, PipelineTypeOK, PipelineInv, HandsInv, QuotaInv
  <2>4. asked[job[c]] \in Nat
    BY <2>1 DEF PInv, PipelineTypeOK, PipelineInv, HandsInv
  <2>5. asked[job[c]] <= IF First(Role[c]) THEN RetryCount + 1 ELSE 2 * (RetryCount + 1)
    <3>1. asked[job[c]] <= IF First(Role[c]) THEN attempts[c] ELSE RetryCount + 1 + attempts[c]
      BY <2>1 DEF PInv, PipelineInv, AskedInv
    <3> QED BY <2>1, <2>4, <3>1, BreakerAssumption DEF BreakerAssumption
  <2>6. AskedInv'
    BY <1>3, <2>1, <2>4, <2>5 DEF PInv, PipelineInv, AskedInv
  <2>7. UnfoundInv' /\ AskedBounded' /\ UnaskedOnlyAfterQuota'
    BY <1>3, <2>2 DEF PInv, PipelineInv, UnfoundInv, AskedBounded, UnaskedOnlyAfterQuota
  <2> QED BY <2>2, <2>3, <2>6, <2>7 DEF PInv, PipelineInv
<1> QED BY <1>1, <1>2, <1>3 DEF Fetch

\* What is known of a page or a link when its fetch returns.
LEMMA SettleFacts ==
  ASSUME IInv, PInv, NEW c \in Caller, Settle(c)
  PROVE  /\ job[c] \in IF Role[c] \in {"crawl", "pageRetry"} THEN Page ELSE Link
         /\ job'= [job EXCEPT ![c] = Nothing]
         /\ pc'[c] = "idle" /\ attempts'[c] = 0
         /\ \A d \in Caller : d # c => pc'[d] = pc[d] /\ attempts'[d] = attempts[d]
         /\ triggered' => quotaSeen
         /\ First(Role[c]) => /\ asked[job[c]] <= RetryCount + 1
                              /\ asked[job[c]] >= Fetches(job[c]) - 1 \/ quotaSeen
         /\ ~First(Role[c]) => asked[job[c]] >= Fetches(job[c]) \/ quotaSeen
<1>1. pc[c] \in {"refused", "quota", "inFlight"} /\ pc'[c] = "idle"
  BY DEF Settle, ReturnRefused, TriggerCircuitBreaker, ReceiveAnswer, IInv, TypeOK
<1>2. \A d \in Caller : d # c => pc'[d] = pc[d] /\ attempts'[d] = attempts[d]
  BY DEF Settle, ReturnRefused, TriggerCircuitBreaker, ReceiveAnswer, IInv, TypeOK
<1>3. attempts'[c] = 0
  BY DEF Settle, ReturnRefused, TriggerCircuitBreaker, ReceiveAnswer, IInv, TypeOK, BreakerInv, LateInv
<1>4. job[c] \in IF Role[c] \in {"crawl", "pageRetry"} THEN Page ELSE Link
  BY <1>1 DEF PInv, PipelineInv, HandsInv
<1>5. asked[job[c]] \in Nat
  BY <1>4 DEF PInv, PipelineTypeOK
<1>6. pc[c] = "inFlight" => attempts[c] > 0
  BY DEF PInv, PipelineInv, HandsInv
<1>7. attempts[c] \in Nat /\ attempts[c] <= RetryCount + 1
  BY BreakerAssumption DEF BreakerAssumption, IInv, TypeOK
<1>8. pc[c] # "inFlight" => quotaSeen
  BY <1>1 DEF PInv, PipelineInv, QuotaInv
<1>9. IF First(Role[c])
      THEN /\ asked[job[c]] <= IF pc[c] = "quota" THEN RetryCount + 1 ELSE attempts[c]
           /\ asked[job[c]] >= attempts[c]
      ELSE asked[job[c]] >= attempts[c] + Fetches(job[c]) - 1 \/ quotaSeen
  BY <1>1 DEF PInv, PipelineInv, AskedInv
<1>10. /\ First(Role[c]) => /\ asked[job[c]] <= RetryCount + 1
                            /\ asked[job[c]] >= Fetches(job[c]) - 1 \/ quotaSeen
       /\ ~First(Role[c]) => asked[job[c]] >= Fetches(job[c]) \/ quotaSeen
  BY <1>5, <1>6, <1>7, <1>8, <1>9, BreakerAssumption, FetchesType DEF BreakerAssumption
<1>11. triggered' => quotaSeen
  BY DEF Settle, ReturnRefused, TriggerCircuitBreaker, ReceiveAnswer, PInv, PipelineInv, QuotaInv
<1>12. job'= [job EXCEPT ![c] = Nothing]
  BY DEF Settle, Succeeds, Fails
<1> QED BY <1>1, <1>2, <1>3, <1>4, <1>10, <1>11, <1>12

\* It goes to a stream, or to its end.
LEMMA SettleMoves ==
  ASSUME PInv, NEW c \in Caller, Settle(c)
  PROVE  \/ \E q \in {"page", "pageRetry", "itemRetry"} :
              /\ todo' = [todo EXCEPT ![q] = @ \union {job[c]}]
              /\ job[c] \in Target => job[c] \in Kind(q)
              /\ q # "page" => First(Role[c])
              /\ UNCHANGED <<done, dropped>>
         \/ /\ done' = done \union {job[c]} /\ job[c] \notin Page
            /\ UNCHANGED <<todo, dropped>>
         \/ /\ dropped' = dropped \union {job[c]} /\ ~First(Role[c])
            /\ UNCHANGED <<todo, done>>
<1>1. pc[c] # "idle" => job[c] \in IF Role[c] \in {"crawl", "pageRetry"} THEN Page ELSE Link
  BY DEF PInv, PipelineInv, HandsInv
<1>2. pc[c] # "idle"
  BY DEF Settle, ReturnRefused, TriggerCircuitBreaker, ReceiveAnswer
<1>3. CASE Succeeds(c)
  BY <1>1, <1>2, <1>3, PipelineAssumption DEF PipelineAssumption, Succeeds, Add, Kind
<1>4. CASE Fails(c)
  <2>1. CASE Role[c] = "crawl"
    BY <1>1, <1>2, <1>4, <2>1 DEF Fails, Add, Kind, First
  <2>2. CASE Role[c] = "page"
    BY <1>1, <1>2, <1>4, <2>2 DEF Fails, Add, Kind, First
  <2>3. CASE Role[c] \notin {"crawl", "page"}
    BY <1>4, <2>3 DEF Fails, First
  <2> QED BY <2>1, <2>2, <2>3
<1> QED BY <1>3, <1>4 DEF Settle

\* What was in hand is where it went, and nothing else has moved.
LEMMA SettlePlaces ==
  ASSUME IInv, PInv, NEW c \in Caller, Settle(c), NEW t, t = job[c]
  PROVE  /\ t \in Target /\ Places(t) = {<<"job", c>>}
         /\ \A u \in Target : u # t => Places(u)' = Places(u)
         /\ \/ \E q \in {"page", "pageRetry", "itemRetry"} :
                  /\ todo' = [todo EXCEPT ![q] = @ \union {t}]
                  /\ t \in Kind(q)
                  /\ q # "page" => First(Role[c])
                  /\ UNCHANGED <<done, dropped>>
                  /\ Places(t)' = {<<"todo", q>>}
            \/ /\ done' = done \union {t} /\ t \notin Page
               /\ UNCHANGED <<todo, dropped>>
               /\ Places(t)' = {<<"end", "done">>}
            \/ /\ dropped' = dropped \union {t} /\ ~First(Role[c])
               /\ UNCHANGED <<todo, done>>
               /\ Places(t)' = {<<"end", "dropped">>}
<1>1. t \in Target /\ UNCHANGED left
  BY SettleFacts DEF Settle
<1>2. job'[c] = Nothing /\ \A d \in Caller : d # c => job'[d] = job[d]
  BY SettleFacts DEF PInv, PipelineTypeOK
<1>3. WorkAccounted
  BY DEF PInv, PipelineInv
<1>4. /\ Places(t) = {<<"job", c>>}
      /\ \A r \in Roles : t \notin todo[r]
      /\ \A d \in Caller : d # c => job[d] # t
      /\ \A d \in Caller : t \notin left[d]
      /\ t \notin done /\ t \notin dropped
  BY <1>1, <1>3, InHandAlone
<1>5. Nothing \notin Target
  BY PipelineAssumption DEF PipelineAssumption
<1>6. ASSUME NEW u \in Target, u # t
      PROVE  \A d \in Caller : (u = job'[d] <=> u = job[d]) /\ (u \in left'[d] <=> u \in left[d])
  BY <1>1, <1>2, <1>5, <1>6
<1>7. CASE \E q \in {"page", "pageRetry", "itemRetry"} :
             /\ todo' = [todo EXCEPT ![q] = @ \union {t}]
             /\ t \in Target => t \in Kind(q)
             /\ q # "page" => First(Role[c])
             /\ UNCHANGED <<done, dropped>>
  <2>1. PICK q \in {"page", "pageRetry", "itemRetry"} :
          /\ todo' = [todo EXCEPT ![q] = @ \union {t}]
          /\ t \in Kind(q)
          /\ q # "page" => First(Role[c])
          /\ UNCHANGED <<done, dropped>>
    BY <1>1, <1>7
  <2>2. /\ \A r \in Roles : r # q => todo'[r] = todo[r]
        /\ todo'[q] = todo[q] \union {t}
    BY <2>1 DEF PInv, PipelineTypeOK
  <2>3. Places(t)' = {<<"todo", q>>}
    <3>1. <<"todo", q>> \in Place /\ <<"todo", q>> \in Places(t)'
      BY <1>1, <2>2, PlacesOfNext DEF PlacesLaw, Place
    <3>2. \A other \in Place : other # <<"todo", q>> => other \notin Places(t)'
      BY <1>1, <1>2, <1>4, <1>5, <2>1, <2>2, PlaceForms, PlacesOfNext DEF PlacesLaw
    <3> QED BY <1>1, <3>1, <3>2, OnlyPlace
  <2>4. ASSUME NEW u \in Target, u # t PROVE Places(u)' = Places(u)
    <3>1. \A r \in Roles : u \in todo'[r] <=> u \in todo[r]
      BY <2>2, <2>4
    <3> QED BY <1>6, <2>1, <2>4, <3>1, Unmoved
  <2> QED BY <1>1, <1>4, <2>1, <2>3, <2>4
<1>8. CASE done' = done \union {t} /\ t \notin Page /\ UNCHANGED <<todo, dropped>>
  <2>1. Places(t)' = {<<"end", "done">>}
    <3>1. <<"end", "done">> \in Place /\ <<"end", "done">> \in Places(t)'
      BY <1>1, <1>8, PlacesOfNext DEF PlacesLaw, Place
    <3>2. \A other \in Place : other # <<"end", "done">> => other \notin Places(t)'
      BY <1>1, <1>2, <1>4, <1>5, <1>8, PlaceForms, PlacesOfNext DEF PlacesLaw
    <3> QED BY <1>1, <3>1, <3>2, OnlyPlace
  <2>2. \A u \in Target : u # t => Places(u)' = Places(u)
    BY <1>1, <1>6, <1>8, Unmoved
  <2> QED BY <1>1, <1>4, <1>8, <2>1, <2>2
<1>9. CASE dropped' = dropped \union {t} /\ ~First(Role[c]) /\ UNCHANGED <<todo, done>>
  <2>1. Places(t)' = {<<"end", "dropped">>}
    <3>1. <<"end", "dropped">> \in Place /\ <<"end", "dropped">> \in Places(t)'
      BY <1>1, <1>9, PlacesOfNext DEF PlacesLaw, Place
    <3>2. \A other \in Place : other # <<"end", "dropped">> => other \notin Places(t)'
      BY <1>1, <1>2, <1>4, <1>5, <1>9, PlaceForms, PlacesOfNext DEF PlacesLaw
    <3> QED BY <1>1, <3>1, <3>2, OnlyPlace
  <2>2. \A u \in Target : u # t => Places(u)' = Places(u)
    BY <1>1, <1>6, <1>9, Unmoved
  <2> QED BY <1>1, <1>4, <1>9, <2>1, <2>2
<1> QED BY <1>7, <1>8, <1>9, SettleMoves

LEMMA SettleInv ==
  ASSUME IInv, PInv, NEW c \in Caller, Settle(c), NEW t, t = job[c] PROVE PInv'
<1>1. /\ t \in IF Role[c] \in {"crawl", "pageRetry"} THEN Page ELSE Link
      /\ t \in Target /\ UNCHANGED <<left, asked, quotaSeen>>
  BY SettleFacts DEF Settle
<1>2. /\ job'[c] = Nothing
      /\ \A d \in Caller : d # c => job'[d] = job[d] /\ pc'[d] = pc[d] /\ attempts'[d] = attempts[d]
      /\ pc'[c] = "idle" /\ attempts'[c] = 0
  BY SettleFacts DEF PInv, PipelineTypeOK
<1>3. WorkAccounted
  BY DEF PInv, PipelineInv
<1>4. Places(t) # {} /\ \A u \in Target : u # t => Places(u)' = Places(u)
  BY SettlePlaces
<1>5. HandsInv'
  BY <1>1, <1>2 DEF PInv, PipelineInv, HandsInv
<1>6. QuotaInv'
  BY <1>1, <1>2, SettleFacts DEF PInv, PipelineInv, QuotaInv
<1>7. AskedBounded'
  BY <1>1 DEF PInv, PipelineInv, AskedBounded
<1>8. \A d \in Caller : pc'[d] # "idle" => d # c
  BY <1>2
<1>9. ASSUME NEW place \in Place, Places(t)' = {place},
             \A p \in Page : p \in done' <=> p \in done
      PROVE  WorkAccounted' /\ UnfoundInv'
  <2>1. WorkAccounted'
    BY <1>1, <1>3, <1>4, <1>9, MoveInv
  <2>2. UnfoundInv'
    BY <1>1, <1>4, <1>9, UnfoundStays DEF PInv, PipelineInv
  <2> QED BY <2>1, <2>2
<1>10. CASE \E q \in {"page", "pageRetry", "itemRetry"} :
              /\ todo' = [todo EXCEPT ![q] = @ \union {t}]
              /\ t \in Kind(q)
              /\ q # "page" => First(Role[c])
              /\ UNCHANGED <<done, dropped>>
              /\ Places(t)' = {<<"todo", q>>}
  <2>1. PICK q \in {"page", "pageRetry", "itemRetry"} :
          /\ todo' = [todo EXCEPT ![q] = @ \union {t}]
          /\ t \in Kind(q)
          /\ q # "page" => First(Role[c])
          /\ UNCHANGED <<done, dropped>>
          /\ Places(t)' = {<<"todo", q>>}
    BY <1>10
  <2>2. /\ \A r \in Roles : r # q => todo'[r] = todo[r]
        /\ todo'[q] = todo[q] \union {t}
    BY <2>1 DEF PInv, PipelineTypeOK
  <2>3. PipelineTypeOK'
    BY <1>1, <2>1, <2>2, SettleFacts DEF PInv, PipelineTypeOK
  <2>4. WorkAccounted' /\ UnfoundInv'
    BY <1>9, <2>1 DEF Place
  <2>5. AskedInv'
    <3>1. q # "page" => asked[t] <= RetryCount + 1 /\ (asked[t] >= Fetches(t) - 1 \/ quotaSeen)
      BY <2>1, SettleFacts
    <3>2. \A r \in {"pageRetry", "itemRetry"} : \A u \in todo'[r] :
            asked[u] <= RetryCount + 1 /\ (asked[u] >= Fetches(u) - 1 \/ quotaSeen)
      BY <2>2, <3>1 DEF PInv, PipelineInv, AskedInv
    <3>3. todo'["crawl"] = todo["crawl"]
      BY <2>2
    <3> QED BY <1>1, <1>2, <1>8, <3>2, <3>3 DEF PInv, PipelineInv, AskedInv
  <2>6. UnaskedOnlyAfterQuota'
    BY <1>1, <2>1 DEF PInv, PipelineInv, UnaskedOnlyAfterQuota
  <2> QED BY <1>5, <1>6, <1>7, <2>3, <2>4, <2>5, <2>6 DEF PInv, PipelineInv
<1>11. CASE /\ done' = done \union {t} /\ t \notin Page
            /\ UNCHANGED <<todo, dropped>>
            /\ Places(t)' = {<<"end", "done">>}
  <2>1. PipelineTypeOK'
    BY <1>1, <1>11, SettleFacts DEF PInv, PipelineTypeOK
  <2>2. WorkAccounted' /\ UnfoundInv'
    BY <1>9, <1>11 DEF Place
  <2>3. AskedInv' /\ UnaskedOnlyAfterQuota'
    BY <1>1, <1>2, <1>8, <1>11 DEF PInv, PipelineInv, AskedInv, UnaskedOnlyAfterQuota
  <2> QED BY <1>5, <1>6, <1>7, <2>1, <2>2, <2>3 DEF PInv, PipelineInv
<1>12. CASE /\ dropped' = dropped \union {t} /\ ~First(Role[c])
            /\ UNCHANGED <<todo, done>>
            /\ Places(t)' = {<<"end", "dropped">>}
  <2>1. PipelineTypeOK'
    BY <1>1, <1>12, SettleFacts DEF PInv, PipelineTypeOK
  <2>2. WorkAccounted' /\ UnfoundInv'
    BY <1>9, <1>12 DEF Place
  <2>3. asked[t] >= Fetches(t) \/ quotaSeen
    BY <1>12, SettleFacts
  <2>4. AskedInv' /\ UnaskedOnlyAfterQuota'
    BY <1>1, <1>2, <1>8, <1>12, <2>3 DEF PInv, PipelineInv, AskedInv, UnaskedOnlyAfterQuota
  <2> QED BY <1>5, <1>6, <1>7, <2>1, <2>2, <2>4 DEF PInv, PipelineInv
<1> QED BY <1>10, <1>11, <1>12, SettlePlaces

\* A message is there once more.
LEMMA ClaimMoves ==
  ASSUME PInv, NEW c \in Caller, Claim(c)
  PROVE  \E t \in Copies \intersect Kind(Role[c]) :
           /\ Role[c] \in Streams /\ t \in Target
           /\ todo' = [todo EXCEPT ![Role[c]] = @ \union {t}]
           /\ \A p \in Page : t \notin Listed[p]
           /\ t \notin Found /\ Places(t) = {} /\ Places(t)' = {<<"todo", Role[c]>>}
           /\ \A u \in Target : u # t => Places(u)' = Places(u)
<1> DEFINE r == Role[c]
<1>1. PICK u \in Unacknowledged(c) : /\ Copy[r][u] # Nothing
                                      /\ Copy[r][u] \notin Found
                                      /\ Add(r, Copy[r][u])
  BY DEF Claim
<1>2. r \in Streams /\ UNCHANGED <<job, left, done, dropped>>
  BY DEF Claim
<1>3. u \in Target
  BY DEF Unacknowledged, PInv, PipelineTypeOK
<1>4. PICK t : t = Copy[r][u]
  OBVIOUS
<1>5. /\ t \in Copies /\ t \in Kind(r) /\ t \in Target
      /\ \A p \in Page : t \notin Listed[p]
  BY <1>1, <1>2, <1>3, <1>4, PipelineAssumption DEF PipelineAssumption, Copies, Kind
<1>6. todo' = [todo EXCEPT ![r] = @ \union {t}]
  BY <1>1, <1>4 DEF Add
<1>7. Places(t) = {} /\ t \notin Found
  BY <1>1, <1>4, <1>5, FoundIs DEF FoundLaw
<1>8. /\ \A q \in Roles : q # r => todo'[q] = todo[q]
      /\ todo'[r] = todo[r] \union {t}
  BY <1>2, <1>6 DEF PInv, PipelineTypeOK
<1>9. Places(t)' = {<<"todo", r>>}
  <2>1. <<"todo", r>> \in Place /\ <<"todo", r>> \in Places(t)'
    BY <1>2, <1>5, <1>8, PlacesOfNext DEF PlacesLaw, Place
  <2>2. /\ \A q \in Roles : t \notin todo[q]
        /\ \A d \in Caller : job[d] # t /\ t \notin left[d]
        /\ t \notin done /\ t \notin dropped
    BY <1>5, <1>7, PlacesOf DEF PlacesLaw
  <2>3. \A other \in Place : other # <<"todo", r>> => other \notin Places(t)'
    BY <1>2, <1>5, <1>8, <2>2, PlaceForms, PlacesOfNext DEF PlacesLaw
  <2> QED BY <1>5, <2>1, <2>3, OnlyPlace
<1>10. ASSUME NEW v \in Target, v # t PROVE Places(v)' = Places(v)
  <2>1. \A q \in Roles : v \in todo'[q] <=> v \in todo[q]
    BY <1>8, <1>10
  <2> QED BY <1>2, <2>1, Unmoved
<1> QED BY <1>2, <1>5, <1>6, <1>7, <1>9, <1>10

LEMMA ClaimInv ==
  ASSUME PInv, NEW c \in Caller, Claim(c) PROVE PInv'
<1> DEFINE r == Role[c]
<1>1. PICK t \in Copies \intersect Kind(r) :
        /\ r \in Streams /\ t \in Target
        /\ todo' = [todo EXCEPT ![r] = @ \union {t}]
        /\ \A p \in Page : t \notin Listed[p]
        /\ t \notin Found /\ Places(t) = {} /\ Places(t)' = {<<"todo", r>>}
        /\ \A u \in Target : u # t => Places(u)' = Places(u)
  BY ClaimMoves
<1>2. UNCHANGED <<vars, job, left, done, dropped, asked, quotaSeen>>
  BY DEF Claim
<1>3. /\ \A q \in Roles : q # r => todo'[q] = todo[q]
      /\ todo'[r] = todo[r] \union {t}
  BY <1>1 DEF PInv, PipelineTypeOK
<1>4. PipelineTypeOK'
  BY <1>1, <1>2, <1>3 DEF PInv, PipelineTypeOK
<1>5. WorkAccounted'
  <2>1. WorkPlaced
    BY WorkInPlaces DEF PInv, PipelineInv
  <2>2. \A u \in Target : \A a, b \in Places(u)' : a = b
    BY <1>1, <2>1 DEF WorkPlaced
  <2>3. \A p \in Page \ Copies : Places(p)' # {}
    BY <1>1, <2>1 DEF WorkPlaced
  <2>4. \A p \in Page : \A i \in Listed[p] : i \in Target /\ i # t
    BY <1>1, PipelineAssumption DEF PipelineAssumption
  <2>5. WorkPlaced'
    BY <1>1, <1>2, <2>1, <2>2, <2>3, <2>4 DEF WorkPlaced
  <2> QED BY <2>5, WorkInPlacesNext
<1>6. asked[t] = 0 /\ Fetches(t) = 1
  BY <1>1 DEF PInv, PipelineInv, UnfoundInv, Fetches
<1>7. AskedInv'
  <2>1. \A q \in {"pageRetry", "itemRetry"} : \A u \in todo'[q] :
          asked[u] <= RetryCount + 1 /\ (asked[u] >= Fetches(u) - 1 \/ quotaSeen)
    BY <1>3, <1>6, BreakerAssumption DEF BreakerAssumption, PInv, PipelineInv, AskedInv
  <2>2. todo'["crawl"] = todo["crawl"]
    BY <1>1, <1>3
  <2> QED BY <1>2, <2>1, <2>2 DEF PInv, PipelineInv, AskedInv
<1>8. UnfoundInv'
  BY <1>1, <1>2, UnfoundStays DEF PInv, PipelineInv
<1>9. HandsInv' /\ QuotaInv' /\ AskedBounded' /\ UnaskedOnlyAfterQuota'
  BY <1>2 DEF PInv, PipelineInv, HandsInv, QuotaInv, AskedBounded, UnaskedOnlyAfterQuota
<1> QED BY <1>4, <1>5, <1>7, <1>8, <1>9 DEF PInv, PipelineInv

LEMMA PipelineNextInv ==
  ASSUME IInv, IInv', PInv, [PipelineNext]_allVars PROVE PInv'
<1>0. WorkAccounted
  BY DEF PInv, PipelineInv
<1>1. CASE UNCHANGED pipeline /\ (TimePasses \/ UNCHANGED vars)
  <2>1. WorkAccounted' /\ Found' = Found
    BY <1>0, <1>1, StaysInPlace
  <2>2. UNCHANGED <<triggered, pc, attempts>>
    BY <1>1 DEF TimePasses, Tick
  <2>3. PipelineTypeOK' /\ HandsInv' /\ QuotaInv'
    BY <1>1, <2>2 DEF PInv, PipelineTypeOK, PipelineInv, HandsInv, QuotaInv
  <2>4. AskedInv'
    BY <1>1, <2>2 DEF PInv, PipelineInv, AskedInv
  <2>5. UnfoundInv' /\ AskedBounded' /\ UnaskedOnlyAfterQuota'
    BY <1>1, <2>1 DEF PInv, PipelineInv, UnfoundInv, AskedBounded, UnaskedOnlyAfterQuota
  <2> QED BY <2>1, <2>3, <2>4, <2>5 DEF PInv, PipelineInv
<1>2. ASSUME NEW c \in Caller, Work(c) PROVE PInv'
  BY <1>2, TakeTaskInv, TakePageInv, TakeItemInv, FetchInv, SettleInv DEF Work
<1>3. ASSUME NEW c \in Caller, Claim(c) PROVE PInv'
  BY <1>3, ClaimInv
<1> QED BY <1>1, <1>2, <1>3 DEF PipelineNext, TimePasses

LEMMA PipelineInitInv == ASSUME PipelineInit PROVE PInv
<1>1. PipelineTypeOK
  BY DEF PipelineInit, PipelineTypeOK, Kind
<1>2. \A t \in Target : Places(t) = IF t \in Page \ Copies THEN {<<"todo", "crawl">>} ELSE {}
  <2> SUFFICES ASSUME NEW t \in Target
               PROVE  Places(t) = IF t \in Page \ Copies THEN {<<"todo", "crawl">>} ELSE {}
    OBVIOUS
  <2>1. Places(t) \subseteq Place
    BY PlacesOf DEF PlacesLaw
  <2>2. <<"todo", "crawl">> \in Places(t) <=> t \in Page \ Copies
    <3>1. todo["crawl"] = Page \ Copies
      BY DEF PipelineInit
    <3>2. <<"todo", "crawl">> \in Places(t) <=> t \in todo["crawl"]
      BY PlacesOf DEF PlacesLaw
    <3> QED BY <3>1, <3>2
  <2>3. \A place \in Place : place # <<"todo", "crawl">> => place \notin Places(t)
    <3>1. /\ \A r \in Roles : r # "crawl" => todo[r] = {}
          /\ \A c \in Caller : job[c] = Nothing /\ left[c] = {}
          /\ done = {} /\ dropped = {}
      BY DEF PipelineInit
    <3>2. t # Nothing
      BY PipelineAssumption DEF PipelineAssumption
    <3> QED BY <3>1, <3>2, PlaceForms, PlacesOf DEF PlacesLaw
  <2>4. CASE t \in Page \ Copies
    BY <2>1, <2>2, <2>3, <2>4
  <2>5. CASE t \notin Page \ Copies
    <3>1. \A place \in Place : place \notin Places(t)
      BY <2>2, <2>3, <2>5
    <3> QED BY <2>1, <2>5, <3>1
  <2> QED BY <2>4, <2>5
<1>3. \A p \in Page : \A i \in Listed[p] : i \in Target /\ i \notin Page
  BY PipelineAssumption DEF PipelineAssumption
<1>4. WorkAccounted
  <2>1. WorkPlaced
    BY <1>2, <1>3 DEF WorkPlaced, PipelineInit
  <2> QED BY <2>1, WorkInPlaces
<1>5. HandsInv /\ QuotaInv
  BY DEF PipelineInit, Init, HandsInv, QuotaInv
<1>6. AskedInv /\ UnfoundInv /\ AskedBounded /\ UnaskedOnlyAfterQuota
  BY BreakerAssumption
  DEF BreakerAssumption, PipelineInit, Init, AskedInv, UnfoundInv, AskedBounded,
      UnaskedOnlyAfterQuota
<1> QED BY <1>1, <1>4, <1>5, <1>6 DEF PInv, PipelineInv

-----------------------------------------------------------------------------
(* The theorems.                                                           *)

\* The inductive invariant, which rests on that of the breaker.
THEOREM PipelineInvariant == PipelineSpec => []PInv
<1>1. PipelineInit => PInv
  BY PipelineInitInv
<1>2. IInv /\ IInv' /\ PInv /\ [PipelineNext]_allVars => PInv'
  BY PipelineNextInv
<1>3. PipelineSpec => []IInv
  BY PipelineImplementsBreaker, BreakerInvariant
<1> QED BY <1>1, <1>2, <1>3, PTL DEF PipelineSpec

\* The state of the pipeline has its types.
THEOREM PipelineTypeCorrect == PipelineSpec => []PipelineTypeOK
<1>1. PInv => PipelineTypeOK
  BY DEF PInv
<1> QED BY <1>1, PipelineInvariant, PTL

\* No page and no link is lost on its way or in two places, with any number of goroutines
\* and claims, and whatever the breaker refuses.
THEOREM NothingIsLost == PipelineSpec => []WorkAccounted
<1>1. PInv => WorkAccounted
  BY DEF PInv, PipelineInv
<1> QED BY <1>1, PipelineInvariant, PTL

\* The number of requests for a page or an item is bounded over all pauses, by how often
\* it is linked and handled again: at most 2 * (RetryCount + 1) for each of these.
THEOREM RequestsAreBounded == PipelineSpec => []RequestsBounded
<1>1. PInv => RequestsBounded
  <2> SUFFICES ASSUME PInv, NEW s
               PROVE  Cardinality(Requests(s)) <= 2 * (RetryCount + 1) * Cardinality(FoundOf(s))
    BY DEF RequestsBounded
  <2> DEFINE n == 2 * (RetryCount + 1)
  <2>1. n \in Nat
    BY BreakerAssumption DEF BreakerAssumption
  <2>2. IsFiniteSet(FoundOf(s))
    <3>1. FoundOf(s) \subseteq Target
      BY DEF FoundOf, Found
    <3> QED BY <3>1, FS_Union, FS_Subset, PipelineAssumption DEF PipelineAssumption
  <2>3. Requests(s) \subseteq FoundOf(s) \X (1..n)
    <3>1. \A t \in FoundOf(s) : asked[t] \in Nat /\ asked[t] <= n
      BY DEF PInv, PipelineTypeOK, PipelineInv, AskedBounded, FoundOf, Found
    <3>2. \A t \in FoundOf(s) : 1..asked[t] \subseteq 1..n
      BY <2>1, <3>1
    <3> QED BY <3>2 DEF Requests
  <2>4. IsFiniteSet(1..n) /\ Cardinality(1..n) = n
    BY <2>1, FS_Interval
  <2>5. /\ IsFiniteSet(FoundOf(s) \X (1..n))
        /\ Cardinality(FoundOf(s) \X (1..n)) = Cardinality(FoundOf(s)) * Cardinality(1..n)
    BY <2>2, <2>4, FS_Product
  <2>6. Cardinality(Requests(s)) <= Cardinality(FoundOf(s) \X (1..n))
    BY <2>3, <2>5, FS_Subset
  <2>7. Cardinality(FoundOf(s)) \in Nat
    BY <2>2, FS_CardinalityType
  <2> QED BY <2>1, <2>4, <2>5, <2>6, <2>7
<1> QED BY <1>1, PipelineInvariant, PTL

\* Nothing is given up without a request in each of its fetches, of which there are two
\* unless it is a message handled again, before the site has asked for a pause.
THEOREM GivenUpAfterItsRequests == PipelineSpec => []UnaskedOnlyAfterQuota
<1>1. PInv => UnaskedOnlyAfterQuota
  BY DEF PInv, PipelineInv
<1> QED BY <1>1, PipelineInvariant, PTL

\* Under the pipeline, too, each call of fetchHTML takes few steps of its own, and a pause is
\* prolonged by those only that were let through before it, once each.
THEOREM PipelineCallsReturn == PipelineSpec => [][CallsWindDown /\ LateCallersRunOut]_vars
<1>1. [CallsWindDown]_vars /\ [LateCallersRunOut]_vars => [CallsWindDown /\ LateCallersRunOut]_vars
  OBVIOUS
<1> QED BY <1>1, PipelineImplementsBreaker, CallsReturn, PausesRunOut, PTL

-----------------------------------------------------------------------------
(* The way of a page or a link has an end.                                 *)

\* How far a page or a link has come in its place: it waits for its first fetch, is
\* being fetched, waits for its retry, is retried, waits as a page task, has settled.
Stage(place) ==
  CASE place[1] = "left" \/ place = <<"todo", "crawl">> -> 0
    [] place[1] = "job" -> IF First(Role[place[2]]) THEN 1 ELSE 3
    [] place \in {<<"todo", "pageRetry">>, <<"todo", "itemRetry">>} -> 2
    [] place = <<"todo", "page">> -> 4
    [] place[1] = "end" -> 5

LEMMA StageOf ==
  /\ Stage(<<"todo", "crawl">>) = 0 /\ Stage(<<"todo", "page">>) = 4
  /\ Stage(<<"todo", "pageRetry">>) = 2 /\ Stage(<<"todo", "itemRetry">>) = 2
  /\ \A c \in Caller : Stage(<<"left", c>>) = 0
  /\ \A c \in Caller : Stage(<<"job", c>>) = IF First(Role[c]) THEN 1 ELSE 3
  /\ Stage(<<"end", "done">>) = 5 /\ Stage(<<"end", "dropped">>) = 5
  BY DEF Stage

\* Whatever is somewhere stays there or goes further.
MovesOn ==
  \A t \in Target :
    /\ Places(t) # {} => Places(t)' # {}
    /\ \A a \in Places(t) : \A b \in Places(t)' : a = b \/ Stage(a) < Stage(b)

\* One thing goes further and the others stay.
LEMMA OneMovesOn ==
  ASSUME WorkAccounted, NEW t \in Target, NEW a, NEW b,
         Places(t) = {a}, Places(t)' = {b}, Stage(a) < Stage(b),
         \A u \in Target : u # t => Places(u)' = Places(u)
  PROVE  MovesOn
<1> SUFFICES ASSUME NEW u \in Target
             PROVE  /\ Places(u) # {} => Places(u)' # {}
                    /\ \A x \in Places(u) : \A y \in Places(u)' : x = y \/ Stage(x) < Stage(y)
  BY DEF MovesOn
<1>1. CASE u = t
  BY <1>1
<1>2. CASE u # t
  BY <1>2, OnePlace
<1> QED BY <1>1, <1>2

LEMMA SettleMovesOn ==
  ASSUME IInv, PInv, NEW c \in Caller, Settle(c), NEW t, t = job[c] PROVE MovesOn
<1>1. /\ WorkAccounted
      /\ t \in Target /\ Places(t) = {<<"job", c>>}
      /\ \A u \in Target : u # t => Places(u)' = Places(u)
  BY SettlePlaces DEF PInv, PipelineInv
<1>2. \E b \in Place : Places(t)' = {b} /\ Stage(<<"job", c>>) < Stage(b)
  <2>1. CASE \E q \in {"page", "pageRetry", "itemRetry"} :
               (q # "page" => First(Role[c])) /\ Places(t)' = {<<"todo", q>>}
    BY <2>1, StageOf DEF Place
  <2>2. CASE \E e \in {"done", "dropped"} : Places(t)' = {<<"end", e>>}
    BY <2>2, StageOf DEF Place
  <2> QED BY <2>1, <2>2, SettlePlaces
<1> QED BY <1>1, <1>2, OneMovesOn

LEMMA WorkMovesOn ==
  ASSUME IInv, PInv, NEW c \in Caller, Work(c) PROVE MovesOn
<1>0. WorkAccounted
  BY DEF PInv, PipelineInv
<1>1. CASE TakeTask(c)
  <2>1. PICK t \in todo[Role[c]] : /\ todo' = [todo EXCEPT ![Role[c]] = @ \ {t}]
                                  /\ job' = [job EXCEPT ![c] = t]
    BY <1>1 DEF TakeTask
  <2>2. Stage(<<"todo", Role[c]>>) < Stage(<<"job", c>>)
    <3>1. Role[c] \in {"crawl", "pageRetry", "itemRetry"}
      BY <1>1, PipelineAssumption DEF PipelineAssumption, TakeTask
    <3> QED BY <3>1, StageOf DEF First
  <2>3. /\ t \in Target
        /\ Places(t) = {<<"todo", Role[c]>>} /\ Places(t)' = {<<"job", c>>}
        /\ \A u \in Target : u # t => Places(u)' = Places(u)
    BY <1>1, <2>1, TakeTaskMoves
  <2> QED BY <1>0, <2>2, <2>3, OneMovesOn
<1>2. CASE TakePage(c)
  <2>1. PICK p \in todo["page"] : /\ todo' = [todo EXCEPT !["page"] = @ \ {p}]
                                  /\ left' = [left EXCEPT ![c] = Listed[p]]
                                  /\ done' = done \union {p}
    BY <1>2 DEF TakePage
  <2>2. /\ Places(p) = {<<"todo", "page">>} /\ Places(p)' = {<<"end", "done">>}
        /\ \A i \in Listed[p] : Places(i) = {}
        /\ \A u \in Target : u # p /\ u \notin Listed[p] => Places(u)' = Places(u)
    BY <1>2, <2>1, TakePageMoves
  <2>3. Stage(<<"todo", "page">>) < Stage(<<"end", "done">>)
    BY StageOf
  <2> SUFFICES ASSUME NEW u \in Target
               PROVE  /\ Places(u) # {} => Places(u)' # {}
                      /\ \A a \in Places(u) : \A b \in Places(u)' : a = b \/ Stage(a) < Stage(b)
    BY DEF MovesOn
  <2>4. CASE u = p
    BY <2>2, <2>3, <2>4
  <2>5. CASE u \in Listed[p]
    BY <2>2, <2>5
  <2>6. CASE u # p /\ u \notin Listed[p]
    BY <1>0, <2>2, <2>6, OnePlace
  <2> QED BY <2>4, <2>5, <2>6
<1>3. CASE TakeItem(c)
  <2>1. PICK t \in left[c] : /\ left' = [left EXCEPT ![c] = @ \ {t}]
                             /\ job' = [job EXCEPT ![c] = t]
    BY <1>3 DEF TakeItem
  <2>2. Stage(<<"left", c>>) < Stage(<<"job", c>>)
    BY StageOf
  <2>3. /\ t \in Target
        /\ Places(t) = {<<"left", c>>} /\ Places(t)' = {<<"job", c>>}
        /\ \A u \in Target : u # t => Places(u)' = Places(u)
    BY <1>3, <2>1, TakeItemMoves
  <2> QED BY <1>0, <2>2, <2>3, OneMovesOn
<1>4. CASE Fetch(c)
  <2>1. UNCHANGED <<todo, job, left, done, dropped>>
    BY <1>4 DEF Fetch
  <2>2. \A t \in Target : Places(t)' = Places(t)
    BY <1>0, <2>1, StaysInPlace
  <2> QED BY <1>0, <2>2, OnePlace DEF MovesOn
<1>5. CASE Settle(c)
  BY <1>5, SettleMovesOn
<1> QED BY <1>1, <1>2, <1>3, <1>4, <1>5 DEF Work

\* No page and no link ever comes back to where it was, so each of them is taken, retried
\* and settled at most once, with any number of goroutines, of pauses and of copies: what
\* AllSettle needs besides the fairness of the goroutines.
THEOREM PipelineMovesOn == PipelineSpec => [][MovesOn]_allVars
<1>1. IInv /\ PInv /\ [PipelineNext]_allVars => [MovesOn]_allVars
  <2> SUFFICES ASSUME IInv, PInv, PipelineNext PROVE MovesOn
    OBVIOUS
  <2>1. CASE TimePasses
    <3>1. WorkAccounted /\ UNCHANGED <<todo, job, left, done, dropped>>
      BY <2>1 DEF TimePasses, PInv, PipelineInv
    <3>2. \A t \in Target : Places(t)' = Places(t)
      BY <3>1, StaysInPlace
    <3> QED BY <3>1, <3>2, OnePlace DEF MovesOn
  <2>2. ASSUME NEW c \in Caller, Work(c) PROVE MovesOn
    BY <2>2, WorkMovesOn
  <2>3. ASSUME NEW c \in Caller, Claim(c) PROVE MovesOn
    <3>1. PICK t \in Target : /\ Places(t) = {}
                              /\ \A u \in Target : u # t => Places(u)' = Places(u)
      BY <2>3, ClaimMoves
    <3>2. WorkAccounted
      BY DEF PInv, PipelineInv
    <3> QED BY <3>1, <3>2, OnePlace DEF MovesOn
  <2> QED BY <2>1, <2>2, <2>3 DEF PipelineNext
<1>2. PipelineSpec => []IInv
  BY PipelineImplementsBreaker, BreakerInvariant
<1> QED BY <1>1, <1>2, PipelineInvariant, PTL DEF PipelineSpec

=============================================================================
