---------------------------- MODULE ResumableScan ----------------------------
(***************************************************************************)
(* What the crawl of a category promises to whoever restarts it, without   *)
(* fetchers, channel or semaphore.  Pages are handed over (to a stream, or *)
(* to the log when that fails) in any order; a mark says where to resume.  *)
(* A scan never forgets a page it handed over, resumes at its mark (page 1 *)
(* when there is none), and moves the mark past at most Slack pages of the *)
(* current run that it has not handed over.                                *)
(***************************************************************************)
EXTENDS Integers, FiniteSets

CONSTANT Slack   \* pages of one run the mark may pass too early

VARIABLES
  handed,   \* the pages handed over, in all runs
  mark,     \* where to resume; 0 when there is no mark
  from      \* where the current run started; 0 when there is no run

scanVars == <<handed, mark, from>>

Init ==
  /\ handed = {}
  /\ mark = 0
  /\ from = 0

\* The pages from `from` on that a resume at m would leave out.
LeftOut(m) == {p \in from..(m - 1) : p \notin handed}

HandOver ==
  /\ handed \subseteq handed'
  /\ UNCHANGED <<mark, from>>

MoveMark ==
  /\ from # 0
  /\ mark' \in Nat
  /\ Cardinality(LeftOut(mark')) <= Slack
  /\ UNCHANGED <<handed, from>>

Resume ==
  /\ from = 0
  /\ from' = IF mark = 0 THEN 1 ELSE mark
  /\ UNCHANGED <<handed, mark>>

Stop ==
  /\ from' = 0
  /\ UNCHANGED <<handed, mark>>

Next == HandOver \/ MoveMark \/ Resume \/ Stop

Spec == Init /\ [][Next]_scanVars

=============================================================================
