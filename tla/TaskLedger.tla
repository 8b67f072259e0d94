----------------------------- MODULE TaskLedger -----------------------------
(***************************************************************************)
(* What the task queue and its workers promise about every task, without   *)
(* streams, consumers, claims or crashes: tasks are added; the work of a   *)
(* task gets done, possibly more than once and possibly together with that *)
(* of other tasks; a task is crossed off only when its work is done.       *)
(* Nothing is ever taken back.                                             *)
(***************************************************************************)

CONSTANT Task

VARIABLES
  added,
  done,     \* added tasks whose work is done
  crossed   \* tasks that will not be worked on again

ledgerVars == <<added, done, crossed>>

Init ==
  /\ added = {}
  /\ done = {}
  /\ crossed = {}

\* New tasks; the work of a new task may be done already.
Add ==
  /\ added \subseteq added'
  /\ added' \subseteq Task
  /\ done \subseteq done'
  /\ done' \subseteq added'
  /\ UNCHANGED crossed

Work ==
  /\ done \subseteq done'
  /\ done' \subseteq added
  /\ UNCHANGED <<added, crossed>>

CrossOff ==
  /\ crossed \subseteq crossed'
  /\ crossed' \subseteq done
  /\ UNCHANGED <<added, done>>

Next == Add \/ Work \/ CrossOff

Spec == Init /\ [][Next]_ledgerVars

=============================================================================
