------------------------------- MODULE RoundRobin -------------------------------
(***************************************************************************)
(* What the tasks of the legacy kernel may count on: one of them runs at a *)
(* time, each goes on where it was when it was interrupted, and they take  *)
(* turns in the order of the process table.  LegacyTasks implements this.  *)
(***************************************************************************)
EXTENDS Naturals

CONSTANTS MAX_THREAD,   \* the number of tasks
          LoopSteps     \* the steps of a task's endless loop

Tasks == 0 .. MAX_THREAD - 1

VARIABLES current,      \* whose turn it is
          place         \* where each task is in its loop

rrvars == <<current, place>>

RRInit == /\ current = 0
          /\ place = [t \in Tasks |-> 0]

Work == /\ place' = [place EXCEPT ![current] = (@ + 1) % LoopSteps]
        /\ UNCHANGED current

Switch == /\ current' = IF current = MAX_THREAD - 1 THEN 0 ELSE current + 1
          /\ UNCHANGED place

RRNext == Work \/ Switch

RRSpec == RRInit /\ [][RRNext]_rrvars
=============================================================================
