----------------------------- MODULE RoundRobin -----------------------------
(***************************************************************************)
(* What the scheduler promises: the tasks take turns in the order in which *)
(* they were made, and a new task comes last.                              *)
(***************************************************************************)
EXTENDS Integers

VARIABLES
  tasks,     (* how many tasks there are: they are 1 .. tasks *)
  turn       (* whose turn it is, 0 before the first task     *)

vars == <<tasks, turn>>

Init == tasks = 0 /\ turn = 0

Start == tasks = 0 /\ tasks' = 1 /\ turn' = 1

Spawn == tasks > 0 /\ tasks' = tasks + 1 /\ turn' = turn

Turn == tasks > 0 /\ turn' = (turn % tasks) + 1 /\ tasks' = tasks

Next == Start \/ Spawn \/ Turn

Spec == Init /\ [][Next]_vars
=============================================================================
