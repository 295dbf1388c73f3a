------------------------------ MODULE DeadMan ------------------------------
(***************************************************************************)
(* What the robot server's watchdog promises, free of threads: a robot     *)
(* that hears nothing for Deadline watchdog periods stands still, and only *)
(* an operator sets it in motion.                                          *)
(***************************************************************************)
EXTENDS Naturals

CONSTANT Deadline

VARIABLES
    age,        \* watchdog periods since the operator was last heard
    moving      \* the command to the motors is not a stop

vars == <<age, moving>>

Init == age = Deadline /\ moving = FALSE

\* The operator is heard; within the period, what was said takes effect.
Command == age' = 0 /\ moving' \in BOOLEAN

\* The command becomes a stop.
Stop == moving' = FALSE /\ UNCHANGED age

\* A period ends; at the deadline the robot stands still.
Tick ==
    /\ age < Deadline
    /\ age' = age + 1
    /\ age' = Deadline => ~moving
    /\ UNCHANGED moving

Next == Command \/ Stop \/ Tick

Spec == Init /\ [][Next]_vars
=============================================================================
