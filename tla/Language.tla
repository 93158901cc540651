------------------------------ MODULE Language ------------------------------
(***************************************************************************)
(* What an engine promises: it runs the program it is given to an end, and  *)
(* the outcome is the meaning of the program.                               *)
(***************************************************************************)
CONSTANT Meaning(_)

VARIABLES program, outcome

Running == <<"RUNNING", 0>>

Init == outcome = Running

Finish == outcome = Running /\ outcome' = Meaning(program) /\ UNCHANGED program

Spec == Init /\ [][Finish]_<<program, outcome>> /\ WF_<<program, outcome>>(Finish)
=============================================================================
