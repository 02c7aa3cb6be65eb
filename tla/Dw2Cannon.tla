------------------------------- MODULE Dw2Cannon -------------------------------
(***************************************************************************)
(* Whether a charged gun fires: two signals of the fight are packed into   *)
(* one of four states, core/cannon.c, and a compiled program answers for   *)
(* each, cannon/cannon_decision_gen.c.  Dw2Combat is parameterised by the  *)
(* program; this is the one the server is built with.                      *)
(***************************************************************************)
EXTENDS Integers

Hold == 0    \* DW2_CANNON_HOLD
Fire == 1    \* DW2_CANNON_FIRE

\* lo_program as it is shipped: "FIRE in all 4 states".
cannon_decision == [state \in 0 .. 3 |-> Fire]

dw2_cannon_decide(lo_program, self_behind, shot_is_overkill) ==
  lo_program[(IF shot_is_overkill THEN 2 ELSE 0) + (IF self_behind THEN 1 ELSE 0)]

\* The gun does not fire when the answer is HOLD, whatever else it may be.
Fires(lo_program) ==
  [signals \in BOOLEAN \X BOOLEAN |->
     dw2_cannon_decide(lo_program, signals[1], signals[2]) # Hold]
=============================================================================
