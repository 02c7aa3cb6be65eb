------------------------------- MODULE Dw2Duel --------------------------------
(***************************************************************************)
(* The fight a match server runs, as run_tick and resolve_round_break,     *)
(* apps/server/main.c, see it: seconds of combat, a round break after      *)
(* every few of them, and an end as soon as a second leaves a destroyed    *)
(* ship or the time is over.  What happens within a second is left open.   *)
(***************************************************************************)
EXTENDS Dw2Hulls

CONSTANTS
  RoundTicks,    \* DW2_ROUND_TICKS
  TimeoutTicks   \* DW2_MATCH_TIMEOUT_TICKS

VARIABLES
  elapsed,   \* elapsed_ticks
  phase,     \* "second": fighting; "break": ticking is paused; "over"
  hulls      \* the hulls after the last second or break

vars == <<elapsed, phase, hulls>>

Init ==
  /\ elapsed = 0
  /\ phase = "second"
  /\ hulls = [s \in Seats |-> FullHull]

\* What follows the second that made t of them.
AfterSecond(t, h) ==
  IF t >= TimeoutTicks \/ \E s \in Seats : h[s] = 0 THEN "over"
  ELSE IF t % RoundTicks = 0 THEN "break"
  ELSE "second"

Second ==
  /\ phase = "second"
  /\ elapsed' = elapsed + 1
  /\ hulls' \in HullsAfterTick(hulls)
  /\ phase' = AfterSecond(elapsed', hulls')

\* A ship that its own Overcharge destroys fights one more second.
Break ==
  /\ phase = "break"
  /\ \E call \in [Seats -> {"overcharge", "brace", "none"}] :
       hulls' \in HullsAfterBreak(hulls, call)
  /\ phase' = "second"
  /\ UNCHANGED elapsed

Next == Second \/ Break

Spec == Init /\ [][Next]_vars
=============================================================================
