------------------------------- MODULE Dw2Hulls -------------------------------
(***************************************************************************)
(* What the server sees of a ship in a fight: its hull, in a few ordered   *)
(* levels, and what a second of combat or a round break may do to it.      *)
(***************************************************************************)
EXTENDS Integers

CONSTANT
  FullHull   \* the level standing for a hull of 100 %; 0 is destroyed, and no
             \* single missed Overcharge takes a whole ship there

ASSUME HullAssumption == FullHull \in Nat \ {0, 1}

Seats  == {0, 1}
Levels == 0 .. FullHull

\* dw2_match_tick: a destroyed hull stays destroyed, any other may lose to the
\* enemy's volley or gain from a Mender.
HullsAfterTick(h) ==
  {g \in [Seats -> Levels] : \A s \in Seats : h[s] = 0 => g[s] = 0}

\* resolve_round_break: a missed Overcharge costs its own ship some hull, a
\* small part of a whole one; nothing else about the grades touches hulls.
HullsAfterBreak(h, call) ==
  {g \in [Seats -> Levels] :
     \A s \in Seats : \/ g[s] = h[s]
                      \/ call[s] = "overcharge" /\ h[s] > 0 /\ g[s] = h[s] - 1}
=============================================================================
