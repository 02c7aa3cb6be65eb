------------------------------- MODULE Dw2Fight -------------------------------
(***************************************************************************)
(* The fight of Dw2Combat as run_tick and resolve_round_break,             *)
(* apps/server/main.c, see it: by the hulls they find after each second    *)
(* and each break.                                                         *)
(***************************************************************************)
EXTENDS Dw2Combat

\* A hull in the levels of Dw2Duel.
LevelOf(h) == (h * 2 + WholeHull - 1) \div WholeHull

Duel == INSTANCE Dw2Duel WITH
  FullHull <- 2, elapsed <- clock, hulls <- [x \in Seats |-> LevelOf(told[x])]

\* Whatever happens within the seconds, the server sees a duel: a destroyed
\* ship stays destroyed, a missed Overcharge costs its own ship one level at
\* most, and the match is over after the very second that leaves a wreck or
\* reaches the timeout, and not before.
DuelImplemented == Duel!Spec
=============================================================================
