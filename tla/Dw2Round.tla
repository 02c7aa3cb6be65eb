------------------------------- MODULE Dw2Round -------------------------------
(***************************************************************************)
(* Grading a call of a round break, core/round.c.  Multipliers are in      *)
(* hundredths, armor and hull in hundredths of a point.                    *)
(***************************************************************************)
EXTENDS Integers

PerfectMs    == 80    \* DW2_ROUND_PERFECT_MS
GoodMs       == 220   \* DW2_ROUND_GOOD_MS
BackfireHull == 800   \* DW2_ROUND_OVERCHARGE_BACKFIRE_HULL
TargetMin    == 300   \* DW2_ROUND_TARGET_MIN_MS
TargetSpan   == 601   \* DW2_ROUND_TARGET_MS_SPAN

\* dw2_round_target_ms, for a hash of the match's seed and the round
TargetMs(h) == TargetMin + (h % TargetSpan)

\* dw2_standing, from the scores of both ships
StandingOf(mine, theirs) ==
  IF mine > theirs THEN "ahead" ELSE IF mine < theirs THEN "behind" ELSE "level"

\* The grade of a call made `at` ms into the break.
GradeOf(call, at, target) ==
  LET diff == IF at > target THEN at - target ELSE target - at
  IN IF call = "none" THEN "none"
     ELSE IF diff <= PerfectMs THEN "perfect"
     ELSE IF diff <= GoodMs THEN "good"
     ELSE "miss"

\* k_win and k_miss, in tenths: the catch-up lever.
WinShare(standing) ==
  IF standing = "ahead" THEN 4 ELSE IF standing = "behind" THEN 16 ELSE 10
MissShare(standing) ==
  IF standing = "ahead" THEN 16 ELSE IF standing = "behind" THEN 14 ELSE 10

\* dw2_round_grade: what a graded call does to its own ship.
Effect(call, grade, standing) ==
  LET won == WinShare(standing)
      neutral == [mult |-> 100, armor |-> 0, backfire |-> 0]
  IN CASE call = "overcharge" /\ grade = "perfect" -> [neutral EXCEPT !.mult = 100 + 5 * won]
       [] call = "overcharge" /\ grade = "good" -> [neutral EXCEPT !.mult = 100 + (5 * won) \div 2]
       [] call = "overcharge" /\ grade = "miss" ->
            [neutral EXCEPT !.backfire = (BackfireHull * MissShare(standing)) \div 10]
       [] call = "brace" /\ grade = "perfect" -> [neutral EXCEPT !.armor = 250 * won]
       [] call = "brace" /\ grade = "good" -> [neutral EXCEPT !.armor = 120 * won]
       [] OTHER -> neutral
=============================================================================
