------------------------------- MODULE Dw2Local -------------------------------
(***************************************************************************)
(* The practice game, apps/local/main.c: one player packs a ship, and it   *)
(* fights the dummy, core/dummy.c, a second for every TICK_MS that the     *)
(* 32-bit clock of SDL has gone by; or the self-test, which plays the      *)
(* seconds without a clock.  Placing is Dw2Pack's and a second of the      *)
(* fight Dw2Hulls'; drawing is left out.                                   *)
(***************************************************************************)
EXTENDS Dw2Pack, Dw2Hulls

CONSTANTS
  First,           \* the item on key 1; Wanted are those on the keys 1 to 9
  TimeoutTicks,    \* DW2_MATCH_TIMEOUT_TICKS
  Spare,           \* the seconds that the self-test allows beyond it
  TickMs,          \* TICK_MS
  Wrap,            \* 2^32: SDL_GetTicks goes back to 0 there
  Frames           \* what the clock may advance by between two frames

ASSUME LocalAssumption ==
  /\ Wanted \subseteq Items /\ First \in Wanted
  /\ TimeoutTicks \in Nat \ {0} /\ Spare \in Nat
  /\ TickMs \in Nat \ {0} /\ Wrap \in Nat \ {0} /\ Frames \subseteq 1 .. Wrap - TickMs

VARIABLES
  mode,      \* AppMode, or "selftest"; how it ended
  cursor,    \* cursor_row, cursor_col
  sel,       \* sel_item and sel_rotation
  ticks,     \* elapsed_ticks
  hulls,     \* of the player, seat 0, and the dummy
  now,       \* the clock
  last,      \* last_tick_ms
  since      \* how long ago, in truth, that was, up to TickMs

keys  == <<cursor, sel, ship, answer>>
clock == <<now, last, since>>
lvars == <<mode, keys, ticks, hulls, clock>>

LInit ==
  /\ mode \in {"pack", "selftest"}
  /\ cursor = <<0, 0>> /\ sel = [item |-> First, rotation |-> 0]
  /\ Init
  /\ ticks = 0 /\ hulls = [s \in Seats |-> FullHull]
  /\ now = 0 /\ last = 0 /\ since = 0

-----------------------------------------------------------------------------
(* Keys.                                                                   *)

Interactive == mode \in {"pack", "combat", "done"}

\* In any mode, and as far as the grid goes.
Move ==
  /\ Interactive
  /\ \E side \in Sides :
       cursor' = IF Beside(cursor, side) \in Cells THEN Beside(cursor, side) ELSE cursor
  /\ UNCHANGED <<mode, sel, ship, answer, ticks, hulls, clock>>

Rotate ==
  /\ Interactive /\ sel' = [sel EXCEPT !.rotation = (@ + 1) % 4]
  /\ UNCHANGED <<mode, cursor, ship, answer, ticks, hulls, clock>>

Select ==
  /\ mode = "pack" /\ \E i \in Wanted : sel' = [sel EXCEPT !.item = i]
  /\ UNCHANGED <<mode, cursor, ship, answer, ticks, hulls, clock>>

\* dw2_ship_place, at the cursor.
Enter ==
  /\ mode = "pack"
  /\ LET part == PartAt(sel.item, cursor[1], cursor[2], sel.rotation)
     IN IF Takes(ship, part)
        THEN ship' = Laid(ship, part) /\ answer' = "ack"
        ELSE answer' = "illegal" /\ UNCHANGED ship
  /\ UNCHANGED <<mode, cursor, sel, ticks, hulls, clock>>

Fight ==
  /\ mode = "pack" /\ mode' = "combat" /\ last' = now /\ since' = 0
  /\ UNCHANGED <<keys, ticks, hulls, now>>

Quit ==
  /\ Interactive /\ mode' = "quit"
  /\ UNCHANGED <<keys, ticks, hulls, clock>>

-----------------------------------------------------------------------------
(* Seconds.                                                                *)

\* dw2_match_result
Ongoing(t, h) == t < TimeoutTicks /\ \A s \in Seats : h[s] > 0

\* dw2_match_tick, and what follows its verdict.
Second(over) ==
  /\ ticks' = ticks + 1 /\ hulls' \in HullsAfterTick(hulls)
  /\ mode' = IF Ongoing(ticks', hulls') THEN mode ELSE over

\* Mutant: the time of the next second is computed, and goes back to 0 with the clock.
Due_Sum(t) == t >= (last + TickMs) % Wrap

\* now - last_tick_ms >= TICK_MS, in Uint32.
Due(t) == (t - last) % Wrap >= TickMs

\* An iteration of the loop, once the keys are seen to.
Frame ==
  /\ Interactive
  /\ \E d \in Frames :
       /\ now' = (now + d) % Wrap
       /\ IF mode = "combat" /\ Due(now')
          THEN last' = now' /\ since' = 0 /\ Second("done")
          ELSE /\ since' = IF mode # "combat" THEN 0
                         ELSE IF since + d < TickMs THEN since + d ELSE TickMs
               /\ UNCHANGED <<mode, ticks, hulls, last>>
  /\ UNCHANGED keys

\* run_selftest: until there is a verdict, or the spare seconds are used up too.
Selftest ==
  /\ mode = "selftest"
  /\ IF ticks < TimeoutTicks + Spare THEN Second("passed")
     ELSE mode' = "failed" /\ UNCHANGED <<ticks, hulls>>
  /\ UNCHANGED <<keys, clock>>

LNext == Move \/ Rotate \/ Select \/ Enter \/ Fight \/ Quit \/ Frame \/ Selftest
LSpec == LInit /\ [][LNext]_lvars /\ WF_lvars(Frame) /\ WF_lvars(Selftest)

-----------------------------------------------------------------------------
(* Properties.                                                             *)

\* The ship is one that packing can lead to, and the cursor is on the grid.
LocalTypeOK ==
  /\ mode \in {"pack", "combat", "done", "quit", "selftest", "passed", "failed"}
  /\ Fits(ship) /\ cursor \in Cells /\ sel \in [item : Wanted, rotation : 0 .. 3]
  /\ ticks \in 0 .. TimeoutTicks + Spare /\ hulls \in [Seats -> Levels]
  /\ now \in 0 .. Wrap - 1 /\ last \in 0 .. Wrap - 1 /\ since \in 0 .. TickMs

\* Two seconds of the fight are at least TICK_MS apart, also where the clock goes
\* back to 0 between them.
SecondsApart ==
  [][mode = "combat" /\ ticks' # ticks => since + ((now' - now) % Wrap) >= TickMs]_lvars

\* A fight ends, unless the player leaves it, wherever the clock was when it began.
FightEnds == mode = "combat" ~> mode \in {"done", "quit"}

\* The fight of the server, without its breaks.
Duel == INSTANCE Dw2Duel WITH
  RoundTicks <- TimeoutTicks + 1, elapsed <- ticks,
  phase <- IF ticks < TimeoutTicks /\ hulls[0] > 0 /\ hulls[1] > 0 THEN "second" ELSE "over"

\* The practice game and the self-test fight as a server would: no second is played
\* once one has left a wreck or the time is over.
DuelImplemented == Duel!Spec

\* "runs real ticks ... until the match resolves or a safety cap is hit": the cap
\* is never what ends the self-test, and so it is never passed over a stuck fight.
NeverCapped == mode # "failed"
=============================================================================
