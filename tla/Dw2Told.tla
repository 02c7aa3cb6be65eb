-------------------------------- MODULE Dw2Told --------------------------------
(***************************************************************************)
(* What the players are told of a fight, apps/server/main.c: hulls, shields *)
(* and the effects of their calls, each squeezed into a byte or two.  The  *)
(* counts of shattered parts are left out.                                 *)
(***************************************************************************)
EXTENDS Dw2Combat

\* hull_u8, of a hull in hundredths: it never shows 0 while the ship is alive.
HullByte(h) ==
  IF h <= 0 THEN 0 ELSE IF h < 100 THEN 1 ELSE (AtMost(h, WholeHull) + 50) \div 100

\* clamp_u16, of a shield in hundredths
ShieldWord(v) == AtMost(v \div 100, 65535)

\* send_tick: the message of one seat, its own ship first.
TickFor(x) ==
  [elapsed_ticks |-> clock % 256,
   hull_you  |-> HullByte(hull[x]),     hull_opp  |-> HullByte(hull[Other(x)]),
   armor_you |-> ShieldWord(shield[x]), armor_opp |-> ShieldWord(shield[Other(x)])]

\* encode_round_effect: what an effect means to a ship depends on the call.
EffectByte(call, e) ==
  CASE call = "overcharge" -> IF e.backfire > 0 THEN AtMost(e.backfire \div 100, 255)
                                                ELSE AtMost(e.mult \div 2, 255)
    [] call = "brace"      -> AtMost(e.armor \div 100, 255)
    [] OTHER               -> 0

-----------------------------------------------------------------------------

Standings == {"behind", "level", "ahead"}

\* Nobody is misled by the rounding.  A hull shows 0 if and only if the ship is
\* destroyed; the ship that shows more hull is ahead, and has won if the match
\* is over; no hull is too small to show; and the byte that tells of a call, with
\* its grade, tells the three standings a ship may have had apart.
ToldTruly ==
  /\ \A x \in Seats :
       LET tick == TickFor(x)
       IN /\ tick.hull_you = 0 <=> hull[x] = 0
          /\ tick.hull_you > tick.hull_opp =>
               hull[x] > hull[Other(x)] /\ Verdict(x, clock) \in {"win", "ongoing"}
          /\ phase = "over" /\ tick.hull_you > tick.hull_opp => Verdict(x, clock) = "win"
  /\ clock = 0 => \A h \in 1 .. 100 : HullByte(h) > 0
  /\ phase = "break" =>
       \A call \in Calls, grade \in {"miss", "good", "perfect"}, s, t \in Standings :
         Effect(call, grade, s) # Effect(call, grade, t) =>
           EffectByte(call, Effect(call, grade, s)) # EffectByte(call, Effect(call, grade, t))
=============================================================================
