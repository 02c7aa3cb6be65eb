------------------------------ MODULE Dw2Combat -------------------------------
(***************************************************************************)
(* The fight of two packed ships, core/combat.c, with the round breaks of  *)
(* core/round.c as resolve_round_break, apps/server/main.c, applies them.  *)
(* A second (dw2_match_tick) is a list of calls, and each call a few       *)
(* steps: a ship's power is one, each shot of a volley is one, a slug      *)
(* takes one for each part it meets, and so does each repair.              *)
(*                                                                         *)
(* Abstracted: how power finds its way through the wires; what reaches a   *)
(* part in a second, and which living wires close a loop, is free.  Hit    *)
(* points are in hundredths, and smaller fractions are dropped; charge is  *)
(* in watts.                                                               *)
(***************************************************************************)
EXTENDS Dw2Fleet, Dw2Round

CONSTANTS
  Matchups,       \* the pairs of them that meet
  Watts,          \* for each item, what a part of it may be fed in a second
  Program,        \* cannon_decision: whether to fire, given <<behind, overkill>>
  Answers,        \* what a seat may answer to a round break: a call and when
  Targets,        \* the times, in ms, a round break may ask for
  RoundTicks,     \* DW2_ROUND_TICKS
  TimeoutTicks    \* DW2_MATCH_TIMEOUT_TICKS

VARIABLES
  ship,     \* the ship of each seat
  clock,    \* elapsed_ticks
  phase,    \* "second", "break" or "over"
  agenda,   \* the calls of dw2_match_tick still to make
  slug,     \* the railgun slug on its way down a lane, if there is one
  todo,     \* the cells whose Mender or Aegis is still to work this second
  hull, shield, tally, mult,   \* hull_pct, shield, evade_acc, dmg_mult
  hp, dead,                    \* cell_hp, dead
  charge, shots, damage,       \* weapon_charge, shots, shot_dmg, by part
  pin, loop,                   \* pin, loop
  told                         \* the hulls when the server last looked at them

body == <<hull, shield, tally, hp, dead>>
guns == <<charge, shots, damage, pin, loop>>
vars == <<ship, clock, phase, agenda, slug, todo, mult, told, body, guns>>

Seats    == {0, 1}
Other(x) == 1 - x

WholeHull   == 10000  \* 100 %
MaxShots    == 3      \* DW2_MAX_SHOTS_PER_TICK
MeltAge     == 4      \* seconds until 10 * 1.35^n passes 2.5 * 10
RailCarry   == 80     \* DW2_RAIL_CARRY, in hundredths
Splash      == 50     \* DW2_CANNON_SPLASH
HullFactor  == 50     \* DW2_HULL_FACTOR
MenderHeal  == 200    \* DW2_MENDER_HEAL, per 10 W
AegisRepair == 400    \* DW2_AEGIS_REPAIR, per 10 W
GrowOwn     == 100    \* DW2_BIOMASS_HEAL_OWN
GrowOther   == 200    \* DW2_BIOMASS_HEAL_OTHER

Calls == {"overcharge", "brace"}
Answer == [call : Calls \cup {"none"}, at : Nat]

ASSUME CombatAssumption ==
  /\ Matchups \subseteq [Seats -> Ships]
  /\ Watts \in [Items -> SUBSET Nat]
  /\ Program \in [BOOLEAN \X BOOLEAN -> BOOLEAN]
  /\ Answers \subseteq Answer /\ Targets \subseteq Nat
  /\ RoundTicks \in Nat \ {0} /\ TimeoutTicks \in Nat \ {0}

-----------------------------------------------------------------------------

NoSlug == [lane |-> 0, row |-> 0, raw |-> 0]
NoLoop == [cells |-> {}, age |-> 0]

\* dw2_ship_tick for one ship and then for the other.
CallsInTurn(tick) ==
  <<<<"power", 0>>, <<"resolve", 0>>, <<"upkeep", 0>>,
    <<"power", 1>>, <<"resolve", 1>>, <<"upkeep", 1>>>>

\* dw2_match_tick
CallsOf(tick) ==
  LET first == tick % 2
  IN <<<<"power", 0>>, <<"power", 1>>,
       <<"resolve", first>>, <<"resolve", Other(first)>>,
       <<"upkeep", 0>>, <<"upkeep", 1>>>>

\* start_combat_if_ready and dw2_ship_start_combat, for ships that are packed.
StartCombat ==
  /\ clock = 0 /\ phase = "second" /\ agenda = CallsOf(0)
  /\ slug = NoSlug /\ todo = {}
  /\ hull = [x \in Seats |-> WholeHull] /\ told = hull
  /\ shield = [x \in Seats |-> 0] /\ tally = [x \in Seats |-> 0]
  /\ mult = [x \in Seats |-> 100]
  /\ hp = [x \in Seats |-> ship[x].full]
  /\ dead = [x \in Seats |-> {}]
  /\ charge = [x \in Seats |-> [p \in Guns(ship[x]) |-> 0]]
  /\ shots = charge /\ damage = charge
  /\ pin = [x \in Seats |-> [c \in Cells |-> 0]]
  /\ loop = [x \in Seats |-> NoLoop]

Init == ship \in Matchups /\ StartCombat

\* The call the second has come to, with nothing of the one before it left.
Doing(call, x) ==
  /\ agenda # <<>> /\ Head(agenda) = <<call, x>>
  /\ slug = NoSlug /\ todo = {}

-----------------------------------------------------------------------------
(* Readers.                                                                *)

\* dw2_cell_alive
Alive(x) == ship[x].occupied \ dead[x]

Touching(c) == {Beside(c, side) : side \in Sides}

\* dw2_placement_whole
Whole(x, p) == Extent(ship[x].parts[p].cells) \subseteq Alive(x)

\* dw2_lane_clear_ahead
LaneClear(x, c) == \A d \in Alive(x) : d[2] = c[2] => d[1] >= c[1]

\* The living cells of other parts that touch a part.
Around(x, p) ==
  LET own == Extent(ship[x].parts[p].cells)
  IN {c \in Alive(x) \ own : Touching(c) \cap own # {}}

\* dw2_touch_boost: the strongest boost of a family that touches a part.
Boost(x, p, family) ==
  LET found == {ship[x].part[c].boost : c \in
                  {d \in Around(x, p) : ship[x].part[d].family = family}}
  IN CHOOSE b \in found \cup {100} : \A g \in found \cup {100} : g <= b

\* dw2_is_role, among living cells
InRole(x, S, role) == {c \in S : ship[x].role[c] = role}

\* The sum of a number over the four sides of a cell.
OverSides(f) == f["N"] + f["E"] + f["S"] + f["W"]

\* dw2_ship_structure: destroyed and empty cells have no HP.
Structure(x)    == FoldFunction(+, 0, hp[x])
StructureMax(x) == FoldFunction(+, 0, ship[x].full)

\* dw2_ship_standing_score, times eight
Score(x) == 8 * (hull[x] + shield[x]) + Structure(x)

-----------------------------------------------------------------------------
(* Power: dw2_ship_power.                                                  *)

\* What runs on power, and what passes it on.
SinkRoles == {"weapon", "mender", "aegis"}
WireRoles == {"generator", "conductor", "splitter", "amplifier", "resistor",
              "transistor"}

\* What may reach the cells of a ship in a second: a sink that stands gets one
\* of its item's wattages.
Feeds(x) ==
  LET sinks == {c \in Alive(x) : ship[x].role[c] \in SinkRoles}
      may(c) == Watts[ship[x].parts[ship[x].owner[c]].item]
  IN {[c \in Cells |-> IF c \in sinks THEN f[c] ELSE 0] :
        f \in {g \in [sinks -> UNION {may(c) : c \in sinks}] :
                 \A c \in sinks : g[c] \in may(c)}}

\* The closed loops: none, or at least the four cells of the smallest one.
Rings(x) ==
  {{}} \cup {S \in SUBSET {c \in Alive(x) : ship[x].role[c] \in WireRoles} :
               Cardinality(S) >= 4}

\* Whole, and a laser needs its own lane clear.
Ready(x, p) ==
  /\ Whole(x, p)
  /\ Stats(ship[x], p).kind = "laser" => LaneClear(x, GunCell(ship[x], p))

ShotDamage(x, p) ==
  (Stats(ship[x], p).damage * mult[x] * Boost(x, p, "titanium")) \div 10000

\* dw2_cannon_decide: the compiled program decides on two signals.
Decides(x, p) ==
  Program[<<hull[x] < hull[Other(x)], hull[Other(x)] <= ShotDamage(x, p)>>]

Held(x, p, feed) == charge[x][p] + feed[GunCell(ship[x], p)]

\* The shots of one gun this second.
VolleyOf(x, p, feed) ==
  IF Ready(x, p) /\ Decides(x, p)
  THEN AtMost(Held(x, p, feed) \div Stats(ship[x], p).threshold, MaxShots)
  ELSE 0

\* What it keeps: two shots at most, and one if it could not fire.
ChargeAfter(x, p, feed) ==
  LET threshold == Stats(ship[x], p).threshold
  IN IF Ready(x, p)
     THEN AtMost(Held(x, p, feed) - VolleyOf(x, p, feed) * threshold, 2 * threshold)
     ELSE AtMost(Held(x, p, feed), threshold)

LoopAge(x, ring) == IF ring = loop[x].cells THEN loop[x].age + 1 ELSE 1

\* Mutant: a loop that melts leaves its cells their HP.
MeltDead(x, ring) ==
  /\ dead' = [dead EXCEPT ![x] = @ \cup ring]
  /\ UNCHANGED hp

Melt(x, ring) ==
  /\ dead' = [dead EXCEPT ![x] = @ \cup ring]
  /\ hp' = [hp EXCEPT ![x] = [c \in Cells |-> IF c \in ring THEN 0 ELSE @[c]]]

\* Back-EMF: a loop that keeps its shape burns out.
BackEmf(x, ring) ==
  IF ring # {} /\ LoopAge(x, ring) >= MeltAge
  THEN Melt(x, ring) /\ loop' = [loop EXCEPT ![x] = NoLoop]
  ELSE /\ loop' = [loop EXCEPT ![x] =
                     IF ring = {} THEN NoLoop
                     ELSE [cells |-> ring, age |-> LoopAge(x, ring)]]
       /\ UNCHANGED <<hp, dead>>

\* The circuit runs, the guns decide, and loops grow hot.
Power(x, feed, ring) ==
  LET g == Guns(ship[x])
  IN /\ Doing("power", x)
     /\ shots'  = [shots  EXCEPT ![x] = [p \in g |-> VolleyOf(x, p, feed)]]
     /\ damage' = [damage EXCEPT ![x] = [p \in g |-> ShotDamage(x, p)]]
     /\ charge' = [charge EXCEPT ![x] = [p \in g |-> ChargeAfter(x, p, feed)]]
     /\ pin'    = [pin    EXCEPT ![x] = feed]
     /\ BackEmf(x, ring)
     /\ agenda' = Tail(agenda)
     /\ UNCHANGED <<ship, clock, phase, slug, todo, hull, shield, tally, mult, told>>

-----------------------------------------------------------------------------
(* The volley: dw2_ship_resolve, one shot at a time.                       *)

\* dw2_hit_cell: the HP a hit of `raw` leaves a cell.
AfterHit(y, c, kind, raw) ==
  LET eff == (raw * ship[y].part[c].mult[kind]) \div 100
  IN IF eff >= hp[y][c] THEN 0 ELSE hp[y][c] - eff

\* The cells a hit destroys.
Fallen(y, dose, kind) ==
  {c \in DOMAIN dose : AfterHit(y, c, kind, dose[c]) = 0}

\* Some living cells are hit, each by its dose.
Strike(y, dose, kind) ==
  /\ hp' = [hp EXCEPT ![y] = [c \in Cells |->
              IF c \in DOMAIN dose THEN AfterHit(y, c, kind, dose[c]) ELSE @[c]]]
  /\ dead' = [dead EXCEPT ![y] = @ \cup Fallen(y, dose, kind)]
  /\ UNCHANGED hull

\* dw2_hit_hull
HullHit(y, raw) == hull[y] - AtMost((raw * HullFactor) \div 100, hull[y])

StrikeHull(y, raw) ==
  hull' = [hull EXCEPT ![y] = HullHit(y, raw)] /\ UNCHANGED <<hp, dead>>

InLane(y, lane)  == {c \in Alive(y) : c[2] = lane}
Foremost(S)      == {c \in S : \A d \in S : c[1] <= d[1]}
Deepest(S)       == {c \in S : \A d \in S : c[1] >= d[1]}

\* A shell hurts what it lands on, and what touches that.
Burst(y, c, raw) ==
  [d \in {c} \cup (Touching(c) \cap Alive(y)) |->
     IF d = c THEN raw ELSE (raw * Splash) \div 100]

\* dw2_shot_land; a slug is on its way.
Land(y, lane, kind, raw) ==
  IF kind = "rail"
  THEN slug' = [lane |-> lane, row |-> 0, raw |-> raw] /\ UNCHANGED <<hp, dead, hull>>
  ELSE /\ IF InLane(y, lane) = {} THEN StrikeHull(y, raw)
          ELSE IF kind = "laser"
          THEN \E c \in Foremost(InLane(y, lane)) : Strike(y, [d \in {c} |-> raw], kind)
          ELSE \E c \in Deepest(InLane(y, lane)) : Strike(y, Burst(y, c, raw), kind)
       /\ UNCHANGED slug

\* The next shot of the volley: guns in the order they were placed.
NextGun(x, p) == p \in Guns(ship[x]) /\ shots[x][p] > 0
                 /\ \A q \in Guns(ship[x]) : shots[x][q] > 0 => p <= q

Dodgeable(y, kind) == kind # "laser" /\ Evade(ship[y]) > 0
Dodged(y, kind) == Dodgeable(y, kind) /\ tally[y] + Evade(ship[y]) >= 1000

\* evade_acc, once a shot has tried it.
TallyAfter(y, kind) ==
  IF Dodged(y, kind) THEN tally[y] + Evade(ship[y]) - 1000
  ELSE IF Dodgeable(y, kind) THEN tally[y] + Evade(ship[y])
  ELSE tally[y]

\* One shot: wasted on a wreck, dodged, soaked by the shield, or landed.
Shoot(x, p) ==
  LET y    == Other(x)
      kind == Stats(ship[x], p).kind
      raw  == damage[x][p]
      soak == AtMost(shield[y], raw)
  IN /\ Doing("resolve", x) /\ NextGun(x, p)
     /\ shots' = [shots EXCEPT ![x][p] = @ - 1]
     /\ IF hull[y] = 0
        THEN UNCHANGED <<body, slug>>
        ELSE /\ tally' = [tally EXCEPT ![y] = TallyAfter(y, kind)]
             /\ IF Dodged(y, kind)
                THEN UNCHANGED <<hull, shield, hp, dead, slug>>
                ELSE /\ shield' = [shield EXCEPT ![y] = @ - soak]
                     /\ IF soak > 0 /\ soak = raw
                        THEN UNCHANGED <<hull, hp, dead, slug>>
                        ELSE Land(y, GunCell(ship[x], p)[2], kind, raw - soak)
     /\ UNCHANGED <<ship, clock, phase, agenda, todo, mult, charge, damage, pin,
                    loop, told>>

\* What a slug that destroyed a cell has left for the rest of the lane.
Carry(y, c) ==
  ((slug.raw - (100 * hp[y][c]) \div ship[y].part[c].mult.rail) * RailCarry)
    \div 100

\* A slug meets the next part of its lane, or the hull behind the last.
SlugFlies(x) ==
  LET y     == Other(x)
      ahead == {c \in InLane(y, slug.lane) : c[1] >= slug.row}
  IN /\ slug # NoSlug /\ agenda # <<>> /\ Head(agenda) = <<"resolve", x>>
     /\ \/ /\ ahead = {} /\ StrikeHull(y, slug.raw)
           /\ slug' = NoSlug
        \/ \E c \in Foremost(ahead) :
             /\ Strike(y, [d \in {c} |-> slug.raw], "rail")
             /\ slug' = IF AfterHit(y, c, "rail", slug.raw) = 0 /\ Carry(y, c) > 0
                        THEN [slug EXCEPT !.row = c[1] + 1, !.raw = Carry(y, c)]
                        ELSE NoSlug
     /\ UNCHANGED <<ship, clock, phase, agenda, todo, shield, tally, mult, guns, told>>

VolleyOver(x) ==
  /\ Doing("resolve", x)
  /\ \A p \in Guns(ship[x]) : shots[x][p] = 0
  /\ agenda' = Tail(agenda)
  /\ UNCHANGED <<ship, clock, phase, slug, todo, mult, told, body, guns>>

-----------------------------------------------------------------------------
(* Upkeep: dw2_ship_upkeep.                                                *)

\* The heat a living cell takes from the living cells of other parts.
HeatAt(x, c) ==
  LET s == ship[x]
      from(n) == IF n \in Alive(x) /\ s.owner[n] # s.owner[c]
                 THEN s.part[n].heat ELSE 0
  IN OverSides([side \in Sides |-> from(Beside(c, side))])

\* dw2_cell_cooled
Cooled(x, c) ==
  InRole(x, Alive(x), "coolant") \cap ({c} \cup Touching(c)) # {}

\* dw2_heat_at, in hundredths of a point
Heat(x, c) == IF c \in Alive(x) /\ ~Cooled(x, c) THEN 100 * HeatAt(x, c) ELSE 0

\* The HP heat leaves, and the cells that stand it.
Heated(x)  == [c \in Cells |-> IF Heat(x, c) >= hp[x][c] THEN 0 ELSE hp[x][c] - Heat(x, c)]
Standing(x) == {c \in Alive(x) : Heated(x)[c] > 0}

\* What the living Xeno-Biomass cells of S around a cell give it.
GrowthAt(x, S, c) ==
  LET s == ship[x]
      from(n) == IF n \notin InRole(x, S, "biomass") THEN 0
                 ELSE IF s.owner[n] = s.owner[c] THEN GrowOwn ELSE GrowOther
  IN OverSides([side \in Sides |-> from(Beside(c, side))])

\* The HP after heat and growth.
Grown(x) ==
  [c \in Cells |->
     IF c \in Standing(x)
     THEN AtMost(Heated(x)[c] + GrowthAt(x, Standing(x), c), ship[x].full[c])
     ELSE 0]

\* Mutant: a destroyed hull is mended too.
MendersAlways(x) ==
  {c \in Standing(x) : pin[x][c] > 0 /\ ship[x].role[c] \in {"mender", "aegis"}}

\* The Menders and Aegis Emitters that will work: none for a destroyed hull.
Menders(x) ==
  IF hull[x] = 0 THEN {}
  ELSE {c \in Standing(x) : pin[x][c] > 0 /\ ship[x].role[c] \in {"mender", "aegis"}}

Upkeep(x) ==
  /\ Doing("upkeep", x)
  /\ hp' = [hp EXCEPT ![x] = Grown(x)]
  /\ dead' = [dead EXCEPT ![x] = ship[x].occupied \ Standing(x)]
  /\ todo' = {x} \X Menders(x)
  /\ agenda' = Tail(agenda)
  /\ UNCHANGED <<ship, clock, phase, slug, hull, shield, tally, mult, guns, told>>

\* The loops over the cells go row by row.
Precedes(c, d) == c[1] < d[1] \/ (c[1] = d[1] /\ c[2] <= d[2])

Mended(x, c) == AtMost(hull[x] + (MenderHeal * pin[x][c]) \div 10, WholeHull)

\* The damaged living cells in the 3x3 around a cell, and those of them with
\* the least share of their HP.
Damaged(x, c) ==
  {d \in Alive(x) : /\ d[1] \in c[1] - 1 .. c[1] + 1 /\ d[2] \in c[2] - 1 .. c[2] + 1
                    /\ hp[x][d] < ship[x].full[d]}
Weakest(x, S) ==
  {d \in S : \A e \in S :
     hp[x][d] * ship[x].full[e] <= hp[x][e] * ship[x].full[d]}

AegisHeals(x, c) ==
  (AegisRepair * pin[x][c] * Boost(x, ship[x].owner[c], "aether")) \div 1000

RepairedHp(x, c, d) == AtMost(hp[x][d] + AegisHeals(x, c), ship[x].full[d])

\* The next Mender mends the hull, the next Aegis the part closest to breaking.
Repair(x, c) ==
  LET weakest == Weakest(x, Damaged(x, c))
  IN /\ <<x, c>> \in todo /\ \A other \in todo : Precedes(c, other[2])
     /\ todo' = todo \ {<<x, c>>}
     /\ IF ship[x].role[c] = "mender"
        THEN hull' = [hull EXCEPT ![x] = Mended(x, c)] /\ UNCHANGED hp
        ELSE /\ \/ weakest = {} /\ UNCHANGED hp
                \/ \E d \in weakest :
                     /\ \A e \in weakest : Precedes(d, e)
                     /\ hp' = [hp EXCEPT ![x][d] = RepairedHp(x, c, d)]
             /\ UNCHANGED hull
     /\ UNCHANGED <<ship, clock, phase, agenda, slug, mult, shield, tally, dead,
                    guns, told>>

-----------------------------------------------------------------------------
(* The end of a second, and the break.                                     *)

\* Whether a larger share of x's structure stands; a ship of nothing is whole.
StandsBetter(x, y) ==
  LET part(z)  == IF StructureMax(z) = 0 THEN 1 ELSE Structure(z)
      whole(z) == IF StructureMax(z) = 0 THEN 1 ELSE StructureMax(z)
  IN part(x) * whole(y) > part(y) * whole(x)

\* Mutant: the match goes on into the second after the last.
VerdictLate(x, t) ==
  IF hull[x] = 0 /\ hull[Other(x)] = 0 THEN "tie"
  ELSE IF hull[Other(x)] = 0 THEN "win"
  ELSE IF hull[x] = 0 THEN "loss"
  ELSE IF t <= TimeoutTicks THEN "ongoing" ELSE "tie"

\* dw2_match_result as ship x sees it after t seconds.
Verdict(x, t) ==
  LET y == Other(x)
  IN IF hull[x] = 0 /\ hull[y] = 0 THEN "tie"
     ELSE IF hull[y] = 0 THEN "win"
     ELSE IF hull[x] = 0 THEN "loss"
     ELSE IF t < TimeoutTicks THEN "ongoing"
     ELSE IF hull[x] > hull[y] THEN "win"
     ELSE IF hull[y] > hull[x] THEN "loss"
     ELSE IF StandsBetter(x, y) THEN "win"
     ELSE IF StandsBetter(y, x) THEN "loss"
     ELSE IF ship[x].cost > ship[y].cost THEN "win"
     ELSE IF ship[y].cost > ship[x].cost THEN "loss"
     ELSE "tie"

SecondIsOver == phase = "second" /\ agenda = <<>> /\ todo = {}

\* run_tick, after dw2_match_tick
EndSecond ==
  /\ SecondIsOver
  /\ clock' = clock + 1
  /\ told' = hull
  /\ phase' = IF Verdict(0, clock') # "ongoing" THEN "over"
              ELSE IF clock' % RoundTicks = 0 THEN "break"
              ELSE "second"
  /\ agenda' = IF phase' = "second" THEN CallsOf(clock') ELSE <<>>
  /\ UNCHANGED <<ship, slug, todo, mult, body, guns>>

\* What the calls of a break do: both ships are graded before either changes.
EffectOf(x, answer, target) ==
  Effect(answer[x].call, GradeOf(answer[x].call, answer[x].at, target),
         StandingOf(Score(x), Score(Other(x))))

\* dw2_ship_apply_round_effect: the hull a backfire leaves.
Backfired(x, e) == hull[x] - AtMost(e.backfire, hull[x])

\* resolve_round_break
Break(answer, target) ==
  LET e == [x \in Seats |-> EffectOf(x, answer, target)]
  IN /\ phase = "break"
     /\ mult' = [x \in Seats |-> e[x].mult]
     /\ shield' = [x \in Seats |-> shield[x] + e[x].armor]
     /\ hull' = [x \in Seats |-> Backfired(x, e[x])]
     /\ told' = hull'
     /\ phase' = "second" /\ agenda' = CallsOf(clock)
     /\ UNCHANGED <<ship, clock, slug, todo, tally, hp, dead, guns>>

-----------------------------------------------------------------------------
(* The fight.                                                              *)

\* The steps within a second that follow from the state alone.
Goes ==
  \E x \in Seats :
    \/ \E p \in Guns(ship[x]) : Shoot(x, p)
    \/ SlugFlies(x) \/ VolleyOver(x)
    \/ Upkeep(x) \/ \E c \in Cells : Repair(x, c)

PowerUp == \E x \in Seats : \E feed \in Feeds(x), ring \in Rings(x) : Power(x, feed, ring)

CallsMade == \E answer \in [Seats -> Answers], target \in Targets : Break(answer, target)

Next == PowerUp \/ Goes \/ EndSecond \/ CallsMade

Spec == Init /\ [][Next]_vars

-----------------------------------------------------------------------------
(* What must hold of it.                                                   *)

StageOK ==
  /\ clock \in 0 .. TimeoutTicks
  /\ phase \in {"second", "break", "over"}
  /\ agenda \in Seq({"power", "resolve", "upkeep"} \X Seats)
  /\ slug \in [lane : Int, row : Int, raw : Nat]
  /\ todo \subseteq Seats \X Cells
  /\ told \in [Seats -> 0 .. WholeHull]

HullsOK ==
  /\ hull \in [Seats -> 0 .. WholeHull]
  /\ shield \in [Seats -> Nat] /\ mult \in [Seats -> Nat]
  /\ tally \in [Seats -> 0 .. 999]

CellsOK ==
  /\ DOMAIN hp = Seats /\ DOMAIN dead = Seats
  /\ \A x \in Seats :
       /\ dead[x] \subseteq ship[x].occupied
       /\ hp[x] \in [Cells -> Nat]
       /\ \A c \in Cells : hp[x][c] <= ship[x].full[c]

GunsOK ==
  /\ DOMAIN charge = Seats /\ DOMAIN shots = Seats /\ DOMAIN damage = Seats
  /\ \A x \in Seats :
       /\ charge[x] \in [Guns(ship[x]) -> Nat]
       /\ shots[x] \in [Guns(ship[x]) -> 0 .. MaxShots]
       /\ damage[x] \in [Guns(ship[x]) -> Nat]
       /\ \A p \in Guns(ship[x]) : charge[x][p] <= 2 * Stats(ship[x], p).threshold
  /\ pin \in [Seats -> [Cells -> Nat]]
  /\ loop \in [Seats -> [cells : SUBSET Cells, age : 0 .. MeltAge - 1]]

\* Charge stays within two shots, HP within what the part was built with, the
\* hull within 100 %, and the dodge tally below one dodge.
CombatTypeOK == StageOK /\ HullsOK /\ CellsOK /\ GunsOK

\* The two records of a wreck agree at every moment: a cell has HP left exactly
\* as long as its bit in `dead` is clear.  Every reader uses one or the other.
WrecksAgree ==
  \A x \in Seats : Alive(x) = {c \in Cells : hp[x][c] > 0}

\* Nothing comes back: growth, Aegis and Mender help only what stands, within
\* the very second in which it falls, and no break repairs a hull.
NothingRevives ==
  [][\A x \in Seats : /\ dead[x] \subseteq dead'[x]
                      /\ hull[x] = 0 => hull'[x] = 0]_vars

\* The catch-up lever of a break never widens a lead: if both seats make the
\* same call at the same time, the trailing ship's damage multiplier is the
\* higher, and the gap in standing is no larger than before, unless a
\* backfire is cut short by a hull that has less left.
BreaksCatchUp ==
  [][\A answer \in [Seats -> Answers], target \in Targets, x \in Seats :
       LET y == Other(x)
       IN /\ Break(answer, target) /\ answer[x] = answer[y] /\ Score(x) < Score(y)
          /\ hull'[y] > 0
          => /\ mult'[x] >= mult'[y]
             /\ Score(y)' - Score(x)' <= Score(y) - Score(x)]_vars
=============================================================================
