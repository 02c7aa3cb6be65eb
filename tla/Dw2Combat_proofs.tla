-------------------------- MODULE Dw2Combat_proofs ---------------------------
(***************************************************************************)
(* Proofs about Dw2Combat, for any grid, catalog, fleet, wattages, program *)
(* and length of rounds: the bounds of a fight, that the two records of a  *)
(* wreck agree, that nothing destroyed comes back, that the fight, as the  *)
(* server sees it, implements the duel of Dw2Duel, and that it is the same *)
(* fight, ship for ship, from either seat, which the clients are truly     *)
(* told about.                                                             *)
(***************************************************************************)
EXTENDS Dw2Fight, Dw2Mirror, WellFoundedInduction, FiniteSetTheorems, TLAPS

-----------------------------------------------------------------------------
(* Facts about numbers.                                                    *)

\* A set of numbers with a bound has a largest one.
LEMMA LargestExists ==
  ASSUME NEW n \in Nat, NEW T, T \subseteq 0 .. n, T # {}
  PROVE  \E b \in T : \A g \in T : g <= b
<1> DEFINE Rest == {n - b : b \in T}
<1>1. Rest \subseteq Nat /\ Rest # {}
  <2>1. \A b \in T : n - b \in Nat
    OBVIOUS
  <2> QED BY <2>1
<1>2. PICK m \in Rest : \A k \in Rest : ~(<<k, m>> \in OpToRel(<, Nat))
  <2> HIDE DEF Rest
  <2> QED BY <1>1, NatLessThanWellFounded, WFMin
<1>3. \A k \in Rest : ~(k < m)
  BY <1>1, <1>2 DEF OpToRel
<1>4. PICK b \in T : m = n - b
  OBVIOUS
<1>5. \A g \in T : g <= b
  <2> SUFFICES ASSUME NEW g \in T
               PROVE  g <= b
    OBVIOUS
  <2>1. n - g \in Rest
    OBVIOUS
  <2>2. ~(n - g < n - b)
    BY <1>3, <1>4, <2>1
  <2>3. g \in Int /\ b \in Int
    OBVIOUS
  <2> QED BY <2>2, <2>3
<1> QED BY <1>5

LEMMA AtMostBounds ==
  ASSUME NEW n \in Nat, NEW most \in Nat
  PROVE  AtMost(n, most) \in Nat /\ AtMost(n, most) <= n /\ AtMost(n, most) <= most
BY DEF AtMost

LEMMA Within ==
  ASSUME NEW n \in Nat, NEW h \in 0 .. n, NEW a \in 0 .. h
  PROVE  a \in 0 .. n /\ (h = 0 => a = 0)
OBVIOUS

LEMMA ProductNat ==
  ASSUME NEW m \in Nat, NEW n \in Nat
  PROVE  m * n \in Nat
OBVIOUS

LEMMA QuotientNat ==
  ASSUME NEW m \in Nat, NEW d \in Nat \ {0}
  PROVE  m \div d \in Nat
OBVIOUS

-----------------------------------------------------------------------------
(* Facts about the ships of a fleet.                                       *)

\* Every taken cell belongs to a part of the catalog.
LEMMA TakenCell ==
  ASSUME NEW s \in Ships, NEW c \in s.occupied
  PROVE  /\ c \in Cells
         /\ s.owner[c] \in DOMAIN s.parts
         /\ \E i \in Items : s.part[c] = Catalog[i]
<1> DEFINE parts == s.parts
           p == s.owner[c]
<1>1. Fits(s) /\ s.owner = Owner(s) /\ s.part = PartDef(s)
  BY FleetAssumption DEF AsRead
<1>2. \E q \in DOMAIN parts : c \in Extent(parts[q].cells)
  BY <1>1 DEF Fits
<1>3. p = CHOOSE q \in DOMAIN parts : c \in Extent(parts[q].cells)
  BY <1>1 DEF Owner
<1>4. p \in DOMAIN parts /\ c \in Extent(parts[p].cells)
  <2> HIDE DEF p
  <2> QED BY <1>2, <1>3
<1>5. c \in Cells
  <2> HIDE DEF p
  <2> QED BY <1>1, <1>4 DEF Fits, Extent
<1>6. s.part[c] = Catalog[parts[p].item]
  BY <1>1 DEF PartDef
<1>7. parts[p].item \in Items
  <2> HIDE DEF p
  <2> QED BY <1>1, <1>4 DEF Fits
<1> QED BY <1>4, <1>5, <1>6, <1>7

LEMMA TakenPart ==
  ASSUME NEW s \in Ships, NEW c \in s.occupied
  PROVE  /\ s.part[c].hp \in Nat \ {0} /\ s.part[c].heat \in Nat
         /\ s.part[c].mult \in [Kinds -> Nat \ {0}]
         /\ s.part[c].boost \in 0 .. 150
<1>1. PICK i \in Items : s.part[c] = Catalog[i]
  BY TakenCell
<1>2. /\ Catalog[i].hp \in Nat \ {0} /\ Catalog[i].heat \in Nat
      /\ Catalog[i].mult \in [Kinds -> Nat \ {0}] /\ Catalog[i].boost \in Nat
  BY CatalogAssumption
<1>3. Catalog[i].boost \in 0 .. 150
  BY <1>2, BoostAssumption
<1> QED BY <1>1, <1>2, <1>3

\* cell_max is positive exactly where the grid is taken.
LEMMA MaxHpType ==
  ASSUME NEW s \in Ships
  PROVE  /\ s.full \in [Cells -> Nat]
         /\ s.occupied = {c \in Cells : s.full[c] > 0}
<1>1. s.full = [c \in Cells |->
             IF c \in s.occupied THEN 100 * s.part[c].hp ELSE 0]
  BY FleetAssumption DEF AsRead, MaxHp
<1>2. \A c \in s.occupied : c \in Cells /\ s.part[c].hp \in Nat \ {0}
  BY TakenCell, TakenPart
<1> QED BY <1>1, <1>2

LEMMA EvadeBounds ==
  ASSUME NEW s \in Ships
  PROVE  Evade(s) \in 0 .. EvadeMax
<1>1. s.weight \in Nat /\ EvadeRefWeight \in Nat
  BY FleetAssumption, GridAssumption DEF Fits
<1>2. CASE s.weight >= EvadeRefWeight
  BY <1>1, <1>2 DEF Evade, EvadeMax
<1>3. CASE s.weight < EvadeRefWeight
  <2>1. (EvadeRefWeight - s.weight) * EvadePerTon \in Nat
    BY <1>1, <1>3 DEF EvadePerTon
  <2>2. ~(s.weight >= EvadeRefWeight)
    BY <1>1, <1>3
  <2>3. Evade(s) = AtMost((EvadeRefWeight - s.weight) * EvadePerTon, EvadeMax)
    BY <2>2 DEF Evade
  <2>4. EvadeMax \in Nat
    BY DEF EvadeMax
  <2> QED BY <2>1, <2>3, <2>4, AtMostBounds
<1> QED BY <1>1, <1>2, <1>3

\* A gun has its numbers, and a cell that is fed.
LEMMA GunFacts ==
  ASSUME NEW s \in Ships, NEW p \in Guns(s)
  PROVE  /\ Stats(s, p).threshold \in {10, 30}
         /\ Stats(s, p).damage \in Nat
         /\ Stats(s, p).kind \in Kinds
         /\ GunCell(s, p) \in Cells
<1> DEFINE part  == s.parts[p]
           cells == part.cells
<1>1. p \in DOMAIN s.parts /\ part.item \in DOMAIN WeaponStats
  BY DEF Guns
<1>2. Fits(s)
  BY FleetAssumption
<1>3. /\ part.item \in Items
      /\ DOMAIN cells = DOMAIN Catalog[part.item].base
      /\ \A k \in DOMAIN cells : cells[k].at \in Cells
                                 /\ cells[k].role = Catalog[part.item].base[k].role
  BY <1>1, <1>2 DEF Fits
<1>4. /\ WeaponStats[part.item].threshold \in {10, 30}
      /\ WeaponStats[part.item].damage \in Nat
      /\ WeaponStats[part.item].kind \in Kinds
  <2> HIDE DEF part
  <2> QED BY <1>1 DEF WeaponStats, Kinds
<1>5. \E k \in DOMAIN cells : cells[k].role = "weapon"
  <2> HIDE DEF part
  <2> QED BY <1>1, <1>3, GunAssumption
<1>6. GunCell(s, p) \in Cells
  <2> DEFINE k == CHOOSE j \in DOMAIN cells : cells[j].role = "weapon"
  <2>1. k \in DOMAIN cells
    BY <1>5
  <2>2. GunCell(s, p) = cells[k].at
    BY DEF GunCell
  <2> HIDE DEF k, part
  <2> QED BY <1>3, <2>1, <2>2
<1> QED BY <1>4, <1>6 DEF Stats

\* What a gun costs in charge, shot by shot.
LEMMA VolleySpends ==
  ASSUME NEW h \in Nat, NEW t \in {10, 30}
  PROVE  LET v == AtMost(h \div t, MaxShots)
         IN v \in 0 .. MaxShots /\ h - v * t \in Nat
<1>1. CASE t = 10
  BY <1>1 DEF AtMost, MaxShots
<1>2. CASE t = 30
  BY <1>2 DEF AtMost, MaxShots
<1> QED BY <1>1, <1>2

-----------------------------------------------------------------------------
(* The inductive invariant.                                                *)

\* What the steps count on beside types: the clock has not run out unless the
\* fight is over, nothing of a second is left outside it, and Menders and Aegis
\* Emitters are at work only once no slug flies, on a hull that stands.
Quiet ==
  /\ phase # "over" => clock < TimeoutTicks
  /\ phase # "second" => agenda = <<>> /\ todo = {}
  /\ todo # {} => slug = NoSlug
  /\ \A t \in todo : hull[t[1]] > 0

CombatInv == ship \in Matchups /\ CombatTypeOK /\ WrecksAgree /\ Quiet

\* What is destroyed stays destroyed: a step of NothingRevives.
Lasting ==
  \A x \in Seats : /\ dead[x] \subseteq dead'[x]
                   /\ hull[x] = 0 => hull'[x] = 0

LEMMA Here ==
  ASSUME CombatInv, NEW x \in Seats
  PROVE  /\ Other(x) \in Seats /\ Other(x) # x
         /\ ship[x] \in Ships
         /\ ship[x].occupied \subseteq Cells
         /\ dead[x] \subseteq ship[x].occupied
         /\ Alive(x) = ship[x].occupied \ dead[x]
         /\ Alive(x) = {c \in Cells : hp[x][c] > 0}
         /\ hp[x] \in [Cells -> Nat]
         /\ \A c \in Cells : hp[x][c] <= ship[x].full[c]
         /\ hull[x] \in 0 .. WholeHull /\ shield[x] \in Nat /\ mult[x] \in Nat
         /\ tally[x] \in 0 .. 999
<1>1. Other(x) \in Seats /\ Other(x) # x
  BY DEF Seats, Other
<1>2. ship[x] \in Ships
  BY CombatAssumption DEF CombatInv
<1>3. ship[x].occupied \subseteq Cells
  BY <1>2, TakenCell
<1>4. HullsOK /\ CellsOK
  BY DEF CombatInv, CombatTypeOK
<1>5. hull[x] \in 0 .. WholeHull /\ shield[x] \in Nat /\ mult[x] \in Nat
      /\ tally[x] \in 0 .. 999
  BY <1>4 DEF HullsOK
<1>6. /\ dead[x] \subseteq ship[x].occupied
      /\ hp[x] \in [Cells -> Nat]
      /\ \A c \in Cells : hp[x][c] <= ship[x].full[c]
  BY <1>4 DEF CellsOK
<1>7. Alive(x) = {c \in Cells : hp[x][c] > 0}
  BY DEF CombatInv, WrecksAgree
<1> QED BY <1>1, <1>2, <1>3, <1>5, <1>6, <1>7 DEF Alive

\* A ship's cells, with some of them hurt, healed or lost.
LEMMA CellsAfter ==
  ASSUME CombatInv, NEW x \in Seats, NEW cells \in [Cells -> Nat], NEW lost,
         ship' = ship, DOMAIN hp' = Seats, DOMAIN dead' = Seats,
         \A y \in Seats : /\ hp'[y] = (IF y = x THEN cells ELSE hp[y])
                          /\ dead'[y] = (IF y = x THEN lost ELSE dead[y]),
         dead[x] \subseteq lost, lost \subseteq ship[x].occupied,
         \A c \in Cells : cells[c] <= ship[x].full[c],
         \A c \in Cells : cells[c] > 0 <=> c \in ship[x].occupied \ lost
  PROVE  CellsOK' /\ WrecksAgree' /\ \A y \in Seats : dead[y] \subseteq dead'[y]
<1>1. ASSUME NEW y \in Seats
      PROVE  /\ dead'[y] \subseteq ship'[y].occupied
             /\ hp'[y] \in [Cells -> Nat]
             /\ \A c \in Cells : hp'[y][c] <= ship'[y].full[c]
             /\ Alive(y)' = {c \in Cells : hp'[y][c] > 0}
             /\ dead[y] \subseteq dead'[y]
  <2>1. ship'[y] = ship[y] /\ ship[y].occupied \subseteq Cells
    BY Here
  <2>2. Alive(y)' = ship[y].occupied \ dead'[y]
    BY <2>1 DEF Alive
  <2>3. CASE y = x
    <3>1. hp'[y] = cells /\ dead'[y] = lost
      BY <2>3
    <3> QED BY <2>1, <2>2, <2>3, <3>1
  <2>4. CASE y # x
    <3>1. hp'[y] = hp[y] /\ dead'[y] = dead[y]
      BY <2>4
    <3> QED BY <2>1, <2>2, <3>1, Here
  <2> QED BY <2>3, <2>4
<1>2. CellsOK'
  BY <1>1 DEF CellsOK
<1> QED BY <1>1, <1>2 DEF WrecksAgree

LEMMA CellsSame ==
  ASSUME CombatInv, UNCHANGED <<ship, hp, dead>>
  PROVE  CellsOK' /\ WrecksAgree' /\ \A y \in Seats : dead[y] \subseteq dead'[y]
<1>1. CellsOK /\ WrecksAgree
  BY DEF CombatInv, CombatTypeOK
<1> QED BY <1>1 DEF CellsOK, WrecksAgree, Alive

LEMMA GunsSame ==
  ASSUME CombatInv, UNCHANGED <<ship, guns>>
  PROVE  GunsOK'
<1>1. GunsOK
  BY DEF CombatInv, CombatTypeOK
<1> QED BY <1>1 DEF GunsOK, guns

\* dw2_touch_boost
LEMMA BoostType ==
  ASSUME CombatInv, NEW x \in Seats, NEW p, NEW family
  PROVE  Boost(x, p, family) \in 0 .. 150
<1> DEFINE found == {ship[x].part[c].boost : c \in
                       {d \in Around(x, p) : ship[x].part[d].family = family}}
           all == found \cup {100}
<1>1. Around(x, p) \subseteq ship[x].occupied
  BY Here DEF Around
<1>2. \A c \in Around(x, p) : ship[x].part[c].boost \in 0 .. 150
  BY <1>1, Here, TakenPart
<1>3. all \subseteq 0 .. 150 /\ all # {}
  BY <1>2
<1>4. Boost(x, p, family) = CHOOSE b \in all : \A g \in all : g <= b
  BY DEF Boost
<1> HIDE DEF found, all
<1>5. \E b \in all : \A g \in all : g <= b
  BY <1>3, LargestExists
<1> QED BY <1>3, <1>4, <1>5

-----------------------------------------------------------------------------
(* Power.                                                                  *)

LEMMA FeedType ==
  ASSUME CombatInv, NEW x \in Seats, NEW feed \in Feeds(x)
  PROVE  feed \in [Cells -> Nat]
<1> DEFINE sinks == {c \in Alive(x) : ship[x].role[c] \in SinkRoles}
       may(c) == Watts[ship[x].parts[ship[x].owner[c]].item]
<1>1. \A c \in sinks : may(c) \subseteq Nat
  <2> SUFFICES ASSUME NEW c \in sinks PROVE may(c) \subseteq Nat
    OBVIOUS
  <2>1. ship[x] \in Ships /\ c \in ship[x].occupied
    BY Here DEF Alive
  <2>2. Fits(ship[x]) /\ ship[x].owner[c] \in DOMAIN ship[x].parts
    BY <2>1, FleetAssumption, TakenCell
  <2>3. ship[x].parts[ship[x].owner[c]].item \in Items
    BY <2>2 DEF Fits
  <2> QED BY <2>3, CombatAssumption
<1>2. PICK f : /\ \A c \in sinks : f[c] \in may(c)
               /\ feed = [c \in Cells |-> IF c \in sinks THEN f[c] ELSE 0]
  BY DEF Feeds
<1> HIDE DEF sinks, may
<1>3. \A c \in sinks : f[c] \in Nat
  BY <1>1, <1>2
<1> QED BY <1>2, <1>3

\* One gun of the volley: its charge stays within two shots.
LEMMA GunPower ==
  ASSUME CombatInv, NEW x \in Seats, NEW feed \in [Cells -> Nat],
         NEW p \in Guns(ship[x])
  PROVE  /\ VolleyOf(x, p, feed) \in 0 .. MaxShots
         /\ ShotDamage(x, p) \in Nat
         /\ ChargeAfter(x, p, feed) \in Nat
         /\ ChargeAfter(x, p, feed) <= 2 * Stats(ship[x], p).threshold
<1> DEFINE t == Stats(ship[x], p).threshold
           h == Held(x, p, feed)
           v == VolleyOf(x, p, feed)
<1>1. /\ t \in {10, 30} /\ Stats(ship[x], p).damage \in Nat
      /\ GunCell(ship[x], p) \in Cells
  BY Here, GunFacts
<1>2. charge[x][p] \in Nat
  BY DEF CombatInv, CombatTypeOK, GunsOK
<1>3. h \in Nat
  BY <1>1, <1>2 DEF Held
<1>4. v = AtMost(h \div t, MaxShots) \/ v = 0
  BY DEF VolleyOf
<1>5. v \in 0 .. MaxShots /\ h - v * t \in Nat
  <2>1. CASE v = 0
    BY <1>1, <1>3, <2>1 DEF MaxShots
  <2>2. CASE v = AtMost(h \div t, MaxShots)
    <3> HIDE DEF v, h, t
    <3> QED BY <1>1, <1>3, <2>2, VolleySpends
  <2> QED BY <1>4, <2>1, <2>2
<1>6. /\ ChargeAfter(x, p, feed) \in Nat
      /\ ChargeAfter(x, p, feed) <= 2 * t
  <2>1. t \in Nat /\ 2 * t \in Nat /\ t <= 2 * t
    BY <1>1
  <2>2. \/ ChargeAfter(x, p, feed) = AtMost(h - v * t, 2 * t)
        \/ ChargeAfter(x, p, feed) = AtMost(h, t)
    BY DEF ChargeAfter
  <2> HIDE DEF v, h, t
  <2>3. AtMost(h - v * t, 2 * t) \in Nat /\ AtMost(h - v * t, 2 * t) <= 2 * t
    BY <1>5, <2>1, AtMostBounds
  <2>4. AtMost(h, t) \in Nat /\ AtMost(h, t) <= t
    BY <1>3, <2>1, AtMostBounds
  <2> QED BY <2>1, <2>2, <2>3, <2>4
<1>7. ShotDamage(x, p) \in Nat
  <2> DEFINE d == Stats(ship[x], p).damage
             b == Boost(x, p, "titanium")
  <2>1. d \in Nat /\ mult[x] \in Nat /\ b \in Nat
    <3>1. d \in Nat
      BY <1>1
    <3>2. mult[x] \in Nat
      BY Here
    <3>3. b \in Nat
      <4>1. b \in 0 .. 150
        BY BoostType
      <4> HIDE DEF b
      <4> QED BY <4>1
    <3> QED BY <3>1, <3>2, <3>3
  <2>2. ShotDamage(x, p) = (d * mult[x] * b) \div 10000
    BY DEF ShotDamage
  <2> HIDE DEF d, b
  <2>3. d * mult[x] \in Nat
    BY <2>1, ProductNat
  <2>4. d * mult[x] * b \in Nat
    BY <2>1, <2>3, ProductNat
  <2> QED BY <2>2, <2>4, QuotientNat
<1> QED BY <1>5, <1>6, <1>7

\* A loop grows hot, or melts.
LEMMA BackEmfKeeps ==
  ASSUME CombatInv, NEW x \in Seats, NEW ring, ring \subseteq Alive(x),
         BackEmf(x, ring), ship' = ship
  PROVE  /\ CellsOK' /\ WrecksAgree'
         /\ \A y \in Seats : dead[y] \subseteq dead'[y]
         /\ loop' \in [Seats -> [cells : SUBSET Cells, age : 0 .. MeltAge - 1]]
<1>1. loop \in [Seats -> [cells : SUBSET Cells, age : 0 .. MeltAge - 1]]
  BY DEF CombatInv, CombatTypeOK, GunsOK
<1>2. LoopAge(x, ring) \in 1 .. MeltAge
  BY <1>1 DEF LoopAge, MeltAge
<1>3. ring \subseteq Cells
  BY Here
<1>4. NoLoop \in [cells : SUBSET Cells, age : 0 .. MeltAge - 1]
  BY DEF NoLoop, MeltAge
<1>5. CASE ring # {} /\ LoopAge(x, ring) >= MeltAge
  <2> DEFINE cells == [c \in Cells |-> IF c \in ring THEN 0 ELSE hp[x][c]]
             lost  == dead[x] \cup ring
  <2>1. Melt(x, ring) /\ loop' = [loop EXCEPT ![x] = NoLoop]
    BY <1>5 DEF BackEmf
  <2>2. DOMAIN hp = Seats /\ DOMAIN dead = Seats
    BY DEF CombatInv, CombatTypeOK, CellsOK
  <2>3. /\ DOMAIN hp' = Seats /\ DOMAIN dead' = Seats
        /\ \A y \in Seats : /\ hp'[y] = (IF y = x THEN cells ELSE hp[y])
                            /\ dead'[y] = (IF y = x THEN lost ELSE dead[y])
    BY <2>1, <2>2 DEF Melt
  <2>4. cells \in [Cells -> Nat]
    BY Here
  <2>5. \A c \in Cells : cells[c] <= ship[x].full[c]
    <3>1. \A c \in Cells : ship[x].full[c] \in Nat
      BY Here, MaxHpType
    <3> QED BY <3>1, Here
  <2>6. \A c \in Cells : cells[c] > 0 <=> c \in ship[x].occupied \ lost
    BY Here
  <2>7. dead[x] \subseteq lost /\ lost \subseteq ship[x].occupied
    BY Here
  <2> HIDE DEF cells, lost
  <2>8. CellsOK' /\ WrecksAgree' /\ \A y \in Seats : dead[y] \subseteq dead'[y]
    BY <2>3, <2>4, <2>5, <2>6, <2>7, CellsAfter
  <2> QED BY <1>1, <1>4, <2>1, <2>8
<1>6. CASE ~(ring # {} /\ LoopAge(x, ring) >= MeltAge)
  <2> DEFINE next == IF ring = {} THEN NoLoop
                     ELSE [cells |-> ring, age |-> LoopAge(x, ring)]
  <2>1. loop' = [loop EXCEPT ![x] = next] /\ UNCHANGED <<hp, dead>>
    BY <1>6 DEF BackEmf
  <2>2. next \in [cells : SUBSET Cells, age : 0 .. MeltAge - 1]
    BY <1>2, <1>3, <1>4, <1>6 DEF MeltAge
  <2> HIDE DEF next
  <2>3. CellsOK' /\ WrecksAgree' /\ \A y \in Seats : dead[y] \subseteq dead'[y]
    BY <2>1, CellsSame
  <2> QED BY <1>1, <2>1, <2>2, <2>3
<1> QED BY <1>5, <1>6

\* The rest of a second's agenda is an agenda.
LEMMA RestOfAgenda ==
  ASSUME CombatInv, agenda # <<>>
  PROVE  Tail(agenda) \in Seq({"power", "resolve", "upkeep"} \X Seats)
<1>1. agenda \in Seq({"power", "resolve", "upkeep"} \X Seats)
  BY DEF CombatInv, CombatTypeOK, StageOK
<1> QED BY <1>1

LEMMA PowerKeeps ==
  ASSUME CombatInv, NEW x \in Seats, NEW feed \in Feeds(x), NEW ring \in Rings(x),
         Power(x, feed, ring)
  PROVE  CombatInv' /\ Lasting
<1>1. feed \in [Cells -> Nat] /\ ring \subseteq Alive(x)
  BY FeedType DEF Rings
<1>2. /\ Doing("power", x) /\ BackEmf(x, ring) /\ agenda' = Tail(agenda)
      /\ UNCHANGED <<ship, clock, phase, slug, todo, hull, shield, tally, mult, told>>
  BY DEF Power
<1>3. /\ CellsOK' /\ WrecksAgree' /\ \A y \in Seats : dead[y] \subseteq dead'[y]
      /\ loop' \in [Seats -> [cells : SUBSET Cells, age : 0 .. MeltAge - 1]]
  BY <1>1, <1>2, BackEmfKeeps
<1>4. StageOK'
  <2>1. StageOK /\ agenda' \in Seq({"power", "resolve", "upkeep"} \X Seats)
    BY <1>2, RestOfAgenda DEF Doing, CombatInv, CombatTypeOK
  <2> QED BY <1>2, <2>1 DEF StageOK
<1>5. HullsOK'
  BY <1>2 DEF CombatInv, CombatTypeOK, HullsOK
<1>6. GunsOK'
  <2> DEFINE g == Guns(ship[x])
  <2>1. GunsOK
    BY DEF CombatInv, CombatTypeOK
  <2>2. /\ shots'  = [shots  EXCEPT ![x] = [p \in g |-> VolleyOf(x, p, feed)]]
        /\ damage' = [damage EXCEPT ![x] = [p \in g |-> ShotDamage(x, p)]]
        /\ charge' = [charge EXCEPT ![x] = [p \in g |-> ChargeAfter(x, p, feed)]]
        /\ pin'    = [pin    EXCEPT ![x] = feed]
    BY DEF Power
  <2>3. \A p \in g : /\ VolleyOf(x, p, feed) \in 0 .. MaxShots
                     /\ ShotDamage(x, p) \in Nat
                     /\ ChargeAfter(x, p, feed) \in Nat
                     /\ ChargeAfter(x, p, feed) <= 2 * Stats(ship[x], p).threshold
    BY <1>1, GunPower
  <2>4. ASSUME NEW y \in Seats
        PROVE  /\ charge'[y] \in [Guns(ship[y]) -> Nat]
               /\ shots'[y] \in [Guns(ship[y]) -> 0 .. MaxShots]
               /\ damage'[y] \in [Guns(ship[y]) -> Nat]
               /\ \A p \in Guns(ship[y]) :
                    charge'[y][p] <= 2 * Stats(ship[y], p).threshold
    <3>1. CASE y = x
      <4>1. /\ shots'[y]  = [p \in g |-> VolleyOf(x, p, feed)]
            /\ damage'[y] = [p \in g |-> ShotDamage(x, p)]
            /\ charge'[y] = [p \in g |-> ChargeAfter(x, p, feed)]
        BY <2>1, <2>2, <3>1 DEF GunsOK
      <4> QED BY <2>3, <3>1, <4>1
    <3>2. CASE y # x
      <4>1. shots'[y] = shots[y] /\ damage'[y] = damage[y] /\ charge'[y] = charge[y]
        BY <2>1, <2>2, <3>2 DEF GunsOK
      <4> QED BY <2>1, <4>1 DEF GunsOK
    <3> QED BY <3>1, <3>2
  <2>5. DOMAIN charge' = Seats /\ DOMAIN shots' = Seats /\ DOMAIN damage' = Seats
    BY <2>1, <2>2 DEF GunsOK
  <2>6. pin' \in [Seats -> [Cells -> Nat]]
    BY <1>1, <2>1, <2>2 DEF GunsOK
  <2>7. ship' = ship
    BY <1>2
  <2> QED BY <1>3, <2>4, <2>5, <2>6, <2>7 DEF GunsOK
<1>7. Quiet'
  BY <1>2 DEF CombatInv, Quiet, Doing
<1> QED BY <1>2, <1>3, <1>4, <1>5, <1>6, <1>7 DEF CombatInv, CombatTypeOK, Lasting

-----------------------------------------------------------------------------
(* The volley.                                                             *)

\* A hull and cells that a hit leaves.
Struck ==
  /\ hull' \in [Seats -> 0 .. WholeHull]
  /\ CellsOK' /\ WrecksAgree' /\ Lasting

LEMMA AfterHitType ==
  ASSUME CombatInv, NEW y \in Seats, NEW c \in Alive(y), NEW kind \in Kinds,
         NEW raw \in Nat
  PROVE  AfterHit(y, c, kind, raw) \in 0 .. hp[y][c]
<1> DEFINE m == ship[y].part[c].mult[kind]
           eff == (raw * m) \div 100
<1>1. m \in Nat \ {0}
  BY Here, TakenPart
<1>2. hp[y][c] \in Nat
  BY Here
<1>3. eff \in Nat
  <2> HIDE DEF m
  <2>1. raw * m \in Nat
    BY <1>1, ProductNat
  <2> QED BY <2>1, QuotientNat
<1>4. AfterHit(y, c, kind, raw) = IF eff >= hp[y][c] THEN 0 ELSE hp[y][c] - eff
  BY DEF AfterHit
<1> HIDE DEF eff
<1> QED BY <1>2, <1>3, <1>4

LEMMA StrikeKeeps ==
  ASSUME CombatInv, NEW y \in Seats, NEW kind \in Kinds, NEW dose,
         DOMAIN dose \subseteq Alive(y), \A c \in DOMAIN dose : dose[c] \in Nat,
         Strike(y, dose, kind), ship' = ship
  PROVE  Struck
<1> DEFINE cells == [c \in Cells |-> IF c \in DOMAIN dose
                                     THEN AfterHit(y, c, kind, dose[c]) ELSE hp[y][c]]
           lost  == dead[y] \cup Fallen(y, dose, kind)
<1>1. DOMAIN hp = Seats /\ DOMAIN dead = Seats /\ hull \in [Seats -> 0 .. WholeHull]
  BY DEF CombatInv, CombatTypeOK, CellsOK, HullsOK
<1>2. /\ DOMAIN hp' = Seats /\ DOMAIN dead' = Seats
      /\ \A z \in Seats : /\ hp'[z] = (IF z = y THEN cells ELSE hp[z])
                          /\ dead'[z] = (IF z = y THEN lost ELSE dead[z])
  BY <1>1 DEF Strike
<1>3. \A c \in DOMAIN dose : AfterHit(y, c, kind, dose[c]) \in 0 .. hp[y][c]
  BY AfterHitType
<1>4. DOMAIN dose \subseteq Cells /\ hp[y] \in [Cells -> Nat]
  BY Here
<1>5. \A c \in Cells : cells[c] \in Nat /\ cells[c] <= hp[y][c]
  BY <1>3, <1>4
<1>6. cells \in [Cells -> Nat]
  BY <1>5
<1>7. \A c \in Cells : cells[c] <= ship[y].full[c]
  <2>1. \A c \in Cells : ship[y].full[c] \in Nat /\ hp[y][c] <= ship[y].full[c]
    BY Here, MaxHpType
  <2> HIDE DEF cells
  <2> QED BY <1>4, <1>5, <2>1
<1>8. Fallen(y, dose, kind) = {c \in DOMAIN dose : cells[c] = 0}
  BY <1>4 DEF Fallen
<1>9. \A c \in Cells \ DOMAIN dose : cells[c] = hp[y][c]
  OBVIOUS
<1>10. \A c \in Cells : cells[c] > 0 <=> c \in ship[y].occupied \ lost
  <2> SUFFICES ASSUME NEW c \in Cells
               PROVE  cells[c] > 0 <=> c \in ship[y].occupied \ lost
    OBVIOUS
  <2>1. CASE c \in DOMAIN dose
    <3>1. c \in ship[y].occupied /\ c \notin dead[y]
      BY <2>1, Here
    <3>2. c \in lost <=> cells[c] = 0
      BY <1>8, <2>1, <3>1
    <3> HIDE DEF cells, lost
    <3> QED BY <1>5, <3>1, <3>2
  <2>2. CASE c \notin DOMAIN dose
    <3>1. c \in lost <=> c \in dead[y]
      BY <1>8, <2>2
    <3>2. cells[c] > 0 <=> c \in ship[y].occupied \ dead[y]
      BY <1>9, <2>2, Here
    <3> HIDE DEF cells, lost
    <3> QED BY <3>1, <3>2
  <2> QED BY <2>1, <2>2
<1>11. dead[y] \subseteq lost /\ lost \subseteq ship[y].occupied
  BY Here DEF Fallen
<1> HIDE DEF cells, lost
<1>12. CellsOK' /\ WrecksAgree' /\ \A z \in Seats : dead[z] \subseteq dead'[z]
  BY <1>2, <1>6, <1>7, <1>10, <1>11, CellsAfter
<1>13. hull' = hull
  BY DEF Strike
<1> QED BY <1>1, <1>12, <1>13 DEF Struck, Lasting

LEMMA StrikeHullKeeps ==
  ASSUME CombatInv, NEW y \in Seats, NEW raw \in Nat, StrikeHull(y, raw), ship' = ship
  PROVE  Struck
<1>1. hull \in [Seats -> 0 .. WholeHull]
  BY DEF CombatInv, CombatTypeOK, HullsOK
<1>2. HullHit(y, raw) \in 0 .. hull[y]
  <2> DEFINE d == (raw * HullFactor) \div 100
  <2>1. d \in Nat
    BY DEF HullFactor
  <2>2. hull[y] \in Nat
    BY <1>1
  <2> HIDE DEF d
  <2>3. AtMost(d, hull[y]) \in Nat /\ AtMost(d, hull[y]) <= hull[y]
    BY <2>1, <2>2, AtMostBounds
  <2>4. HullHit(y, raw) = hull[y] - AtMost(d, hull[y])
    BY DEF HullHit, d
  <2> QED BY <2>2, <2>3, <2>4
<1>3. hull' = [hull EXCEPT ![y] = HullHit(y, raw)] /\ UNCHANGED <<hp, dead>>
  BY DEF StrikeHull
<1>4. hull' \in [Seats -> 0 .. WholeHull] /\ \A z \in Seats : hull[z] = 0 => hull'[z] = 0
  <2>1. HullHit(y, raw) \in 0 .. WholeHull /\ (hull[y] = 0 => HullHit(y, raw) = 0)
    <3>1. hull[y] \in 0 .. WholeHull
      BY <1>1
    <3>2. WholeHull \in Nat
      BY DEF WholeHull
    <3> QED BY <1>2, <3>1, <3>2, Within
  <2> QED BY <1>1, <1>3, <2>1
<1> QED BY <1>3, <1>4, CellsSame DEF Struck, Lasting

\* dw2_shot_land
LEMMA LandKeeps ==
  ASSUME CombatInv, NEW y \in Seats, NEW lane \in Int, NEW kind \in Kinds, NEW raw \in Nat,
         Land(y, lane, kind, raw), ship' = ship
  PROVE  Struck /\ slug' \in [lane : Int, row : Int, raw : Nat]
<1>1. slug \in [lane : Int, row : Int, raw : Nat] /\ hull \in [Seats -> 0 .. WholeHull]
  BY DEF CombatInv, CombatTypeOK, StageOK, HullsOK
<1>2. CASE kind = "rail"
  <2>1. /\ slug' = [lane |-> lane, row |-> 0, raw |-> raw]
        /\ UNCHANGED <<hp, dead, hull>>
    BY <1>2 DEF Land
  <2>2. Struck
    BY <1>1, <2>1, CellsSame DEF Struck, Lasting
  <2> QED BY <2>1, <2>2
<1>3. CASE kind # "rail" /\ InLane(y, lane) = {}
  <2>1. StrikeHull(y, raw) /\ slug' = slug
    BY <1>3 DEF Land
  <2> QED BY <1>1, <2>1, StrikeHullKeeps
<1>4. CASE kind = "laser" /\ InLane(y, lane) # {}
  <2>1. slug' = slug /\ \E c \in Foremost(InLane(y, lane)) : Strike(y, [d \in {c} |-> raw], kind)
    BY <1>4 DEF Land
  <2>2. PICK c \in Foremost(InLane(y, lane)) : Strike(y, [d \in {c} |-> raw], kind)
    BY <2>1
  <2> DEFINE dose == [d \in {c} |-> raw]
  <2>3. DOMAIN dose \subseteq Alive(y) /\ \A d \in DOMAIN dose : dose[d] \in Nat
    BY DEF Foremost, InLane
  <2>4. Strike(y, dose, kind)
    BY <2>2
  <2> HIDE DEF dose
  <2> QED BY <1>1, <2>1, <2>3, <2>4, StrikeKeeps
<1>5. CASE kind # "rail" /\ kind # "laser" /\ InLane(y, lane) # {}
  <2>1. slug' = slug /\ \E c \in Deepest(InLane(y, lane)) : Strike(y, Burst(y, c, raw), kind)
    BY <1>5 DEF Land
  <2>2. PICK c \in Deepest(InLane(y, lane)) : Strike(y, Burst(y, c, raw), kind)
    BY <2>1
  <2> DEFINE dose == Burst(y, c, raw)
  <2>3. DOMAIN dose \subseteq Alive(y)
    BY DEF Burst, Deepest, InLane
  <2>4. (raw * Splash) \div 100 \in Nat
    BY DEF Splash
  <2>5. \A d \in DOMAIN dose : dose[d] \in Nat
    BY <2>4 DEF Burst
  <2>6. Strike(y, dose, kind)
    BY <2>2
  <2> HIDE DEF dose
  <2> QED BY <1>1, <2>1, <2>3, <2>5, <2>6, StrikeKeeps
<1> QED BY <1>2, <1>3, <1>4, <1>5

\* evade_acc stays below one dodge.
LEMMA TallyType ==
  ASSUME CombatInv, NEW y \in Seats, NEW kind
  PROVE  TallyAfter(y, kind) \in 0 .. 999
<1>1. Evade(ship[y]) \in 0 .. EvadeMax /\ tally[y] \in 0 .. 999
  BY Here, EvadeBounds
<1> DEFINE a == tally[y]
           e == Evade(ship[y])
<1>2. a \in 0 .. 999 /\ e \in 0 .. 500
  BY <1>1 DEF EvadeMax
<1> DEFINE after == TallyAfter(y, kind)
<1>3. \/ a + e >= 1000 /\ after = a + e - 1000
      \/ ~(a + e >= 1000) /\ after = a + e
      \/ after = a
  <2>1. CASE Dodged(y, kind)
    <3>1. after = a + e - 1000
      BY <2>1 DEF TallyAfter
    <3>2. a + e >= 1000
      BY <2>1 DEF Dodged
    <3> HIDE DEF a, e, after
    <3> QED BY <3>1, <3>2
  <2>2. CASE ~Dodged(y, kind) /\ Dodgeable(y, kind)
    <3>1. after = a + e
      BY <2>2 DEF TallyAfter
    <3>2. ~(a + e >= 1000)
      BY <2>2 DEF Dodged
    <3> HIDE DEF a, e, after
    <3> QED BY <3>1, <3>2
  <2>3. CASE ~Dodgeable(y, kind)
    <3>1. after = a
      BY <2>3 DEF TallyAfter, Dodged
    <3> QED BY <3>1
  <2> HIDE DEF a, e, after
  <2> QED BY <2>1, <2>2, <2>3, Zenon
<1> HIDE DEF a, e, after
<1>4. a \in Int /\ 0 <= a /\ a <= 999 /\ e \in Int /\ 0 <= e /\ e <= 500
  BY <1>2
<1>5. CASE a + e >= 1000 /\ after = a + e - 1000
  <2>1. a + e - 1000 \in 0 .. 999
    BY <1>4, <1>5
  <2> QED BY <1>5, <2>1 DEF after
<1>6. CASE ~(a + e >= 1000) /\ after = a + e
  <2>1. a + e \in 0 .. 999
    BY <1>4, <1>6
  <2> QED BY <1>6, <2>1 DEF after
<1>7. CASE after = a
  BY <1>2, <1>7 DEF after
<1> QED BY <1>3, <1>5, <1>6, <1>7

LEMMA ShootKeeps ==
  ASSUME CombatInv, NEW x \in Seats, NEW p \in Guns(ship[x]), Shoot(x, p)
  PROVE  CombatInv' /\ Lasting
<1> DEFINE y    == Other(x)
           kind == Stats(ship[x], p).kind
           raw  == damage[x][p]
           soak == AtMost(shield[y], raw)
           lane == GunCell(ship[x], p)[2]
<1>1. /\ Doing("resolve", x) /\ NextGun(x, p)
      /\ shots' = [shots EXCEPT ![x][p] = @ - 1]
      /\ UNCHANGED <<ship, clock, phase, agenda, todo, mult, charge, damage, pin,
                     loop, told>>
  BY DEF Shoot
<1>2. StageOK /\ HullsOK /\ CellsOK /\ GunsOK /\ WrecksAgree
  BY DEF CombatInv, CombatTypeOK
<1>3. y \in Seats /\ shield[y] \in Nat
  BY Here
<1>4. kind \in Kinds /\ lane \in Int
  <2>1. kind \in Kinds /\ GunCell(ship[x], p) \in Cells
    BY Here, GunFacts
  <2>2. \A c \in Cells : c[2] \in Int
    BY DEF Cells
  <2> QED BY <2>1, <2>2
<1>5. raw \in Nat
  BY <1>2 DEF GunsOK
<1>6. soak \in Nat /\ soak <= raw /\ soak <= shield[y]
  <2> HIDE DEF raw, y
  <2> QED BY <1>3, <1>5, AtMostBounds
<1>7. raw - soak \in Nat /\ shield[y] - soak \in Nat
  <2> HIDE DEF raw, y, soak
  <2> QED BY <1>3, <1>5, <1>6
<1>8. HullsOK' /\ CellsOK' /\ WrecksAgree' /\ Lasting
      /\ slug' \in [lane : Int, row : Int, raw : Nat]
  <2>1. ASSUME UNCHANGED <<hull, hp, dead>>
        PROVE  Struck
    BY <1>1, <1>2, <2>1, CellsSame DEF Struck, Lasting, HullsOK
  <2>2. CASE hull[y] = 0
    <3>1. UNCHANGED <<body, slug>>
      BY <2>2 DEF Shoot
    <3>2. HullsOK'
      BY <1>1, <1>2, <3>1 DEF HullsOK, body
    <3> QED BY <1>2, <2>1, <3>1, <3>2 DEF Struck, body, StageOK
  <2>3. CASE hull[y] # 0 /\ Dodged(y, kind)
    <3>1. tally' = [tally EXCEPT ![y] = TallyAfter(y, kind)]
          /\ UNCHANGED <<hull, shield, hp, dead, slug>>
      BY <2>3 DEF Shoot
    <3>2. HullsOK'
      <4> HIDE DEF y, kind
      <4> QED BY <1>1, <1>2, <1>3, <3>1, TallyType DEF HullsOK
    <3> QED BY <1>2, <2>1, <3>1, <3>2 DEF Struck, StageOK
  <2>4. CASE hull[y] # 0 /\ ~Dodged(y, kind)
    <3>1. /\ tally' = [tally EXCEPT ![y] = TallyAfter(y, kind)]
          /\ shield' = [shield EXCEPT ![y] = @ - soak]
          /\ \/ UNCHANGED <<hull, hp, dead, slug>>
             \/ Land(y, lane, kind, raw - soak)
      BY <2>4 DEF Shoot
    <3> HIDE DEF y, kind, lane, soak, raw
    <3>2. Struck /\ slug' \in [lane : Int, row : Int, raw : Nat]
      <4>1. CASE UNCHANGED <<hull, hp, dead, slug>>
        BY <1>2, <2>1, <4>1 DEF StageOK
      <4>2. CASE Land(y, lane, kind, raw - soak)
        BY <1>1, <1>3, <1>4, <1>7, <4>2, LandKeeps
      <4> QED BY <3>1, <4>1, <4>2
    <3>3. shield' \in [Seats -> Nat]
      BY <1>2, <1>3, <1>7, <3>1 DEF HullsOK
    <3>4. tally' \in [Seats -> 0 .. 999]
      <4>1. TallyAfter(y, kind) \in 0 .. 999
        BY <1>3, TallyType
      <4>2. tally \in [Seats -> 0 .. 999]
        BY <1>2 DEF HullsOK
      <4> QED BY <3>1, <4>1, <4>2
    <3>5. HullsOK'
      BY <1>1, <1>2, <3>2, <3>3, <3>4 DEF HullsOK, Struck
    <3> QED BY <3>2, <3>5 DEF Struck
  <2> QED BY <2>2, <2>3, <2>4
<1>9. StageOK'
  BY <1>1, <1>2, <1>8 DEF StageOK
<1>10. GunsOK'
  <2>1. shots[x] \in [Guns(ship[x]) -> 0 .. MaxShots] /\ shots[x][p] > 0
    BY <1>1, <1>2 DEF GunsOK, NextGun
  <2>2. DOMAIN shots' = Seats
    BY <1>1, <1>2 DEF GunsOK
  <2>3. shots'[x] = [shots[x] EXCEPT ![p] = @ - 1]
    BY <1>1, <1>2 DEF GunsOK
  <2>4. shots'[x] \in [Guns(ship[x]) -> 0 .. MaxShots]
    <3>1. shots[x][p] - 1 \in 0 .. MaxShots
      BY <2>1 DEF MaxShots
    <3> QED BY <2>1, <2>3, <3>1
  <2>5. \A z \in Seats : z # x => shots'[z] = shots[z]
    BY <1>1, <1>2 DEF GunsOK
  <2>6. \A z \in Seats : shots'[z] \in [Guns(ship[z]) -> 0 .. MaxShots]
    BY <1>2, <2>4, <2>5 DEF GunsOK
  <2> QED BY <1>1, <1>2, <2>2, <2>6 DEF GunsOK
<1>11. Quiet'
  BY <1>1 DEF CombatInv, Quiet, Doing
<1> QED BY <1>1, <1>8, <1>9, <1>10, <1>11 DEF CombatInv, CombatTypeOK

LEMMA SlugFliesKeeps ==
  ASSUME CombatInv, NEW x \in Seats, SlugFlies(x)
  PROVE  CombatInv' /\ Lasting
<1> DEFINE y     == Other(x)
           ahead == {c \in InLane(y, slug.lane) : c[1] >= slug.row}
<1>1. /\ slug # NoSlug /\ agenda # <<>>
      /\ UNCHANGED <<ship, clock, phase, agenda, todo, shield, tally, mult, guns, told>>
  BY DEF SlugFlies
<1>2. StageOK /\ HullsOK /\ CellsOK /\ GunsOK /\ WrecksAgree
  BY DEF CombatInv, CombatTypeOK
<1>3. y \in Seats /\ slug \in [lane : Int, row : Int, raw : Nat]
  BY <1>2, Here DEF StageOK
<1>4. NoSlug \in [lane : Int, row : Int, raw : Nat]
  BY DEF NoSlug
<1>5. ahead \subseteq Alive(y)
  BY DEF InLane
<1>6. \/ StrikeHull(y, slug.raw) /\ slug' = NoSlug
      \/ \E c \in Foremost(ahead) :
           /\ Strike(y, [d \in {c} |-> slug.raw], "rail")
           /\ slug' = IF AfterHit(y, c, "rail", slug.raw) = 0 /\ Carry(y, c) > 0
                      THEN [slug EXCEPT !.row = c[1] + 1, !.raw = Carry(y, c)]
                      ELSE NoSlug
  BY DEF SlugFlies
<1> HIDE DEF y, ahead
<1>7. Struck /\ slug' \in [lane : Int, row : Int, raw : Nat]
  <2>1. CASE StrikeHull(y, slug.raw) /\ slug' = NoSlug
    BY <1>1, <1>3, <1>4, <2>1, StrikeHullKeeps
  <2>2. ASSUME NEW c \in Foremost(ahead),
               Strike(y, [d \in {c} |-> slug.raw], "rail"),
               slug' = IF AfterHit(y, c, "rail", slug.raw) = 0 /\ Carry(y, c) > 0
                       THEN [slug EXCEPT !.row = c[1] + 1, !.raw = Carry(y, c)]
                       ELSE NoSlug
        PROVE  Struck /\ slug' \in [lane : Int, row : Int, raw : Nat]
    <3>1. c \in Alive(y)
      BY <1>5 DEF Foremost
    <3>2. c \in Cells /\ hp[y][c] \in Nat /\ ship[y].part[c].mult \in [Kinds -> Nat \ {0}]
      BY <1>3, <3>1, Here, TakenPart
    <3>3. ship[y].part[c].mult.rail \in Nat \ {0} /\ "rail" \in Kinds
      BY <3>2 DEF Kinds
    <3>4. Carry(y, c) \in Int
      <4> DEFINE m == ship[y].part[c].mult.rail
                 spent == (100 * hp[y][c]) \div m
      <4> HIDE DEF m
      <4>1. m \in Nat \ {0}
        BY <3>3 DEF m
      <4>2. spent \in Nat
        BY <3>2, <4>1, QuotientNat
      <4> HIDE DEF spent
      <4>3. (slug.raw - spent) * RailCarry \in Int
        BY <1>3, <4>2 DEF RailCarry
      <4> QED BY <4>3 DEF Carry, spent, m
    <3>5. c[1] + 1 \in Int
      BY <3>2 DEF Cells
    <3>6. slug' \in [lane : Int, row : Int, raw : Nat]
      <4>1. CASE AfterHit(y, c, "rail", slug.raw) = 0 /\ Carry(y, c) > 0
        <5>1. slug' = [slug EXCEPT !.row = c[1] + 1, !.raw = Carry(y, c)]
          BY <2>2, <4>1
        <5>2. Carry(y, c) \in Nat
          BY <3>4, <4>1
        <5> QED BY <1>3, <3>5, <5>1, <5>2
      <4>2. CASE ~(AfterHit(y, c, "rail", slug.raw) = 0 /\ Carry(y, c) > 0)
        <5>1. slug' = NoSlug
          BY <2>2, <4>2
        <5> QED BY <1>4, <5>1
      <4> QED BY <4>1, <4>2
    <3> DEFINE dose == [d \in {c} |-> slug.raw]
    <3>7. DOMAIN dose \subseteq Alive(y) /\ \A d \in DOMAIN dose : dose[d] \in Nat
      BY <1>3, <3>1
    <3>8. Strike(y, dose, "rail")
      BY <2>2
    <3> HIDE DEF dose
    <3>9. Struck
      BY <1>1, <1>3, <3>3, <3>7, <3>8, StrikeKeeps
    <3> QED BY <3>6, <3>9
  <2> QED BY <1>6, <2>1, <2>2
<1>8. StageOK'
  BY <1>1, <1>2, <1>7 DEF StageOK
<1>9. HullsOK'
  BY <1>1, <1>2, <1>7 DEF HullsOK, Struck
<1>10. GunsOK'
  BY <1>1, GunsSame DEF guns
<1>11. Quiet'
  BY <1>1 DEF CombatInv, Quiet
<1> QED BY <1>1, <1>7, <1>8, <1>9, <1>10, <1>11 DEF CombatInv, CombatTypeOK, Struck

LEMMA VolleyOverKeeps ==
  ASSUME CombatInv, NEW x \in Seats, VolleyOver(x)
  PROVE  CombatInv' /\ Lasting
<1>1. /\ Doing("resolve", x) /\ agenda' = Tail(agenda)
      /\ UNCHANGED <<ship, clock, phase, slug, todo, mult, told, body, guns>>
  BY DEF VolleyOver
<1>2. UNCHANGED <<hull, shield, tally, hp, dead>>
  BY <1>1 DEF body
<1>3. StageOK'
  <2>1. StageOK /\ agenda' \in Seq({"power", "resolve", "upkeep"} \X Seats)
    BY <1>1, RestOfAgenda DEF Doing, CombatInv, CombatTypeOK
  <2> QED BY <1>1, <2>1 DEF StageOK
<1>4. HullsOK'
  BY <1>1, <1>2 DEF CombatInv, CombatTypeOK, HullsOK
<1>5. CellsOK' /\ WrecksAgree' /\ \A y \in Seats : dead[y] \subseteq dead'[y]
  BY <1>1, <1>2, CellsSame
<1>6. GunsOK'
  BY <1>1, GunsSame
<1>7. Quiet'
  BY <1>1 DEF CombatInv, Quiet, Doing
<1> QED BY <1>1, <1>2, <1>3, <1>4, <1>5, <1>6, <1>7 DEF CombatInv, CombatTypeOK, Lasting

-----------------------------------------------------------------------------
(* Upkeep.                                                                 *)

\* The HP that heat leaves.
LEMMA HeatedType ==
  ASSUME CombatInv, NEW x \in Seats
  PROVE  /\ Heated(x) \in [Cells -> Nat]
         /\ \A c \in Cells : Heated(x)[c] <= hp[x][c]
         /\ Standing(x) \subseteq Alive(x)
         /\ Standing(x) = {c \in Alive(x) : Heated(x)[c] > 0}
<1>1. ASSUME NEW c \in Cells
      PROVE  Heat(x, c) \in Nat
  <2>1. CASE c \in Alive(x)
    <3> DEFINE from(n) == IF n \in Alive(x) /\ ship[x].owner[n] # ship[x].owner[c]
                          THEN ship[x].part[n].heat ELSE 0
               f == [side \in Sides |-> from(Beside(c, side))]
    <3>1. \A n : from(n) \in Nat
      BY Here, TakenPart
    <3> HIDE DEF from
    <3>2. f["N"] \in Nat /\ f["E"] \in Nat /\ f["S"] \in Nat /\ f["W"] \in Nat
      BY <3>1 DEF Sides
    <3>3. HeatAt(x, c) = OverSides(f)
      BY DEF HeatAt, from
    <3> HIDE DEF f
    <3>4. HeatAt(x, c) \in Nat
      BY <3>2, <3>3 DEF OverSides
    <3> QED BY <3>4 DEF Heat
  <2>2. CASE c \notin Alive(x)
    BY <2>2 DEF Heat
  <2> QED BY <2>1, <2>2
<1>2. hp[x] \in [Cells -> Nat]
  BY Here
<1>3. Heated(x) = [c \in Cells |-> IF Heat(x, c) >= hp[x][c] THEN 0 ELSE hp[x][c] - Heat(x, c)]
  BY DEF Heated
<1>4. \A c \in Cells : Heated(x)[c] \in Nat /\ Heated(x)[c] <= hp[x][c]
  BY <1>1, <1>2, <1>3
<1>5. Heated(x) \in [Cells -> Nat]
  BY <1>3, <1>4
<1> QED BY <1>4, <1>5 DEF Standing

\* What growth adds.
LEMMA GrowthType ==
  ASSUME NEW x \in Seats, NEW S, NEW c
  PROVE  GrowthAt(x, S, c) \in Nat
<1> DEFINE from(n) == IF n \notin InRole(x, S, "biomass") THEN 0
                      ELSE IF ship[x].owner[n] = ship[x].owner[c] THEN GrowOwn
                      ELSE GrowOther
           f == [side \in Sides |-> from(Beside(c, side))]
<1>1. \A n : from(n) \in Nat
  BY DEF GrowOwn, GrowOther
<1> HIDE DEF from
<1>2. f["N"] \in Nat /\ f["E"] \in Nat /\ f["S"] \in Nat /\ f["W"] \in Nat
  BY <1>1 DEF Sides
<1>3. GrowthAt(x, S, c) = OverSides(f)
  BY DEF GrowthAt, from
<1> HIDE DEF f
<1> QED BY <1>2, <1>3 DEF OverSides

LEMMA UpkeepKeeps ==
  ASSUME CombatInv, NEW x \in Seats, Upkeep(x)
  PROVE  CombatInv' /\ Lasting
<1> DEFINE cells == Grown(x)
           lost  == ship[x].occupied \ Standing(x)
<1>1. /\ Doing("upkeep", x) /\ agenda' = Tail(agenda) /\ todo' = {x} \X Menders(x)
      /\ UNCHANGED <<ship, clock, phase, slug, hull, shield, tally, mult, guns, told>>
  BY DEF Upkeep
<1>2. DOMAIN hp = Seats /\ DOMAIN dead = Seats
  BY DEF CombatInv, CombatTypeOK, CellsOK
<1>3. /\ DOMAIN hp' = Seats /\ DOMAIN dead' = Seats
      /\ \A z \in Seats : /\ hp'[z] = (IF z = x THEN cells ELSE hp[z])
                          /\ dead'[z] = (IF z = x THEN lost ELSE dead[z])
  <2> HIDE DEF cells, lost
  <2> QED BY <1>2 DEF Upkeep, cells, lost
<1>4. Standing(x) \subseteq ship[x].occupied /\ Standing(x) \subseteq Cells
      /\ Standing(x) \cap dead[x] = {}
  BY Here, HeatedType
<1>5. ASSUME NEW c \in Cells
      PROVE  /\ cells[c] \in Nat /\ cells[c] <= ship[x].full[c]
             /\ cells[c] > 0 <=> c \in Standing(x)
  <2> DEFINE h == Heated(x)[c]
             g == GrowthAt(x, Standing(x), c)
             m == ship[x].full[c]
  <2>1. cells[c] = IF c \in Standing(x) THEN AtMost(h + g, m) ELSE 0
    BY DEF Grown
  <2>2. h \in Nat /\ g \in Nat /\ m \in Nat
    BY Here, HeatedType, GrowthType, MaxHpType
  <2>3. CASE c \in Standing(x)
    <3>1. h > 0 /\ m > 0
      BY <1>4, <2>3, Here, HeatedType, MaxHpType
    <3> HIDE DEF cells, h, g, m
    <3>2. AtMost(h + g, m) \in Nat /\ AtMost(h + g, m) <= m /\ AtMost(h + g, m) > 0
      BY <2>2, <3>1 DEF AtMost
    <3>3. cells[c] = AtMost(h + g, m)
      BY <2>1, <2>3
    <3>4. cells[c] \in Nat /\ cells[c] <= m /\ cells[c] > 0
      BY <3>2, <3>3
    <3> QED BY <2>3, <3>4 DEF m
  <2>4. CASE c \notin Standing(x)
    <3>1. cells[c] = 0
      BY <2>1, <2>4
    <3> QED BY <2>2, <2>4, <3>1
  <2> QED BY <2>3, <2>4
<1>6. cells \in [Cells -> Nat]
  <2>1. cells = [c \in Cells |-> cells[c]]
    BY DEF Grown
  <2> HIDE DEF cells
  <2> QED BY <1>5, <2>1
<1>7. dead[x] \subseteq lost /\ lost \subseteq ship[x].occupied
  BY <1>4, Here
<1>8. \A c \in Cells : cells[c] > 0 <=> c \in ship[x].occupied \ lost
  <2>1. \A c \in Cells : c \in ship[x].occupied \ lost <=> c \in Standing(x)
    BY <1>4
  <2> SUFFICES ASSUME NEW c \in Cells
               PROVE  cells[c] > 0 <=> c \in ship[x].occupied \ lost
    OBVIOUS
  <2>2. cells[c] > 0 <=> c \in Standing(x)
    BY <1>5
  <2> HIDE DEF cells, lost
  <2> QED BY <2>1, <2>2
<1>9. CellsOK' /\ WrecksAgree' /\ \A z \in Seats : dead[z] \subseteq dead'[z]
  <2> HIDE DEF cells, lost
  <2>1. \A c \in Cells : cells[c] <= ship[x].full[c]
    BY <1>5
  <2>2. ship' = ship
    BY <1>1
  <2> QED BY <1>3, <1>6, <1>7, <1>8, <2>1, <2>2, CellsAfter
<1>10. Menders(x) \subseteq Cells /\ (Menders(x) # {} => hull[x] > 0)
  <2>1. hull[x] \in Nat
    BY Here
  <2> QED BY <1>4, <2>1 DEF Menders
<1>11. StageOK'
  <2>1. StageOK /\ agenda' \in Seq({"power", "resolve", "upkeep"} \X Seats)
    BY <1>1, RestOfAgenda DEF Doing, CombatInv, CombatTypeOK
  <2>2. todo' \subseteq Seats \X Cells
    BY <1>1, <1>10
  <2> QED BY <1>1, <2>1, <2>2 DEF StageOK
<1>12. HullsOK'
  BY <1>1 DEF CombatInv, CombatTypeOK, HullsOK
<1>13. GunsOK'
  BY <1>1, GunsSame
<1>14. Quiet'
  <2>1. \A t \in todo' : hull'[t[1]] > 0
    <3>1. \A t \in todo' : t[1] = x /\ t[2] \in Menders(x)
      BY <1>1
    <3> QED BY <1>1, <1>10, <3>1
  <2>2. slug' = NoSlug /\ phase' = "second" /\ clock' < TimeoutTicks
    BY <1>1 DEF CombatInv, Quiet, Doing
  <2> QED BY <2>1, <2>2 DEF Quiet
<1> QED BY <1>1, <1>9, <1>11, <1>12, <1>13, <1>14 DEF CombatInv, CombatTypeOK, Lasting

LEMMA RepairKeeps ==
  ASSUME CombatInv, NEW x \in Seats, NEW c \in Cells, Repair(x, c)
  PROVE  CombatInv' /\ Lasting
<1>1. /\ <<x, c>> \in todo /\ todo' = todo \ {<<x, c>>}
      /\ UNCHANGED <<ship, clock, phase, agenda, slug, mult, shield, tally, dead,
                     guns, told>>
  BY DEF Repair
<1>2. StageOK /\ HullsOK /\ CellsOK /\ GunsOK /\ WrecksAgree
  BY DEF CombatInv, CombatTypeOK
<1>3. hull[x] > 0
  BY <1>1 DEF CombatInv, Quiet
<1>4. pin[x][c] \in Nat
  BY <1>2 DEF GunsOK
<1>5. /\ hull' \in [Seats -> 0 .. WholeHull]
      /\ \A z \in Seats : hull[z] > 0 => hull'[z] > 0
      /\ \A z \in Seats : hull[z] = 0 => hull'[z] = 0
      /\ CellsOK' /\ WrecksAgree'
  <2>1. \/ hull' = [hull EXCEPT ![x] = Mended(x, c)] /\ UNCHANGED hp
        \/ UNCHANGED <<hp, hull>>
        \/ \E d \in Weakest(x, Damaged(x, c)) :
             hp' = [hp EXCEPT ![x][d] = RepairedHp(x, c, d)] /\ UNCHANGED hull
    BY DEF Repair
  <2>2. CASE hull' = [hull EXCEPT ![x] = Mended(x, c)] /\ UNCHANGED hp
    <3> DEFINE n == hull[x] + (MenderHeal * pin[x][c]) \div 10
    <3>1. hull[x] \in Nat
      BY <1>2 DEF HullsOK
    <3>2. n \in Nat /\ n > 0
      BY <1>3, <1>4, <3>1 DEF MenderHeal
    <3>3. Mended(x, c) = AtMost(n, WholeHull)
      BY DEF Mended
    <3> HIDE DEF n
    <3>4. Mended(x, c) \in 0 .. WholeHull /\ Mended(x, c) > 0
      BY <3>2, <3>3 DEF AtMost, WholeHull
    <3>5. hull' \in [Seats -> 0 .. WholeHull]
      BY <1>2, <2>2, <3>4 DEF HullsOK
    <3>6. \A z \in Seats : (hull[z] > 0 => hull'[z] > 0) /\ (hull[z] = 0 => hull'[z] = 0)
      BY <1>2, <1>3, <2>2, <3>4 DEF HullsOK
    <3>7. CellsOK' /\ WrecksAgree'
      BY <1>1, <2>2, CellsSame
    <3> QED BY <3>5, <3>6, <3>7
  <2>3. CASE UNCHANGED <<hp, hull>>
    BY <1>1, <1>2, <2>3, CellsSame DEF HullsOK
  <2>4. ASSUME NEW d \in Weakest(x, Damaged(x, c)),
               hp' = [hp EXCEPT ![x][d] = RepairedHp(x, c, d)] /\ UNCHANGED hull
        PROVE  hull' \in [Seats -> 0 .. WholeHull] /\ CellsOK' /\ WrecksAgree'
    <3> DEFINE cells == [hp[x] EXCEPT ![d] = RepairedHp(x, c, d)]
               m == ship[x].full[d]
    <3>1. d \in Alive(x)
      BY DEF Weakest, Damaged
    <3>2. d \in Cells /\ hp[x] \in [Cells -> Nat] /\ hp[x][d] > 0 /\ d \in ship[x].occupied
      BY <3>1, Here
    <3>3. \A e \in Cells : ship[x].full[e] \in Nat /\ hp[x][e] <= ship[x].full[e]
      BY Here, MaxHpType
    <3>4. AegisHeals(x, c) \in Nat
      <4> DEFINE b == Boost(x, ship[x].owner[c], "aether")
      <4>1. b \in Nat
        BY BoostType
      <4>2. AegisHeals(x, c) = (AegisRepair * pin[x][c] * b) \div 1000
        BY DEF AegisHeals
      <4> HIDE DEF b
      <4>3. AegisRepair * pin[x][c] \in Nat
        BY <1>4 DEF AegisRepair
      <4>4. AegisRepair * pin[x][c] * b \in Nat
        BY <4>1, <4>3, ProductNat
      <4> QED BY <4>2, <4>4, QuotientNat
    <3>5. RepairedHp(x, c, d) = AtMost(hp[x][d] + AegisHeals(x, c), m)
      BY DEF RepairedHp
    <3>6. m \in Nat /\ m > 0
      BY <3>2, <3>3
    <3>7. RepairedHp(x, c, d) \in Nat /\ RepairedHp(x, c, d) <= m /\ RepairedHp(x, c, d) > 0
      <4> HIDE DEF m
      <4>1. hp[x][d] + AegisHeals(x, c) \in Nat /\ hp[x][d] + AegisHeals(x, c) > 0
        BY <3>2, <3>4
      <4> QED BY <3>5, <3>6, <4>1 DEF AtMost
    <3>8. /\ DOMAIN hp' = Seats /\ DOMAIN dead' = Seats
          /\ \A z \in Seats : /\ hp'[z] = (IF z = x THEN cells ELSE hp[z])
                              /\ dead'[z] = (IF z = x THEN dead[x] ELSE dead[z])
      BY <1>1, <1>2, <2>4 DEF CellsOK
    <3>9. cells \in [Cells -> Nat]
      BY <3>2, <3>7
    <3>10. \A e \in Cells : cells[e] <= ship[x].full[e]
      BY <3>2, <3>3, <3>7
    <3>11. \A e \in Cells : cells[e] > 0 <=> e \in ship[x].occupied \ dead[x]
      BY <3>1, <3>2, <3>7, Here
    <3>12. dead[x] \subseteq ship[x].occupied
      BY Here
    <3> HIDE DEF cells, m
    <3>13. CellsOK' /\ WrecksAgree'
      BY <1>1, <3>8, <3>9, <3>10, <3>11, <3>12, CellsAfter
    <3> QED BY <1>2, <2>4, <3>13 DEF HullsOK
  <2>5. CASE \E d \in Weakest(x, Damaged(x, c)) :
               hp' = [hp EXCEPT ![x][d] = RepairedHp(x, c, d)] /\ UNCHANGED hull
    BY <2>4, <2>5
  <2> QED BY <2>1, <2>2, <2>3, <2>5
<1>6. HullsOK'
  BY <1>1, <1>2, <1>5 DEF HullsOK
<1>7. StageOK'
  BY <1>1, <1>2 DEF StageOK
<1>8. GunsOK'
  BY <1>1, GunsSame
<1>9. Quiet'
  <2>1. todo # {} /\ todo' \subseteq todo
    BY <1>1
  <2>2. \A t \in todo : t[1] \in Seats /\ hull[t[1]] > 0
    BY <1>2 DEF CombatInv, Quiet, StageOK
  <2> QED BY <1>1, <1>5, <2>1, <2>2 DEF CombatInv, Quiet
<1> QED BY <1>1, <1>5, <1>6, <1>7, <1>8, <1>9 DEF CombatInv, CombatTypeOK, Lasting

-----------------------------------------------------------------------------
(* The end of a second, and the break.                                     *)

LEMMA AgendaType ==
  ASSUME NEW t \in Nat
  PROVE  CallsOf(t) \in Seq({"power", "resolve", "upkeep"} \X Seats)
<1> DEFINE C == {"power", "resolve", "upkeep"} \X Seats
           first == t % 2
<1>1. first \in Seats /\ Other(first) \in Seats
  <2>1. first = 0 \/ first = 1
    OBVIOUS
  <2> HIDE DEF first
  <2> QED BY <2>1 DEF Seats, Other
<1>2. CallsOf(t) = <<<<"power", 0>>, <<"power", 1>>,
                     <<"resolve", first>>, <<"resolve", Other(first)>>,
                     <<"upkeep", 0>>, <<"upkeep", 1>>>>
  BY DEF CallsOf
<1>3. /\ <<"power", 0>> \in C /\ <<"power", 1>> \in C
      /\ <<"resolve", first>> \in C /\ <<"resolve", Other(first)>> \in C
      /\ <<"upkeep", 0>> \in C /\ <<"upkeep", 1>> \in C
  <2> HIDE DEF first
  <2> QED BY <1>1 DEF Seats
<1> HIDE DEF C, first
<1>4. CallsOf(t) \in Seq(C)
  BY <1>2, <1>3
<1> QED BY <1>4 DEF C

\* Only a fight that may take another second goes on.
LEMMA OngoingInTime ==
  ASSUME NEW x, NEW t, Verdict(x, t) = "ongoing"
  PROVE  t < TimeoutTicks
<1>1. "tie" # "ongoing" /\ "win" # "ongoing" /\ "loss" # "ongoing"
  OBVIOUS
<1>2. CASE hull[x] = 0 \/ hull[Other(x)] = 0
  BY <1>2 DEF Verdict
<1>3. CASE ~(hull[x] = 0 \/ hull[Other(x)] = 0)
  BY <1>3 DEF Verdict
<1> QED BY <1>2, <1>3

LEMMA EndSecondKeeps ==
  ASSUME CombatInv, EndSecond
  PROVE  CombatInv' /\ Lasting
<1>1. /\ phase = "second" /\ agenda = <<>> /\ todo = {} /\ clock' = clock + 1
      /\ told' = hull
      /\ UNCHANGED <<ship, slug, todo, mult, body, guns>>
  BY DEF EndSecond, SecondIsOver
<1>2. /\ phase' = IF Verdict(0, clock') # "ongoing" THEN "over"
                  ELSE IF clock' % RoundTicks = 0 THEN "break"
                  ELSE "second"
      /\ agenda' = IF phase' = "second" THEN CallsOf(clock') ELSE <<>>
  BY DEF EndSecond
<1>3. UNCHANGED <<hull, shield, tally, hp, dead>>
  BY <1>1 DEF body
<1>4. StageOK /\ HullsOK
  BY DEF CombatInv, CombatTypeOK
<1>5. clock \in Nat /\ TimeoutTicks \in Nat /\ clock < TimeoutTicks
  BY <1>1, <1>4, CombatAssumption DEF CombatInv, Quiet, StageOK
<1>6. clock' \in Nat /\ clock' \in 0 .. TimeoutTicks
  BY <1>1, <1>5
<1>7. phase' \in {"second", "break", "over"}
  BY <1>2
<1>8. phase' # "over" => clock' < TimeoutTicks
  <2>1. ASSUME phase' # "over"
        PROVE  Verdict(0, clock') = "ongoing"
    BY <1>2, <2>1
  <2> QED BY <2>1, OngoingInTime
<1>9. agenda' \in Seq({"power", "resolve", "upkeep"} \X Seats)
  <2>1. CASE phase' = "second"
    BY <1>2, <1>6, <2>1, AgendaType
  <2>2. CASE phase' # "second"
    <3>1. agenda' = <<>>
      BY <1>2, <2>2
    <3> QED BY <3>1
  <2> QED BY <2>1, <2>2
<1>10. told' \in [Seats -> 0 .. WholeHull]
  BY <1>1, <1>4 DEF HullsOK
<1>11. StageOK'
  BY <1>1, <1>4, <1>6, <1>7, <1>9, <1>10 DEF StageOK
<1>12. HullsOK'
  BY <1>1, <1>3, <1>4 DEF HullsOK
<1>13. CellsOK' /\ WrecksAgree' /\ \A y \in Seats : dead[y] \subseteq dead'[y]
  BY <1>1, <1>3, CellsSame
<1>14. GunsOK'
  BY <1>1, GunsSame
<1>15. Quiet'
  <2>1. phase' # "second" => agenda' = <<>>
    BY <1>2
  <2> QED BY <1>1, <1>8, <2>1 DEF Quiet
<1> QED BY <1>1, <1>3, <1>11, <1>12, <1>13, <1>14, <1>15 DEF CombatInv, CombatTypeOK, Lasting

\* dw2_round_grade
LEMMA EffectType ==
  ASSUME NEW call, NEW grade, NEW standing
  PROVE  Effect(call, grade, standing) \in [mult : Nat, armor : Nat, backfire : Nat]
<1> DEFINE won == WinShare(standing)
           lost == MissShare(standing)
           neutral == [mult |-> 100, armor |-> 0, backfire |-> 0]
           Made == [mult : Nat, armor : Nat, backfire : Nat]
           e == Effect(call, grade, standing)
<1>1. won \in Nat /\ lost \in Nat
  BY DEF WinShare, MissShare
<1>2. \/ e = [neutral EXCEPT !.mult = 100 + 5 * won]
      \/ e = [neutral EXCEPT !.mult = 100 + (5 * won) \div 2]
      \/ e = [neutral EXCEPT !.backfire = (BackfireHull * lost) \div 10]
      \/ e = [neutral EXCEPT !.armor = 250 * won]
      \/ e = [neutral EXCEPT !.armor = 120 * won]
      \/ e = neutral
  <2>1. CASE call = "overcharge" /\ grade = "perfect"
    BY <2>1 DEF Effect
  <2>2. CASE call = "overcharge" /\ grade = "good"
    BY <2>2 DEF Effect
  <2>3. CASE call = "overcharge" /\ grade = "miss"
    BY <2>3 DEF Effect
  <2>4. CASE call = "brace" /\ grade = "perfect"
    BY <2>4 DEF Effect
  <2>5. CASE call = "brace" /\ grade = "good"
    BY <2>5 DEF Effect
  <2>6. CASE /\ ~(call = "overcharge" /\ grade \in {"perfect", "good", "miss"})
             /\ ~(call = "brace" /\ grade \in {"perfect", "good"})
    BY <2>6 DEF Effect
  <2> QED BY <2>1, <2>2, <2>3, <2>4, <2>5, <2>6
<1> HIDE DEF won, lost, e
<1>3. /\ 100 + 5 * won \in Nat /\ 100 + (5 * won) \div 2 \in Nat
      /\ 250 * won \in Nat /\ 120 * won \in Nat
      /\ (BackfireHull * lost) \div 10 \in Nat
  BY <1>1 DEF BackfireHull
<1>4. e \in Made
  BY <1>2, <1>3
<1> QED BY <1>4 DEF e

LEMMA BreakKeeps ==
  ASSUME CombatInv, NEW answer, NEW target, Break(answer, target)
  PROVE  CombatInv' /\ Lasting
<1> DEFINE e == [x \in Seats |-> EffectOf(x, answer, target)]
<1>1. /\ phase = "break" /\ phase' = "second" /\ agenda' = CallsOf(clock)
      /\ told' = hull'
      /\ UNCHANGED <<ship, clock, slug, todo, tally, hp, dead, guns>>
  BY DEF Break
<1>2. /\ mult' = [x \in Seats |-> e[x].mult]
      /\ shield' = [x \in Seats |-> shield[x] + e[x].armor]
      /\ hull' = [x \in Seats |-> Backfired(x, e[x])]
  BY DEF Break
<1>3. ASSUME NEW x \in Seats
      PROVE  /\ e[x].mult \in Nat /\ e[x].armor \in Nat /\ e[x].backfire \in Nat
  <2>1. e[x] \in [mult : Nat, armor : Nat, backfire : Nat]
    BY EffectType DEF EffectOf
  <2> HIDE DEF e
  <2> QED BY <2>1
<1> HIDE DEF e
<1>4. StageOK /\ HullsOK /\ Quiet
  BY DEF CombatInv, CombatTypeOK
<1>5. ASSUME NEW x \in Seats
      PROVE  /\ hull'[x] \in 0 .. WholeHull /\ (hull[x] = 0 => hull'[x] = 0)
             /\ shield'[x] \in Nat /\ mult'[x] \in Nat
  <2>1. hull[x] \in 0 .. WholeHull /\ shield[x] \in Nat
    BY <1>4 DEF HullsOK
  <2>2. WholeHull \in Nat /\ hull[x] \in Nat
    <3>1. WholeHull \in Nat
      BY DEF WholeHull
    <3> QED BY <2>1, <3>1
  <2> DEFINE cut == AtMost(e[x].backfire, hull[x])
  <2>3. cut \in Nat /\ cut <= hull[x]
    BY <1>3, <2>2, AtMostBounds
  <2>4. hull'[x] = hull[x] - cut
    BY <1>2 DEF Backfired
  <2> HIDE DEF cut
  <2>5. hull'[x] \in 0 .. hull[x]
    BY <2>2, <2>3, <2>4
  <2>6. hull'[x] \in 0 .. WholeHull /\ (hull[x] = 0 => hull'[x] = 0)
    BY <2>1, <2>2, <2>5, Within
  <2>7. shield'[x] \in Nat /\ mult'[x] \in Nat
    BY <1>2, <1>3, <2>1
  <2> QED BY <2>6, <2>7
<1>6. hull' \in [Seats -> 0 .. WholeHull]
  BY <1>2, <1>5
<1>7. HullsOK'
  <2>1. shield' \in [Seats -> Nat] /\ mult' \in [Seats -> Nat]
    BY <1>2, <1>5
  <2> QED BY <1>1, <1>4, <1>6, <2>1 DEF HullsOK
<1>8. clock \in Nat /\ clock < TimeoutTicks
  BY <1>1, <1>4 DEF StageOK, Quiet
<1>9. StageOK'
  <2>1. agenda' \in Seq({"power", "resolve", "upkeep"} \X Seats)
    BY <1>1, <1>8, AgendaType
  <2> QED BY <1>1, <1>4, <1>6, <2>1 DEF StageOK
<1>10. CellsOK' /\ WrecksAgree' /\ \A y \in Seats : dead[y] \subseteq dead'[y]
  BY <1>1, CellsSame
<1>11. GunsOK'
  BY <1>1, GunsSame
<1>12. Quiet'
  BY <1>1, <1>4, <1>8 DEF Quiet
<1> QED BY <1>1, <1>5, <1>7, <1>9, <1>10, <1>11, <1>12 DEF CombatInv, CombatTypeOK, Lasting

-----------------------------------------------------------------------------
(* The theorems.                                                           *)

LEMMA CombatInit ==
  ASSUME Init
  PROVE  CombatInv
<1>1. ship \in Matchups /\ ship \in [Seats -> Ships] /\ TimeoutTicks \in Nat \ {0}
  BY CombatAssumption DEF Init
<1>2. StartCombat
  BY DEF Init
<1>3. NoSlug \in [lane : Int, row : Int, raw : Nat]
  BY DEF NoSlug
<1>4. hull = [x \in Seats |-> WholeHull] /\ told = hull
  BY <1>2 DEF StartCombat
<1>5. hull \in [Seats -> 0 .. WholeHull]
  BY <1>4 DEF WholeHull
<1>6. StageOK
  <2>1. agenda \in Seq({"power", "resolve", "upkeep"} \X Seats)
    BY <1>2, AgendaType DEF StartCombat
  <2>2. clock \in 0 .. TimeoutTicks /\ phase = "second" /\ slug = NoSlug /\ todo = {}
    BY <1>1, <1>2 DEF StartCombat
  <2> QED BY <1>1, <1>3, <1>4, <1>5, <2>1, <2>2 DEF StageOK
<1>7. HullsOK
  BY <1>2, <1>5 DEF StartCombat, HullsOK
<1>8. \A x \in Seats : hp[x] = ship[x].full /\ dead[x] = {}
  BY <1>2 DEF StartCombat
<1>9. \A x \in Seats : /\ ship[x].full \in [Cells -> Nat]
                       /\ ship[x].occupied = {c \in Cells : ship[x].full[c] > 0}
  BY <1>1, MaxHpType
<1>10. CellsOK
  <2>1. DOMAIN hp = Seats /\ DOMAIN dead = Seats
    BY <1>2 DEF StartCombat
  <2>2. ASSUME NEW x \in Seats
        PROVE  /\ dead[x] \subseteq ship[x].occupied
               /\ hp[x] \in [Cells -> Nat]
               /\ \A c \in Cells : hp[x][c] <= ship[x].full[c]
    BY <1>8, <1>9
  <2> QED BY <2>1, <2>2 DEF CellsOK
<1>11. WrecksAgree
  BY <1>8, <1>9 DEF WrecksAgree, Alive
<1>12. GunsOK
  <2>1. /\ charge = [x \in Seats |-> [p \in Guns(ship[x]) |-> 0]]
        /\ shots = charge /\ damage = charge
        /\ pin = [x \in Seats |-> [c \in Cells |-> 0]]
        /\ loop = [x \in Seats |-> NoLoop]
    BY <1>2 DEF StartCombat
  <2>2. NoLoop \in [cells : SUBSET Cells, age : 0 .. MeltAge - 1]
    BY DEF NoLoop, MeltAge
  <2>3. ASSUME NEW x \in Seats, NEW p \in Guns(ship[x])
        PROVE  charge[x][p] <= 2 * Stats(ship[x], p).threshold
    <3>1. Stats(ship[x], p).threshold \in {10, 30}
      BY <1>1, GunFacts
    <3> QED BY <2>1, <3>1
  <2>4. pin \in [Seats -> [Cells -> Nat]]
        /\ loop \in [Seats -> [cells : SUBSET Cells, age : 0 .. MeltAge - 1]]
    BY <2>1, <2>2
  <2>5. DOMAIN charge = Seats /\ \A x \in Seats : charge[x] = [p \in Guns(ship[x]) |-> 0]
    BY <2>1
  <2>6. 0 \in 0 .. MaxShots
    BY DEF MaxShots
  <2>7. \A x \in Seats : /\ charge[x] \in [Guns(ship[x]) -> Nat]
                         /\ shots[x] \in [Guns(ship[x]) -> 0 .. MaxShots]
                         /\ damage[x] \in [Guns(ship[x]) -> Nat]
    BY <2>1, <2>5, <2>6
  <2> QED BY <2>1, <2>3, <2>4, <2>5, <2>7 DEF GunsOK
<1>13. Quiet
  BY <1>1, <1>2 DEF StartCombat, Quiet
<1> QED BY <1>1, <1>6, <1>7, <1>10, <1>11, <1>12, <1>13 DEF CombatInv, CombatTypeOK

LEMMA CombatStep ==
  ASSUME CombatInv, [Next]_vars
  PROVE  CombatInv' /\ (UNCHANGED vars \/ Lasting)
<1>1. CASE PowerUp
  BY <1>1, PowerKeeps DEF PowerUp
<1>2. CASE Goes
  <2>1. PICK x \in Seats :
          \/ \E p \in Guns(ship[x]) : Shoot(x, p)
          \/ SlugFlies(x) \/ VolleyOver(x)
          \/ Upkeep(x) \/ \E c \in Cells : Repair(x, c)
    BY <1>2 DEF Goes
  <2> QED BY <2>1, ShootKeeps, SlugFliesKeeps, VolleyOverKeeps, UpkeepKeeps, RepairKeeps
<1>3. CASE EndSecond
  BY <1>3, EndSecondKeeps
<1>4. CASE CallsMade
  BY <1>4, BreakKeeps DEF CallsMade
<1>5. CASE UNCHANGED vars
  <2>1. UNCHANGED <<ship, clock, phase, agenda, slug, todo, mult, told, body, guns>>
    BY <1>5 DEF vars
  <2>2. UNCHANGED <<hull, shield, tally, hp, dead>>
    BY <2>1 DEF body
  <2>3. StageOK' /\ HullsOK'
    BY <2>1, <2>2 DEF CombatInv, CombatTypeOK, StageOK, HullsOK
  <2>4. Quiet'
    BY <2>1, <2>2 DEF CombatInv, Quiet
  <2> QED BY <1>5, <2>1, <2>2, <2>3, <2>4, CellsSame, GunsSame DEF CombatInv, CombatTypeOK
<1> QED BY <1>1, <1>2, <1>3, <1>4, <1>5 DEF Next

LEMMA CombatInvariant == Spec => []CombatInv
<1>1. Init => CombatInv
  BY CombatInit
<1>2. CombatInv /\ [Next]_vars => CombatInv'
  BY CombatStep
<1> QED BY <1>1, <1>2, PTL DEF Spec

\* Every number of a fight stays within the bounds the C declares for it: HP
\* within what the part was built with, charge within two shots, the hull within
\* 100 %, the dodge tally below one dodge, and the clock within the timeout.
THEOREM CombatTypeCorrect == Spec => []CombatTypeOK
<1>1. CombatInv => CombatTypeOK
  BY DEF CombatInv
<1> QED BY <1>1, CombatInvariant, PTL

\* cell_hp and dead, which every reader of combat.c takes to say the same, do so
\* after every shot, melt, second of heat and repair.
THEOREM RecordsAgree == Spec => []WrecksAgree
<1>1. CombatInv => WrecksAgree
  BY DEF CombatInv
<1> QED BY <1>1, CombatInvariant, PTL

\* Growth, Aegis, Mender and round breaks never bring back a destroyed cell or a
\* destroyed hull.
THEOREM NothingReturns == Spec => NothingRevives
<1>1. CombatInv /\ [Next]_vars => [Lasting]_vars
  BY CombatStep
<1>2. [Lasting]_vars => [\A x \in Seats : /\ dead[x] \subseteq dead'[x]
                                          /\ hull[x] = 0 => hull'[x] = 0]_vars
  BY DEF Lasting
<1> QED BY <1>1, <1>2, CombatInvariant, PTL DEF Spec, NothingRevives

-----------------------------------------------------------------------------
(* The fight as the server sees it: the refinement of Dw2Duel.             *)

(* Levels.                                                                 *)

\* Only a destroyed hull is at level 0, and half a hull is the last at level 1.
LEMMA LevelIs ==
  ASSUME NEW h \in 0 .. WholeHull
  PROVE  LevelOf(h) = IF h = 0 THEN 0 ELSE IF h <= 5000 THEN 1 ELSE 2
<1>1. h \in Int /\ 0 <= h /\ h <= 10000
  BY DEF WholeHull
<1>2. CASE h = 0
  BY <1>2 DEF LevelOf, WholeHull
<1>3. CASE 0 < h /\ h <= 5000
  BY <1>1, <1>3 DEF LevelOf, WholeHull
<1>4. CASE 5000 < h
  BY <1>1, <1>4 DEF LevelOf, WholeHull
<1> QED BY <1>1, <1>2, <1>3, <1>4

LEMMA LevelType ==
  ASSUME NEW h \in 0 .. WholeHull
  PROVE  LevelOf(h) \in 0 .. 2 /\ (LevelOf(h) = 0 <=> h = 0)
BY LevelIs

\* A hull that loses less than half of a whole one loses one level at most.
LEMMA OneLevelDown ==
  ASSUME NEW h \in 0 .. WholeHull, NEW d \in 0 .. WholeHull, d <= h, h - d <= 1280
  PROVE  /\ LevelOf(d) \in 0 .. 2
         /\ \/ LevelOf(d) = LevelOf(h)
            \/ d # h /\ LevelOf(h) > 0 /\ LevelOf(d) = LevelOf(h) - 1
<1>1. h \in Nat /\ d \in Nat
  BY DEF WholeHull
<1>2. LevelOf(h) = IF h = 0 THEN 0 ELSE IF h <= 5000 THEN 1 ELSE 2
  BY LevelIs
<1>3. LevelOf(d) = IF d = 0 THEN 0 ELSE IF d <= 5000 THEN 1 ELSE 2
  BY LevelIs
<1> QED BY <1>1, <1>2, <1>3

LEMMA CutBounds ==
  ASSUME NEW h \in 0 .. WholeHull, NEW cut \in Nat, cut <= h, cut <= 1280
  PROVE  /\ h - cut \in 0 .. WholeHull /\ h - cut <= h /\ h - (h - cut) <= 1280
         /\ h - cut # h => cut > 0
<1>1. h \in Nat /\ h <= 10000
  BY DEF WholeHull
<1>2. h - cut \in Nat /\ h - cut <= 10000
  BY <1>1
<1>3. h - cut \in 0 .. WholeHull
  BY <1>2 DEF WholeHull
<1>4. h - cut <= h /\ h - (h - cut) <= 1280 /\ (h - cut # h => cut > 0)
  BY <1>1
<1> QED BY <1>3, <1>4

-----------------------------------------------------------------------------
(* What the server has seen is not undone.                                 *)

\* A hull that was found destroyed still is, and while the calls of a break come
\* in nothing moves.
Seen ==
  /\ \A x \in Seats : told[x] = 0 => hull[x] = 0
  /\ phase = "break" => told = hull

\* The steps inside a second.
Inside == phase = "second" /\ UNCHANGED <<clock, phase, told>>

LEMMA StepsInside ==
  ASSUME CombatInv, PowerUp \/ Goes
  PROVE  Inside
<1>1. Quiet
  BY DEF CombatInv
<1>2. ASSUME NEW x, NEW feed, NEW ring, Power(x, feed, ring)
      PROVE  Inside
  BY <1>1, <1>2 DEF Power, Doing, Quiet, Inside
<1>3. ASSUME NEW x, NEW p, Shoot(x, p)
      PROVE  Inside
  BY <1>1, <1>3 DEF Shoot, Doing, Quiet, Inside
<1>4. ASSUME NEW x, SlugFlies(x)
      PROVE  Inside
  BY <1>1, <1>4 DEF SlugFlies, Quiet, Inside
<1>5. ASSUME NEW x, VolleyOver(x)
      PROVE  Inside
  BY <1>1, <1>5 DEF VolleyOver, Doing, Quiet, Inside
<1>6. ASSUME NEW x, Upkeep(x)
      PROVE  Inside
  BY <1>1, <1>6 DEF Upkeep, Doing, Quiet, Inside
<1>7. ASSUME NEW x, NEW c, Repair(x, c)
      PROVE  Inside
  BY <1>1, <1>7 DEF Repair, Quiet, Inside
<1> QED BY <1>2, <1>3, <1>4, <1>5, <1>6, <1>7 DEF PowerUp, Goes

LEMMA SeenKept ==
  ASSUME CombatInv, Seen, [Next]_vars
  PROVE  Seen'
<1>1. CASE PowerUp \/ Goes
  <2>1. Inside
    BY <1>1, StepsInside
  <2>2. UNCHANGED vars \/ Lasting
    BY <1>1, CombatStep DEF Next
  <2>3. \A x \in Seats : hull[x] = 0 => hull'[x] = 0
    BY <2>2 DEF Lasting, vars, body
  <2> QED BY <2>1, <2>3 DEF Seen, Inside
<1>2. CASE EndSecond
  BY <1>2 DEF EndSecond, Seen, body
<1>3. CASE CallsMade
  BY <1>3 DEF CallsMade, Break, Seen
<1>4. CASE UNCHANGED vars
  BY <1>4 DEF vars, body, Seen
<1> QED BY <1>1, <1>2, <1>3, <1>4 DEF Next

-----------------------------------------------------------------------------
(* Every step of the fight is a step of the duel, or none.                 *)

Hulls == [x \in Seats |-> LevelOf(told[x])]

\* dw2_match_result lets a fight go on exactly if no hull is destroyed and there
\* is time left.
LEMMA OngoingIs ==
  ASSUME NEW t \in Nat
  PROVE  Verdict(0, t) = "ongoing" <=>
           t < TimeoutTicks /\ \A x \in Seats : hull[x] # 0
<1>1. Other(0) = 1 /\ Seats = {0, 1}
  BY DEF Other, Seats
<1>2. CASE hull[0] = 0 \/ hull[1] = 0
  BY <1>1, <1>2 DEF Verdict
<1>3. CASE ~(hull[0] = 0 \/ hull[1] = 0) /\ t < TimeoutTicks
  BY <1>1, <1>3 DEF Verdict
<1>4. CASE ~(hull[0] = 0 \/ hull[1] = 0) /\ ~(t < TimeoutTicks)
  BY <1>1, <1>4 DEF Verdict
<1> QED BY <1>2, <1>3, <1>4

LEMMA SecondMaps ==
  ASSUME CombatInv, Seen, EndSecond
  PROVE  Duel!Second
<1>1. /\ phase = "second" /\ clock' = clock + 1 /\ told' = hull
      /\ UNCHANGED hull
  BY DEF EndSecond, SecondIsOver, body
<1>2. phase' = IF Verdict(0, clock') # "ongoing" THEN "over"
               ELSE IF clock' % RoundTicks = 0 THEN "break" ELSE "second"
  BY DEF EndSecond
<1>3. /\ clock \in Nat /\ clock' \in Nat /\ TimeoutTicks \in Nat
      /\ told \in [Seats -> 0 .. WholeHull] /\ hull \in [Seats -> 0 .. WholeHull]
  BY <1>1, CombatAssumption DEF CombatInv, CombatTypeOK, StageOK, HullsOK
<1>4. Hulls' = [x \in Seats |-> LevelOf(hull[x])]
  BY <1>1 DEF Hulls
<1>5. ASSUME NEW x \in Seats
      PROVE  /\ Hulls'[x] \in 0 .. 2 /\ (Hulls'[x] = 0 <=> hull[x] = 0)
             /\ (Hulls[x] = 0 => Hulls'[x] = 0)
  <2>1. LevelOf(hull[x]) \in 0 .. 2 /\ (LevelOf(hull[x]) = 0 <=> hull[x] = 0)
    BY <1>3, LevelType
  <2>2. LevelOf(told[x]) = 0 <=> told[x] = 0
    BY <1>3, LevelType
  <2> QED BY <1>4, <2>1, <2>2 DEF Hulls, Seen
<1>6. Hulls' \in Duel!HullsAfterTick(Hulls)
  BY <1>4, <1>5 DEF Duel!HullsAfterTick, Duel!Seats, Duel!Levels, Seats, Hulls
<1>7. phase' = Duel!AfterSecond(clock', Hulls')
  <2>1. Verdict(0, clock') # "ongoing" <=>
          clock' >= TimeoutTicks \/ \E x \in Seats : Hulls'[x] = 0
    BY <1>3, <1>5, OngoingIs
  <2> QED BY <1>2, <2>1 DEF Duel!AfterSecond, Duel!Seats, Seats
<1> QED BY <1>1, <1>6, <1>7 DEF Duel!Second, Hulls

\* What a backfire may take, and that only an Overcharge has one.
Mild(call, e) ==
  e.backfire \in 0 .. 1280 /\ (call # "overcharge" => e.backfire = 0)

\* dw2_round_grade: only a missed Overcharge costs hull, and never 13 %.
LEMMA BackfireBounds ==
  ASSUME NEW call, NEW grade, NEW standing
  PROVE  Mild(call, Effect(call, grade, standing))
<1> USE DEF Mild
<1> DEFINE won == WinShare(standing)
           neutral == [mult |-> 100, armor |-> 0, backfire |-> 0]
           b == Effect(call, grade, standing).backfire
<1>1. CASE call = "overcharge" /\ grade = "perfect"
  BY <1>1 DEF Effect
<1>2. CASE call = "overcharge" /\ grade = "good"
  BY <1>2 DEF Effect
<1>3. CASE call = "overcharge" /\ grade = "miss"
  <2>1. b = (BackfireHull * MissShare(standing)) \div 10
    BY <1>3 DEF Effect
  <2>2. MissShare(standing) \in {10, 14, 16}
    BY DEF MissShare
  <2>3. (BackfireHull * MissShare(standing)) \div 10 \in 0 .. 1280
    BY <2>2 DEF BackfireHull
  <2> QED BY <1>3, <2>1, <2>3
<1>4. CASE call = "brace" /\ grade = "perfect"
  BY <1>4 DEF Effect
<1>5. CASE call = "brace" /\ grade = "good"
  BY <1>5 DEF Effect
<1>6. CASE /\ ~(call = "overcharge" /\ grade \in {"perfect", "good", "miss"})
           /\ ~(call = "brace" /\ grade \in {"perfect", "good"})
  BY <1>6 DEF Effect
<1> QED BY <1>1, <1>2, <1>3, <1>4, <1>5, <1>6

LEMMA EffectBackfires ==
  ASSUME NEW x, NEW answer, NEW target
  PROVE  Mild(answer[x].call, EffectOf(x, answer, target))
BY BackfireBounds DEF EffectOf

LEMMA BreakMaps ==
  ASSUME CombatInv, Seen, NEW answer \in [Seats -> Answers], NEW target,
         Break(answer, target)
  PROVE  Duel!Break
<1> DEFINE e == [x \in Seats |-> EffectOf(x, answer, target)]
           call == [x \in Seats |-> answer[x].call]
<1>1. /\ phase = "break" /\ phase' = "second" /\ UNCHANGED clock
      /\ told' = hull' /\ hull' = [x \in Seats |-> Backfired(x, e[x])]
  BY DEF Break
<1>2. told = hull /\ hull \in [Seats -> 0 .. WholeHull]
  BY <1>1 DEF Seen, CombatInv, CombatTypeOK, HullsOK
<1>3. call \in [Seats -> {"overcharge", "brace", "none"}]
  <2>1. ASSUME NEW x \in Seats
        PROVE  answer[x].call \in {"overcharge", "brace", "none"}
    BY CombatAssumption DEF Answer, Calls
  <2> QED BY <2>1
<1>4. ASSUME NEW x \in Seats
      PROVE  /\ Hulls'[x] \in 0 .. 2
             /\ \/ Hulls'[x] = Hulls[x]
                \/ /\ call[x] = "overcharge" /\ Hulls[x] > 0
                   /\ Hulls'[x] = Hulls[x] - 1
  <2> DEFINE b == e[x].backfire
  <2>1. b \in 0 .. 1280 /\ (answer[x].call # "overcharge" => b = 0)
    <3>1. e[x] = EffectOf(x, answer, target)
      OBVIOUS
    <3> HIDE DEF e, call
    <3>2. Mild(answer[x].call, EffectOf(x, answer, target))
      BY EffectBackfires
    <3>3. Mild(answer[x].call, e[x])
      BY <3>1, <3>2
    <3> QED BY <3>3 DEF Mild
  <2>2. hull'[x] = hull[x] - AtMost(b, hull[x])
    BY <1>1, <2>1 DEF Backfired
  <2>3. hull[x] \in 0 .. WholeHull
    BY <1>2
  <2>4. Hulls[x] = LevelOf(hull[x]) /\ Hulls'[x] = LevelOf(hull'[x])
    BY <1>1, <1>2 DEF Hulls
  <2>5. answer[x].call # "overcharge" \/ call[x] = "overcharge"
    OBVIOUS
  <2> HIDE DEF e, call, b
  <2>6. PICK cut \in Nat : /\ cut <= b /\ cut <= hull[x]
                           /\ hull'[x] = hull[x] - cut
    <3>1. b \in Nat
      BY <2>1
    <3>2. hull[x] \in Nat
      <4>1. WholeHull \in Nat
        BY DEF WholeHull
      <4> QED BY <2>3, <4>1
    <3> QED BY <2>2, <3>1, <3>2, AtMostBounds
  <2>7. b \in Nat /\ cut <= 1280 /\ (cut > 0 => b # 0)
    BY <2>1, <2>6
  <2>8. /\ hull'[x] \in 0 .. WholeHull /\ hull'[x] <= hull[x]
        /\ hull[x] - hull'[x] <= 1280
        /\ hull'[x] # hull[x] => cut > 0
    BY <2>3, <2>6, <2>7, CutBounds
  <2>9. /\ LevelOf(hull'[x]) \in 0 .. 2
        /\ \/ LevelOf(hull'[x]) = LevelOf(hull[x])
           \/ /\ hull'[x] # hull[x] /\ LevelOf(hull[x]) > 0
              /\ LevelOf(hull'[x]) = LevelOf(hull[x]) - 1
    BY <2>3, <2>8, OneLevelDown
  <2>10. hull'[x] # hull[x] => call[x] = "overcharge"
    BY <2>1, <2>5, <2>7, <2>8
  <2> QED BY <2>4, <2>9, <2>10
<1> HIDE DEF call
<1>5. Hulls' \in Duel!HullsAfterBreak(Hulls, call)
  BY <1>4 DEF Duel!HullsAfterBreak, Duel!Seats, Duel!Levels, Seats, Hulls
<1> QED BY <1>1, <1>3, <1>5 DEF Duel!Break, Duel!Seats, Seats, Hulls

LEMMA StepMaps ==
  ASSUME CombatInv, Seen, [Next]_vars
  PROVE  [Duel!Next]_(Duel!vars)
<1>1. CASE PowerUp \/ Goes
  BY <1>1, StepsInside DEF Inside, Duel!vars
<1>2. CASE EndSecond
  BY <1>2, SecondMaps DEF Duel!Next
<1>3. CASE CallsMade
  BY <1>3, BreakMaps DEF CallsMade, Duel!Next
<1>4. CASE UNCHANGED vars
  BY <1>4 DEF vars, Duel!vars
<1> QED BY <1>1, <1>2, <1>3, <1>4 DEF Next

LEMMA InitMaps ==
  ASSUME Init
  PROVE  Duel!Init /\ Seen
<1>1. /\ clock = 0 /\ phase = "second" /\ told = hull
      /\ hull = [x \in Seats |-> WholeHull]
  BY DEF Init, StartCombat
<1>2. LevelOf(WholeHull) = 2
  BY DEF LevelOf, WholeHull
<1>3. [x \in Seats |-> LevelOf(told[x])] = [x \in Seats |-> 2]
  BY <1>1, <1>2
<1> QED BY <1>1, <1>3 DEF Duel!Init, Duel!Seats, Seats, Seen

\* What the engine does to two ships, in any matchup, is a duel as the match
\* server takes it for one: it ends after the second that destroys a ship or uses
\* up the time and never earlier, no wreck is ever seen whole again, and a break
\* costs at most one level of hull, and only for an Overcharge.
THEOREM FightIsADuel == Spec => DuelImplemented
<1>1. Init => Duel!Init /\ Seen
  BY InitMaps
<1>2. CombatInv /\ Seen /\ [Next]_vars => Seen' /\ [Duel!Next]_(Duel!vars)
  BY SeenKept, StepMaps
<1>3. Spec => []Seen
  BY <1>1, <1>2, CombatInvariant, PTL DEF Spec
<1> QED BY <1>1, <1>2, <1>3, CombatInvariant, PTL DEF Spec, DuelImplemented, Duel!Spec

-----------------------------------------------------------------------------
(* Both seats are alike.  The two fights interleave what they do to their  *)
(* ships differently, but between them only what happens to one ship, in   *)
(* the order in which it does, decides what becomes of it: its thread.     *)
(* What is still ahead of a ship in a second is therefore kept as a record *)
(* of everything it depends on, a bout; Onward takes a bout one step       *)
(* further; every step of a second is that step for one ship and nothing   *)
(* for the other; and a bout has one end, whoever reaches it first.        *)
(*                                                                         *)
(* The twin is another instance of the same module: what is proved of the  *)
(* fight's definitions is proved again of the twin's.                      *)

(* One ship at a time: what a step of a second does to it.                 *)

\* The readers of the engine, of a record v of one ship: there it has seat 0.
On(v) == INSTANCE Dw2Combat WITH
  ship   <- [z \in Seats |-> v.ship],   dead   <- [z \in Seats |-> v.dead],
  hp     <- [z \in Seats |-> v.hp],     shield <- [z \in Seats |-> v.shield],
  tally  <- [z \in Seats |-> v.tally],  mult   <- [z \in Seats |-> v.mult],
  charge <- [z \in Seats |-> v.charge], pin    <- [z \in Seats |-> v.pin],
  loop   <- [z \in Seats |-> v.loop],
  hull   <- [z \in Seats |-> IF z = 0 THEN v.hull ELSE v.foe],
  slug   <- v.slug, clock <- 0, phase <- "second", agenda <- <<>>, todo <- {},
  shots  <- {}, damage <- {}, told <- {}

LEMMA OnConstants ==
  ASSUME NEW v
  PROVE  /\ On(v)!Cells = Cells /\ On(v)!Seats = Seats /\ On(v)!NoSlug = NoSlug
         /\ On(v)!NoLoop = NoLoop /\ On(v)!MeltAge = MeltAge
         /\ \A c : On(v)!Touching(c) = Touching(c)
         /\ \A S : On(v)!Foremost(S) = Foremost(S) /\ On(v)!Deepest(S) = Deepest(S)
         /\ \A s : On(v)!Guns(s) = Guns(s) /\ On(v)!Evade(s) = Evade(s)
         /\ \A s, p : On(v)!Stats(s, p) = Stats(s, p) /\ On(v)!GunCell(s, p) = GunCell(s, p)
         /\ \A cells : On(v)!Extent(cells) = Extent(cells)
         /\ \A n, most : On(v)!AtMost(n, most) = AtMost(n, most)
         /\ \A f : On(v)!OverSides(f) = OverSides(f)
         /\ On(v)!Sides = Sides
         /\ \A c, side : On(v)!Beside(c, side) = Beside(c, side)
<1>1. On(v)!Cells = Cells /\ On(v)!Seats = Seats /\ On(v)!NoSlug = NoSlug
      /\ On(v)!NoLoop = NoLoop /\ On(v)!MeltAge = MeltAge /\ On(v)!Sides = Sides
  BY DEF Cells, On!Cells, Seats, On!Seats, NoSlug, On!NoSlug, NoLoop, On!NoLoop,
         MeltAge, On!MeltAge, Sides, On!Sides
<1>2. \A c, side : On(v)!Beside(c, side) = Beside(c, side)
  BY DEF Beside, On!Beside
<1>3. \A c : On(v)!Touching(c) = Touching(c)
  BY <1>1, <1>2 DEF Touching, On!Touching
<1>4. \A S : On(v)!Foremost(S) = Foremost(S) /\ On(v)!Deepest(S) = Deepest(S)
  BY DEF Foremost, On!Foremost, Deepest, On!Deepest
<1>5. \A s : On(v)!Guns(s) = Guns(s)
  BY DEF Guns, On!Guns, WeaponStats, On!WeaponStats
<1>6. \A s, p : On(v)!Stats(s, p) = Stats(s, p) /\ On(v)!GunCell(s, p) = GunCell(s, p)
  BY DEF Stats, On!Stats, GunCell, On!GunCell, WeaponStats, On!WeaponStats
<1>7. \A n, most : On(v)!AtMost(n, most) = AtMost(n, most)
  BY DEF AtMost, On!AtMost
<1>8. \A s : On(v)!Evade(s) = Evade(s)
  BY <1>7 DEF Evade, On!Evade, EvadeMax, On!EvadeMax, EvadePerTon, On!EvadePerTon
<1>9. \A cells : On(v)!Extent(cells) = Extent(cells)
  BY DEF Extent, On!Extent
<1>10. \A f : On(v)!OverSides(f) = OverSides(f)
  BY DEF OverSides, On!OverSides
<1> QED BY <1>1, <1>2, <1>3, <1>4, <1>5, <1>6, <1>7, <1>8, <1>9, <1>10

LEMMA TwinConstants ==
  /\ Twin!Cells = Cells /\ Twin!Seats = Seats /\ Twin!NoSlug = NoSlug
  /\ Twin!NoLoop = NoLoop /\ Twin!MeltAge = MeltAge
  /\ \A c : Twin!Touching(c) = Touching(c)
  /\ \A S : Twin!Foremost(S) = Foremost(S) /\ Twin!Deepest(S) = Deepest(S)
  /\ \A s : Twin!Guns(s) = Guns(s) /\ Twin!Evade(s) = Evade(s)
  /\ \A s, p : Twin!Stats(s, p) = Stats(s, p) /\ Twin!GunCell(s, p) = GunCell(s, p)
  /\ \A cells : Twin!Extent(cells) = Extent(cells)
  /\ \A n, most : Twin!AtMost(n, most) = AtMost(n, most)
  /\ \A f : Twin!OverSides(f) = OverSides(f)
  /\ Twin!Sides = Sides
  /\ \A c, side : Twin!Beside(c, side) = Beside(c, side)
<1>1. Twin!Cells = Cells /\ Twin!Seats = Seats /\ Twin!NoSlug = NoSlug
      /\ Twin!NoLoop = NoLoop /\ Twin!MeltAge = MeltAge /\ Twin!Sides = Sides
  BY DEF Cells, Twin!Cells, Seats, Twin!Seats, NoSlug, Twin!NoSlug, NoLoop, Twin!NoLoop,
         MeltAge, Twin!MeltAge, Sides, Twin!Sides
<1>2. \A c, side : Twin!Beside(c, side) = Beside(c, side)
  BY DEF Beside, Twin!Beside
<1>3. \A c : Twin!Touching(c) = Touching(c)
  BY <1>1, <1>2 DEF Touching, Twin!Touching
<1>4. \A S : Twin!Foremost(S) = Foremost(S) /\ Twin!Deepest(S) = Deepest(S)
  BY DEF Foremost, Twin!Foremost, Deepest, Twin!Deepest
<1>5. \A s : Twin!Guns(s) = Guns(s)
  BY DEF Guns, Twin!Guns, WeaponStats, Twin!WeaponStats
<1>6. \A s, p : Twin!Stats(s, p) = Stats(s, p) /\ Twin!GunCell(s, p) = GunCell(s, p)
  BY DEF Stats, Twin!Stats, GunCell, Twin!GunCell, WeaponStats, Twin!WeaponStats
<1>7. \A n, most : Twin!AtMost(n, most) = AtMost(n, most)
  BY DEF AtMost, Twin!AtMost
<1>8. \A s : Twin!Evade(s) = Evade(s)
  BY <1>7 DEF Evade, Twin!Evade, EvadeMax, Twin!EvadeMax, EvadePerTon, Twin!EvadePerTon
<1>9. \A cells : Twin!Extent(cells) = Extent(cells)
  BY DEF Extent, Twin!Extent
<1>10. \A f : Twin!OverSides(f) = OverSides(f)
  BY DEF OverSides, Twin!OverSides
<1> QED BY <1>1, <1>2, <1>3, <1>4, <1>5, <1>6, <1>7, <1>8, <1>9, <1>10

\* What stands, and what a hit does to it.
LEMMA HitsAre ==
  ASSUME NEW y \in Seats, NEW v, v.ship = ship[y], v.dead = dead[y], v.hp = hp[y]
  PROVE  /\ On(v)!Alive(0) = Alive(y)
         /\ \A lane : On(v)!InLane(0, lane) = InLane(y, lane)
         /\ \A c, kind, raw : On(v)!AfterHit(0, c, kind, raw) = AfterHit(y, c, kind, raw)
         /\ \A dose, kind : On(v)!Fallen(0, dose, kind) = Fallen(y, dose, kind)
         /\ \A c, raw : On(v)!Burst(0, c, raw) = Burst(y, c, raw)
<1>1. On(v)!Alive(0) = Alive(y)
  BY DEF Alive, On!Alive, Seats
<1>2. \A lane : On(v)!InLane(0, lane) = InLane(y, lane)
  BY <1>1 DEF InLane, On!InLane
<1>3. \A c, kind, raw : On(v)!AfterHit(0, c, kind, raw) = AfterHit(y, c, kind, raw)
  BY DEF AfterHit, On!AfterHit, Seats
<1>4. \A dose, kind : On(v)!Fallen(0, dose, kind) = Fallen(y, dose, kind)
  BY <1>3 DEF Fallen, On!Fallen
<1>5. \A c, raw : On(v)!Burst(0, c, raw) = Burst(y, c, raw)
  <2>1. \A c : On(v)!Touching(c) = Touching(c)
    BY OnConstants
  <2> QED BY <1>1, <2>1 DEF Burst, On!Burst, Splash, On!Splash
<1> QED BY <1>1, <1>2, <1>3, <1>4, <1>5

LEMMA DodgesAre ==
  ASSUME NEW y \in Seats, NEW v, v.ship = ship[y], v.tally = tally[y]
  PROVE  /\ \A kind : On(v)!Dodged(0, kind) = Dodged(y, kind)
         /\ \A kind : On(v)!TallyAfter(0, kind) = TallyAfter(y, kind)
<1>1. \A s : On(v)!Evade(s) = Evade(s)
  BY OnConstants
<1>2. \A kind : On(v)!Dodgeable(0, kind) = Dodgeable(y, kind)
  BY <1>1 DEF Dodgeable, On!Dodgeable, Seats
<1>3. \A kind : On(v)!Dodged(0, kind) = Dodged(y, kind)
  BY <1>1, <1>2 DEF Dodged, On!Dodged, Seats
<1>4. \A kind : On(v)!TallyAfter(0, kind) = TallyAfter(y, kind)
  BY <1>1, <1>2, <1>3 DEF TallyAfter, On!TallyAfter, Seats
<1> QED BY <1>3, <1>4

LEMMA HullHitIs ==
  ASSUME NEW y \in Seats, NEW v, v.hull = hull[y], NEW raw
  PROVE  On(v)!HullHit(0, raw) = HullHit(y, raw)
BY OnConstants DEF HullHit, On!HullHit, HullFactor, On!HullFactor, Seats

LEMMA CarryIs ==
  ASSUME NEW y \in Seats, NEW v, v.ship = ship[y], v.hp = hp[y], v.slug = slug, NEW c
  PROVE  On(v)!Carry(0, c) = Carry(y, c)
BY DEF Carry, On!Carry, RailCarry, On!RailCarry, Seats

\* Heat and growth.
LEMMA UpkeepIs ==
  ASSUME NEW y \in Seats, NEW v, v.ship = ship[y], v.dead = dead[y], v.hp = hp[y]
  PROVE  On(v)!Standing(0) = Standing(y) /\ On(v)!Grown(0) = Grown(y)
<1>1. On(v)!Alive(0) = Alive(y)
  BY HitsAre
<1>2. /\ On(v)!Cells = Cells /\ On(v)!Sides = Sides
      /\ \A c : On(v)!Touching(c) = Touching(c)
      /\ \A c, side : On(v)!Beside(c, side) = Beside(c, side)
      /\ \A f : On(v)!OverSides(f) = OverSides(f)
      /\ \A n, most : On(v)!AtMost(n, most) = AtMost(n, most)
  BY OnConstants
<1>3. \A S, role : On(v)!InRole(0, S, role) = InRole(y, S, role)
  BY DEF InRole, On!InRole, Seats
<1>4. \A c : On(v)!Cooled(0, c) = Cooled(y, c)
  BY <1>1, <1>2, <1>3 DEF Cooled, On!Cooled
<1>5. \A c : On(v)!HeatAt(0, c) = HeatAt(y, c)
  BY <1>1, <1>2 DEF HeatAt, On!HeatAt, Seats
<1>6. \A c : On(v)!Heat(0, c) = Heat(y, c)
  BY <1>1, <1>4, <1>5 DEF Heat, On!Heat
<1>7. On(v)!Heated(0) = Heated(y)
  BY <1>2, <1>6 DEF Heated, On!Heated, Seats
<1>8. On(v)!Standing(0) = Standing(y)
  BY <1>1, <1>7 DEF Standing, On!Standing
<1>9. \A S, c : On(v)!GrowthAt(0, S, c) = GrowthAt(y, S, c)
  BY <1>2, <1>3 DEF GrowthAt, On!GrowthAt, GrowOwn, On!GrowOwn, GrowOther, On!GrowOther, Seats
<1>10. On(v)!Grown(0) = Grown(y)
  BY <1>2, <1>7, <1>8, <1>9 DEF Grown, On!Grown, Seats
<1> QED BY <1>8, <1>10

\* Menders and Aegis Emitters.
LEMMA MendersAre ==
  ASSUME NEW y \in Seats, NEW v, v.ship = ship[y], v.dead = dead[y], v.hp = hp[y],
         v.hull = hull[y], v.pin = pin[y]
  PROVE  On(v)!Menders(0) = Menders(y)
BY UpkeepIs DEF Menders, On!Menders, Seats

LEMMA BoostIs ==
  ASSUME NEW y \in Seats, NEW v, v.ship = ship[y], v.dead = dead[y], v.hp = hp[y]
  PROVE  \A p, family : On(v)!Boost(0, p, family) = Boost(y, p, family)
<1>1. \A p : On(v)!Around(0, p) = Around(y, p)
  <2>1. On(v)!Alive(0) = Alive(y)
    BY HitsAre
  <2>2. /\ \A c : On(v)!Touching(c) = Touching(c)
        /\ \A cells : On(v)!Extent(cells) = Extent(cells)
    BY OnConstants
  <2> QED BY <2>1, <2>2 DEF Around, On!Around, Seats
<1>2. ASSUME NEW p, NEW family
      PROVE  On(v)!Boost(0, p, family) = Boost(y, p, family)
  <2> DEFINE own == [z \in Seats |-> v.ship][0]
             met == {own.part[c].boost : c \in
                       {d \in On(v)!Around(0, p) : own.part[d].family = family}} \cup {100}
             all == {ship[y].part[c].boost : c \in
                       {d \in Around(y, p) : ship[y].part[d].family = family}} \cup {100}
  <2>1. Boost(y, p, family) = CHOOSE b \in all : \A g \in all : g <= b
    BY DEF Boost
  <2>2. On(v)!Boost(0, p, family) = CHOOSE b \in met : \A g \in met : g <= b
    BY DEF On!Boost
  <2>3. met = all
    <3>1. own = ship[y]
      BY DEF Seats
    <3> HIDE DEF own
    <3> QED BY <1>1, <3>1
  <2> HIDE DEF met, all
  <2> QED BY <2>1, <2>2, <2>3
<1> QED BY <1>2

LEMMA RepairsAre ==
  ASSUME NEW y \in Seats, NEW v, v.ship = ship[y], v.dead = dead[y], v.hp = hp[y],
         v.hull = hull[y], v.pin = pin[y]
  PROVE  /\ \A c : On(v)!Mended(0, c) = Mended(y, c)
         /\ \A c : On(v)!Damaged(0, c) = Damaged(y, c)
         /\ \A S : On(v)!Weakest(0, S) = Weakest(y, S)
         /\ \A c, d : On(v)!RepairedHp(0, c, d) = RepairedHp(y, c, d)
<1>1. \A n, most : On(v)!AtMost(n, most) = AtMost(n, most)
  BY OnConstants
<1>2. \A c : On(v)!Mended(0, c) = Mended(y, c)
  BY <1>1 DEF Mended, On!Mended, MenderHeal, On!MenderHeal, WholeHull, On!WholeHull, Seats
<1>3. \A c : On(v)!Damaged(0, c) = Damaged(y, c)
  BY HitsAre DEF Damaged, On!Damaged, Seats
<1>4. \A S : On(v)!Weakest(0, S) = Weakest(y, S)
  BY DEF Weakest, On!Weakest, Seats
<1>5. \A c : On(v)!AegisHeals(0, c) = AegisHeals(y, c)
  BY BoostIs DEF AegisHeals, On!AegisHeals, AegisRepair, On!AegisRepair, Seats
<1>6. \A c, d : On(v)!RepairedHp(0, c, d) = RepairedHp(y, c, d)
  BY <1>1, <1>5 DEF RepairedHp, On!RepairedHp, Seats
<1> QED BY <1>2, <1>3, <1>4, <1>6

\* In the twin: what stands, and what a hit does to it.
LEMMA TwinHitsAre ==
  ASSUME NEW y \in Seats, NEW v, v.ship = twinShip[y], v.dead = twinDead[y], v.hp = twinHp[y]
  PROVE  /\ On(v)!Alive(0) = Twin!Alive(y)
         /\ \A lane : On(v)!InLane(0, lane) = Twin!InLane(y, lane)
         /\ \A c, kind, raw : On(v)!AfterHit(0, c, kind, raw) = Twin!AfterHit(y, c, kind, raw)
         /\ \A dose, kind : On(v)!Fallen(0, dose, kind) = Twin!Fallen(y, dose, kind)
         /\ \A c, raw : On(v)!Burst(0, c, raw) = Twin!Burst(y, c, raw)
<1>1. On(v)!Alive(0) = Twin!Alive(y)
  BY DEF Twin!Alive, On!Alive, Seats
<1>2. \A lane : On(v)!InLane(0, lane) = Twin!InLane(y, lane)
  BY <1>1 DEF Twin!InLane, On!InLane
<1>3. \A c, kind, raw : On(v)!AfterHit(0, c, kind, raw) = Twin!AfterHit(y, c, kind, raw)
  BY DEF Twin!AfterHit, On!AfterHit, Seats
<1>4. \A dose, kind : On(v)!Fallen(0, dose, kind) = Twin!Fallen(y, dose, kind)
  BY <1>3 DEF Twin!Fallen, On!Fallen
<1>5. \A c, raw : On(v)!Burst(0, c, raw) = Twin!Burst(y, c, raw)
  <2>1. \A c : On(v)!Touching(c) = Twin!Touching(c)
    BY OnConstants, TwinConstants
  <2> QED BY <1>1, <2>1 DEF Twin!Burst, On!Burst, Twin!Splash, On!Splash
<1> QED BY <1>1, <1>2, <1>3, <1>4, <1>5

LEMMA TwinDodgesAre ==
  ASSUME NEW y \in Seats, NEW v, v.ship = twinShip[y], v.tally = twinTally[y]
  PROVE  /\ \A kind : On(v)!Dodged(0, kind) = Twin!Dodged(y, kind)
         /\ \A kind : On(v)!TallyAfter(0, kind) = Twin!TallyAfter(y, kind)
<1>1. \A s : On(v)!Evade(s) = Twin!Evade(s)
  BY OnConstants, TwinConstants
<1>2. \A kind : On(v)!Dodgeable(0, kind) = Twin!Dodgeable(y, kind)
  BY <1>1 DEF Twin!Dodgeable, On!Dodgeable, Seats
<1>3. \A kind : On(v)!Dodged(0, kind) = Twin!Dodged(y, kind)
  BY <1>1, <1>2 DEF Twin!Dodged, On!Dodged, Seats
<1>4. \A kind : On(v)!TallyAfter(0, kind) = Twin!TallyAfter(y, kind)
  BY <1>1, <1>2, <1>3 DEF Twin!TallyAfter, On!TallyAfter, Seats
<1> QED BY <1>3, <1>4

LEMMA TwinHullHitIs ==
  ASSUME NEW y \in Seats, NEW v, v.hull = twinHull[y], NEW raw
  PROVE  On(v)!HullHit(0, raw) = Twin!HullHit(y, raw)
BY OnConstants, TwinConstants DEF Twin!HullHit, On!HullHit, Twin!HullFactor, On!HullFactor, Seats

LEMMA TwinCarryIs ==
  ASSUME NEW y \in Seats, NEW v, v.ship = twinShip[y], v.hp = twinHp[y], v.slug = twinSlug, NEW c
  PROVE  On(v)!Carry(0, c) = Twin!Carry(y, c)
BY DEF Twin!Carry, On!Carry, Twin!RailCarry, On!RailCarry, Seats

\* In the twin: heat and growth.
LEMMA TwinUpkeepIs ==
  ASSUME NEW y \in Seats, NEW v, v.ship = twinShip[y], v.dead = twinDead[y], v.hp = twinHp[y]
  PROVE  On(v)!Standing(0) = Twin!Standing(y) /\ On(v)!Grown(0) = Twin!Grown(y)
<1>1. On(v)!Alive(0) = Twin!Alive(y)
  BY TwinHitsAre
<1>2. /\ On(v)!Cells = Twin!Cells /\ On(v)!Sides = Twin!Sides
      /\ \A c : On(v)!Touching(c) = Twin!Touching(c)
      /\ \A c, side : On(v)!Beside(c, side) = Twin!Beside(c, side)
      /\ \A f : On(v)!OverSides(f) = Twin!OverSides(f)
      /\ \A n, most : On(v)!AtMost(n, most) = Twin!AtMost(n, most)
  BY OnConstants, TwinConstants
<1>3. \A S, role : On(v)!InRole(0, S, role) = Twin!InRole(y, S, role)
  BY DEF Twin!InRole, On!InRole, Seats
<1>4. \A c : On(v)!Cooled(0, c) = Twin!Cooled(y, c)
  BY <1>1, <1>2, <1>3 DEF Twin!Cooled, On!Cooled
<1>5. \A c : On(v)!HeatAt(0, c) = Twin!HeatAt(y, c)
  BY <1>1, <1>2 DEF Twin!HeatAt, On!HeatAt, Seats
<1>6. \A c : On(v)!Heat(0, c) = Twin!Heat(y, c)
  BY <1>1, <1>4, <1>5 DEF Twin!Heat, On!Heat
<1>7. On(v)!Heated(0) = Twin!Heated(y)
  BY <1>2, <1>6 DEF Twin!Heated, On!Heated, Seats
<1>8. On(v)!Standing(0) = Twin!Standing(y)
  BY <1>1, <1>7 DEF Twin!Standing, On!Standing
<1>9. \A S, c : On(v)!GrowthAt(0, S, c) = Twin!GrowthAt(y, S, c)
  BY <1>2, <1>3 DEF Twin!GrowthAt, On!GrowthAt, Twin!GrowOwn, On!GrowOwn, Twin!GrowOther,
         On!GrowOther, Seats
<1>10. On(v)!Grown(0) = Twin!Grown(y)
  BY <1>2, <1>7, <1>8, <1>9 DEF Twin!Grown, On!Grown, Seats
<1> QED BY <1>8, <1>10

\* In the twin: menders and Aegis Emitters.
LEMMA TwinMendersAre ==
  ASSUME NEW y \in Seats, NEW v, v.ship = twinShip[y], v.dead = twinDead[y], v.hp = twinHp[y],
         v.hull = twinHull[y], v.pin = twinPin[y]
  PROVE  On(v)!Menders(0) = Twin!Menders(y)
BY TwinUpkeepIs DEF Twin!Menders, On!Menders, Seats

LEMMA TwinBoostIs ==
  ASSUME NEW y \in Seats, NEW v, v.ship = twinShip[y], v.dead = twinDead[y], v.hp = twinHp[y]
  PROVE  \A p, family : On(v)!Boost(0, p, family) = Twin!Boost(y, p, family)
<1>1. \A p : On(v)!Around(0, p) = Twin!Around(y, p)
  <2>1. On(v)!Alive(0) = Twin!Alive(y)
    BY TwinHitsAre
  <2>2. /\ \A c : On(v)!Touching(c) = Twin!Touching(c)
        /\ \A cells : On(v)!Extent(cells) = Twin!Extent(cells)
    BY OnConstants, TwinConstants
  <2> QED BY <2>1, <2>2 DEF Twin!Around, On!Around, Seats
<1>2. ASSUME NEW p, NEW family
      PROVE  On(v)!Boost(0, p, family) = Twin!Boost(y, p, family)
  <2> DEFINE own == [z \in Seats |-> v.ship][0]
             met == {own.part[c].boost : c \in
                       {d \in On(v)!Around(0, p) : own.part[d].family = family}} \cup {100}
             all == {twinShip[y].part[c].boost : c \in
                       {d \in Twin!Around(y, p) : twinShip[y].part[d].family = family}} \cup {100}
  <2>1. Twin!Boost(y, p, family) = CHOOSE b \in all : \A g \in all : g <= b
    BY DEF Twin!Boost
  <2>2. On(v)!Boost(0, p, family) = CHOOSE b \in met : \A g \in met : g <= b
    BY DEF On!Boost
  <2>3. met = all
    <3>1. own = twinShip[y]
      BY DEF Seats
    <3> HIDE DEF own
    <3> QED BY <1>1, <3>1
  <2> HIDE DEF met, all
  <2> QED BY <2>1, <2>2, <2>3
<1> QED BY <1>2

LEMMA TwinRepairsAre ==
  ASSUME NEW y \in Seats, NEW v, v.ship = twinShip[y], v.dead = twinDead[y], v.hp = twinHp[y],
         v.hull = twinHull[y], v.pin = twinPin[y]
  PROVE  /\ \A c : On(v)!Mended(0, c) = Twin!Mended(y, c)
         /\ \A c : On(v)!Damaged(0, c) = Twin!Damaged(y, c)
         /\ \A S : On(v)!Weakest(0, S) = Twin!Weakest(y, S)
         /\ \A c, d : On(v)!RepairedHp(0, c, d) = Twin!RepairedHp(y, c, d)
<1>1. \A n, most : On(v)!AtMost(n, most) = Twin!AtMost(n, most)
  BY OnConstants, TwinConstants
<1>2. \A c : On(v)!Mended(0, c) = Twin!Mended(y, c)
  BY <1>1 DEF Twin!Mended, On!Mended, Twin!MenderHeal, On!MenderHeal, Twin!WholeHull,
         On!WholeHull, Seats
<1>3. \A c : On(v)!Damaged(0, c) = Twin!Damaged(y, c)
  BY TwinHitsAre DEF Twin!Damaged, On!Damaged, Seats
<1>4. \A S : On(v)!Weakest(0, S) = Twin!Weakest(y, S)
  BY DEF Twin!Weakest, On!Weakest, Seats
<1>5. \A c : On(v)!AegisHeals(0, c) = Twin!AegisHeals(y, c)
  BY TwinBoostIs DEF Twin!AegisHeals, On!AegisHeals, Twin!AegisRepair, On!AegisRepair, Seats
<1>6. \A c, d : On(v)!RepairedHp(0, c, d) = Twin!RepairedHp(y, c, d)
  BY <1>1, <1>5 DEF Twin!RepairedHp, On!RepairedHp, Seats
<1> QED BY <1>2, <1>3, <1>4, <1>6

-----------------------------------------------------------------------------
(* The calls of a second.                                                  *)

Rank == [power |-> 1, resolve |-> 2, upkeep |-> 3]
CallSet == {"power", "resolve", "upkeep"} \X Seats

\* The calls of an agenda.
Pending(a) == {a[i] : i \in DOMAIN a}

\* Each call once: power before volleys, and volleys before upkeep.
Orderly(a) ==
  /\ a \in Seq(CallSet)
  /\ \A i, j \in 1 .. Len(a) : i < j => a[i] # a[j] /\ Rank[a[i][1]] <= Rank[a[j][1]]

LEMMA NextCall ==
  ASSUME NEW a, Orderly(a), a # <<>>
  PROVE  /\ Orderly(Tail(a)) /\ Pending(Tail(a)) = Pending(a) \ {Head(a)}
         /\ Head(a) \in Pending(a)
         /\ \A call \in Pending(a) : Rank[Head(a)[1]] <= Rank[call[1]]
<1> DEFINE n == Len(a)
           rest == Tail(a)
<1>1. n \in Nat \ {0} /\ a \in [1 .. n -> CallSet] /\ Head(a) = a[1] /\ a \in Seq(CallSet)
  BY DEF Orderly
<1>2. rest \in Seq(CallSet) /\ Len(rest) = n - 1 /\ \A i \in 1 .. n - 1 : rest[i] = a[i + 1]
  BY <1>1
<1>3. DOMAIN rest = 1 .. n - 1
  BY <1>2
<1>4. \A i, j \in 1 .. n : i < j => a[i] # a[j] /\ Rank[a[i][1]] <= Rank[a[j][1]]
  BY DEF Orderly
<1> HIDE DEF n, rest
<1>5. \A i \in 1 .. n - 1 : i + 1 \in 1 .. n
  BY <1>1
<1>6. Orderly(rest)
  <2>1. ASSUME NEW i \in 1 .. n - 1, NEW j \in 1 .. n - 1, i < j
        PROVE  rest[i] # rest[j] /\ Rank[rest[i][1]] <= Rank[rest[j][1]]
    <3>1. i + 1 < j + 1
      BY <2>1
    <3> QED BY <1>2, <1>4, <1>5, <3>1
  <2> QED BY <1>2, <2>1 DEF Orderly
<1>7. Pending(rest) = Pending(a) \ {Head(a)}
  <2>1. ASSUME NEW call \in Pending(rest)
        PROVE  call \in Pending(a) \ {Head(a)}
    <3>1. PICK i \in 1 .. n - 1 : call = rest[i]
      BY <1>3 DEF Pending
    <3>2. i + 1 \in 1 .. n /\ 1 \in 1 .. n /\ 1 < i + 1
      BY <1>1, <1>5
    <3>3. call = a[i + 1]
      BY <1>2, <3>1
    <3> QED BY <1>1, <1>4, <3>2, <3>3 DEF Pending
  <2>2. ASSUME NEW call \in Pending(a) \ {Head(a)}
        PROVE  call \in Pending(rest)
    <3>1. PICK i \in 1 .. n : call = a[i]
      BY <1>1 DEF Pending
    <3>2. i # 1
      BY <1>1, <3>1
    <3>3. i - 1 \in 1 .. n - 1 /\ (i - 1) + 1 = i
      BY <1>1, <3>2
    <3>4. call = rest[i - 1]
      BY <1>2, <3>1, <3>3
    <3> QED BY <1>3, <3>3, <3>4 DEF Pending
  <2> QED BY <2>1, <2>2
<1>8. \A call \in Pending(a) : Rank[Head(a)[1]] <= Rank[call[1]]
  <2> SUFFICES ASSUME NEW call \in Pending(a)
               PROVE  Rank[Head(a)[1]] <= Rank[call[1]]
    OBVIOUS
  <2>1. PICK i \in 1 .. n : call = a[i]
    BY <1>1 DEF Pending
  <2>2. a[1] \in CallSet /\ 1 \in 1 .. n
    BY <1>1
  <2>3. Rank[a[1][1]] <= Rank[a[1][1]]
    BY <2>2 DEF Rank, CallSet
  <2> QED BY <1>1, <1>4, <2>1, <2>2, <2>3
<1>9. Head(a) \in Pending(a)
  BY <1>1 DEF Pending
<1> QED BY <1>6, <1>7, <1>8, <1>9 DEF rest

LEMMA NoCalls ==
  /\ Orderly(<<>>) /\ Pending(<<>>) = {}
  /\ \A a : Orderly(a) /\ Pending(a) = {} => a = <<>>
<1>1. Orderly(<<>>) /\ Pending(<<>>) = {}
  BY DEF Orderly, Pending
<1>2. ASSUME NEW a, Orderly(a), Pending(a) = {}
      PROVE  a = <<>>
  BY <1>2, NextCall
<1> QED BY <1>1, <1>2

LEMMA AllCalls ==
  ASSUME NEW t \in Nat
  PROVE  Orderly(CallsOf(t)) /\ Pending(CallsOf(t)) = CallSet
<1> DEFINE first == t % 2
           a == CallsOf(t)
<1>1. first \in {0, 1} /\ Other(first) = 1 - first
  BY DEF Other
<1>2. a = <<<<"power", 0>>, <<"power", 1>>,
             <<"resolve", first>>, <<"resolve", Other(first)>>,
             <<"upkeep", 0>>, <<"upkeep", 1>>>>
  BY DEF CallsOf
<1> HIDE DEF first, a
<1>3. a \in Seq(CallSet)
  BY AgendaType DEF CallSet, a
<1>4. Len(a) = 6 /\ DOMAIN a = 1 .. 6
  BY <1>2
<1>5. CASE first = 0
  <2>1. a = <<<<"power", 0>>, <<"power", 1>>, <<"resolve", 0>>, <<"resolve", 1>>,
              <<"upkeep", 0>>, <<"upkeep", 1>>>>
    BY <1>1, <1>2, <1>5
  <2>2. \A i, j \in 1 .. 6 : i < j => a[i] # a[j] /\ Rank[a[i][1]] <= Rank[a[j][1]]
    BY <2>1 DEF Rank
  <2>3. Pending(a) = CallSet
    BY <1>4, <2>1 DEF Pending, CallSet, Seats
  <2> QED BY <1>3, <1>4, <2>2, <2>3 DEF Orderly, a
<1>6. CASE first = 1
  <2>1. a = <<<<"power", 0>>, <<"power", 1>>, <<"resolve", 1>>, <<"resolve", 0>>,
              <<"upkeep", 0>>, <<"upkeep", 1>>>>
    BY <1>1, <1>2, <1>6
  <2>2. \A i, j \in 1 .. 6 : i < j => a[i] # a[j] /\ Rank[a[i][1]] <= Rank[a[j][1]]
    BY <2>1 DEF Rank
  <2>3. Pending(a) = CallSet
    BY <1>4, <2>1 DEF Pending, CallSet, Seats
  <2> QED BY <1>3, <1>4, <2>2, <2>3 DEF Orderly, a
<1> QED BY <1>1, <1>5, <1>6

-----------------------------------------------------------------------------
(* What happens to one ship in a second.                                   *)

OfSeats(f) == f = [x \in Seats |-> f[x]]

One(S)   == CHOOSE c \in S : TRUE
First(S) == CHOOSE c \in S : \A d \in S : Precedes(c, d)

\* A ship, all that may still happen to it in a second, and what that depends on.
Bout(ship_, gun_, damage_, pin_, shots_, shield_, tally_, hull_, hp_, dead_, slug_,
     volley_, upkeep_, todo_) ==
  [ship |-> ship_, gun |-> gun_, damage |-> damage_, pin |-> pin_, shots |-> shots_,
   shield |-> shield_, tally |-> tally_, hull |-> hull_, hp |-> hp_, dead |-> dead_,
   slug |-> slug_, volley |-> volley_, upkeep |-> upkeep_, todo |-> todo_]

\* A bout after a step of the volley.
After(v, shots_, shield_, tally_, hull_, hp_, dead_, slug_) ==
  Bout(v.ship, v.gun, v.damage, v.pin, shots_, shield_, tally_, hull_, hp_, dead_, slug_,
       v.volley, v.upkeep, v.todo)

\* The cells after a strike.
HpLeft(v, dose, kind) ==
  [c \in Cells |-> IF c \in DOMAIN dose THEN On(v)!AfterHit(0, c, kind, dose[c])
                   ELSE v.hp[c]]
DeadThen(v, dose, kind) == v.dead \cup On(v)!Fallen(0, dose, kind)

\* The next gun that fires at it, and the shot.
TheGun(v) ==
  CHOOSE p \in Guns(v.gun) :
    v.shots[p] > 0 /\ \A q \in Guns(v.gun) : v.shots[q] > 0 => p <= q

ShotAt(v, p) ==
  LET kind  == Stats(v.gun, p).kind
      lane  == GunCell(v.gun, p)[2]
      soak  == AtMost(v.shield, v.damage[p])
      raw   == v.damage[p] - soak
      fired == [v.shots EXCEPT ![p] = @ - 1]
      tried == On(v)!TallyAfter(0, kind)
      worn  == v.shield - soak
      met   == On(v)!InLane(0, lane)
      dose  == IF kind = "laser" THEN [d \in {One(Foremost(met))} |-> raw]
               ELSE On(v)!Burst(0, One(Deepest(met)), raw)
  IN IF v.hull = 0 THEN After(v, fired, v.shield, v.tally, v.hull, v.hp, v.dead, v.slug)
     ELSE IF On(v)!Dodged(0, kind)
     THEN After(v, fired, v.shield, tried, v.hull, v.hp, v.dead, v.slug)
     ELSE IF soak > 0 /\ soak = v.damage[p]
     THEN After(v, fired, worn, tried, v.hull, v.hp, v.dead, v.slug)
     ELSE IF kind = "rail"
     THEN After(v, fired, worn, tried, v.hull, v.hp, v.dead,
                [lane |-> lane, row |-> 0, raw |-> raw])
     ELSE IF met = {}
     THEN After(v, fired, worn, tried, On(v)!HullHit(0, raw), v.hp, v.dead, v.slug)
     ELSE After(v, fired, worn, tried, v.hull, HpLeft(v, dose, kind),
                DeadThen(v, dose, kind), v.slug)

\* A slug that goes on down its lane.
SlugPast(s, row, raw) == [s EXCEPT !.row = row, !.raw = raw]

SlugOn(v) ==
  LET ahead == {c \in On(v)!InLane(0, v.slug.lane) : c[1] >= v.slug.row}
      c     == One(Foremost(ahead))
      dose  == [d \in {c} |-> v.slug.raw]
  IN IF ahead = {}
     THEN After(v, v.shots, v.shield, v.tally, On(v)!HullHit(0, v.slug.raw), v.hp, v.dead,
                NoSlug)
     ELSE After(v, v.shots, v.shield, v.tally, v.hull, HpLeft(v, dose, "rail"),
                DeadThen(v, dose, "rail"),
                IF On(v)!AfterHit(0, c, "rail", v.slug.raw) = 0 /\ On(v)!Carry(0, c) > 0
                THEN SlugPast(v.slug, c[1] + 1, On(v)!Carry(0, c))
                ELSE NoSlug)

Spared(v) ==
  Bout(v.ship, v.gun, v.damage, v.pin, v.shots, v.shield, v.tally, v.hull, v.hp, v.dead,
       v.slug, "done", v.upkeep, v.todo)

Tended(v) ==
  Bout(v.ship, v.gun, v.damage, v.pin, v.shots, v.shield, v.tally, v.hull,
       On(v)!Grown(0), v.ship.occupied \ On(v)!Standing(0), v.slug, v.volley, "done",
       On(v)!Menders(0))

Mending(v, c) ==
  LET weakest == On(v)!Weakest(0, On(v)!Damaged(0, c))
      d       == First(weakest)
      mender  == v.ship.role[c] = "mender"
  IN Bout(v.ship, v.gun, v.damage, v.pin, v.shots, v.shield, v.tally,
          IF mender THEN On(v)!Mended(0, c) ELSE v.hull,
          IF mender \/ weakest = {} THEN v.hp
          ELSE [v.hp EXCEPT ![d] = On(v)!RepairedHp(0, c, d)],
          v.dead, v.slug, v.volley, v.upkeep, v.todo \ {c})

\* Whether anything is still to happen to a ship this second, and what is next.
Busy(v) == v.volley = "due" \/ v.upkeep = "due" \/ v.todo # {}

Onward(v) ==
  IF v.slug # NoSlug THEN SlugOn(v)
  ELSE IF v.volley = "due"
  THEN IF \A p \in Guns(v.gun) : v.shots[p] = 0 THEN Spared(v) ELSE ShotAt(v, TheGun(v))
  ELSE IF v.upkeep = "due" THEN Tended(v)
  ELSE Mending(v, First(v.todo))

LEMMA BoutHas ==
  ASSUME NEW a1, NEW a2, NEW a3, NEW a4, NEW a5, NEW a6, NEW a7, NEW a8, NEW a9, NEW a10,
         NEW a11, NEW a12, NEW a13, NEW a14
  PROVE  LET v == Bout(a1, a2, a3, a4, a5, a6, a7, a8, a9, a10, a11, a12, a13, a14)
         IN /\ v.ship = a1 /\ v.gun = a2 /\ v.damage = a3 /\ v.pin = a4 /\ v.shots = a5
            /\ v.shield = a6 /\ v.tally = a7 /\ v.hull = a8 /\ v.hp = a9 /\ v.dead = a10
            /\ v.slug = a11 /\ v.volley = a12 /\ v.upkeep = a13 /\ v.todo = a14
BY DEF Bout

LEMMA OneIs ==
  ASSUME NEW S, NEW lane, S \subseteq {c \in Cells : c[2] = lane}, NEW c
  PROVE  /\ c \in Foremost(S) => c = One(Foremost(S))
         /\ c \in Deepest(S) => c = One(Deepest(S))
<1>1. \A d \in S : d = <<d[1], lane>> /\ d[1] \in Int
  BY GridAssumption DEF Cells
<1>2. \A d, e \in Foremost(S) : d = e
  <2> SUFFICES ASSUME NEW d \in Foremost(S), NEW e \in Foremost(S) PROVE d = e
    OBVIOUS
  <2>1. d \in S /\ e \in S /\ d[1] <= e[1] /\ e[1] <= d[1]
    BY DEF Foremost
  <2>2. d[1] = e[1]
    BY <1>1, <2>1
  <2> QED BY <1>1, <2>1, <2>2
<1>3. \A d, e \in Deepest(S) : d = e
  <2> SUFFICES ASSUME NEW d \in Deepest(S), NEW e \in Deepest(S) PROVE d = e
    OBVIOUS
  <2>1. d \in S /\ e \in S /\ d[1] <= e[1] /\ e[1] <= d[1]
    BY DEF Deepest
  <2>2. d[1] = e[1]
    BY <1>1, <2>1
  <2> QED BY <1>1, <2>1, <2>2
<1> QED BY <1>2, <1>3 DEF One

LEMMA FirstIs ==
  ASSUME NEW S, S \subseteq Cells, NEW c \in S, \A d \in S : Precedes(c, d)
  PROVE  First(S) = c
<1>1. \A d \in S : d = <<d[1], d[2]>> /\ d[1] \in Int /\ d[2] \in Int
  BY GridAssumption DEF Cells
<1>2. \A d \in S : Precedes(c, d) /\ Precedes(d, c) => c = d
  <2> SUFFICES ASSUME NEW d \in S, Precedes(c, d), Precedes(d, c) PROVE c = d
    OBVIOUS
  <2>1. c[1] = d[1] /\ c[2] = d[2]
    BY <1>1 DEF Precedes
  <2> QED BY <1>1, <2>1
<1>3. First(S) \in S /\ \A d \in S : Precedes(First(S), d)
  BY DEF First
<1> QED BY <1>2, <1>3

LEMMA TheGunIs ==
  ASSUME NEW v, v.gun \in Ships, NEW p \in Guns(v.gun), v.shots[p] > 0,
         \A q \in Guns(v.gun) : v.shots[q] > 0 => p <= q
  PROVE  TheGun(v) = p
<1>1. Guns(v.gun) \subseteq Int
  BY FleetAssumption DEF Guns, Fits
<1>2. TheGun(v) \in Guns(v.gun) /\ v.shots[TheGun(v)] > 0
      /\ \A q \in Guns(v.gun) : v.shots[q] > 0 => TheGun(v) <= q
  BY DEF TheGun
<1>3. TheGun(v) <= p /\ p <= TheGun(v)
  BY <1>2
<1> QED BY <1>1, <1>2, <1>3

-----------------------------------------------------------------------------

Formed ==
  /\ OfSeats(hull) /\ OfSeats(shield) /\ OfSeats(tally) /\ OfSeats(hp) /\ OfSeats(dead)
  /\ OfSeats(charge) /\ OfSeats(shots) /\ OfSeats(damage) /\ OfSeats(pin) /\ OfSeats(loop)

\* A slug flies only in a volley, and repairs are of the ship kept last.
Staged ==
  /\ Orderly(agenda)
  /\ slug # NoSlug =>
       todo = {} /\ \E x \in Seats : agenda # <<>> /\ Head(agenda) = <<"resolve", x>>
  /\ todo # {} =>
       /\ \E x \in Seats : <<"upkeep", x>> \notin Pending(agenda)
                          /\ \E S \in SUBSET Cells : todo = {x} \X S
       /\ \A call \in Pending(agenda) : call[1] = "upkeep"

Fit == \A x \in Seats : ship[x] \in Ships

\* What a second still has for a ship: a slug on its way to it, a volley, its
\* upkeep and its repairs.
SlugTo(y)  == IF agenda # <<>> /\ Head(agenda) = <<"resolve", Other(y)>> THEN slug ELSE NoSlug
Volley(y)  == IF <<"resolve", Other(y)>> \in Pending(agenda) THEN "due" ELSE "done"
Care(y)    == IF <<"upkeep", y>> \in Pending(agenda) THEN "due" ELSE "done"
Repairs(y) == {c \in Cells : <<y, c>> \in todo}

\* That, and all it depends on.
Thread(y) ==
  Bout(ship[y], ship[Other(y)], damage[Other(y)], pin[y], shots[Other(y)],
       shield[y], tally[y], hull[y], hp[y], dead[y],
       SlugTo(y), Volley(y), Care(y), Repairs(y))

LEMMA ThreadHas ==
  ASSUME NEW y
  PROVE  LET v == Thread(y)
         IN /\ v.ship = ship[y] /\ v.gun = ship[Other(y)]
            /\ v.shots = shots[Other(y)] /\ v.damage = damage[Other(y)] /\ v.pin = pin[y]
            /\ v.hull = hull[y] /\ v.shield = shield[y] /\ v.tally = tally[y]
            /\ v.hp = hp[y] /\ v.dead = dead[y]
            /\ v.slug = SlugTo(y) /\ v.volley = Volley(y)
            /\ v.upkeep = Care(y) /\ v.todo = Repairs(y)
BY BoutHas DEF Thread

\* A step that is the next one of a ship, and nothing to the other.
Moves(y) ==
  /\ Busy(Thread(y)) /\ Thread(y)' = Onward(Thread(y))
  /\ Thread(Other(y))' = Thread(Other(y))
  /\ Formed' /\ Staged'
  /\ UNCHANGED <<ship, clock, phase, mult, charge, loop>>

LEMMA SeatsAre ==
  ASSUME NEW x \in Seats
  PROVE  /\ Other(x) \in Seats /\ Other(x) # x /\ Other(Other(x)) = x
         /\ \A y \in Seats : y = x \/ y = Other(x)
         /\ Other(x) = Other(x)
BY DEF Seats, Other

LEMMA VolleyOverMoves ==
  ASSUME Formed, Staged, Fit, NEW x \in Seats, VolleyOver(x)
  PROVE  Moves(Other(x))
<1> DEFINE y == Other(x)
           v == Thread(y)
<1>1. y \in Seats /\ Other(y) = x /\ Other(x) = y /\ y # x /\ Other(x) = y
  BY SeatsAre
<1>2. /\ agenda # <<>> /\ Head(agenda) = <<"resolve", x>> /\ slug = NoSlug /\ todo = {}
      /\ \A p \in Guns(ship[x]) : shots[x][p] = 0
      /\ agenda' = Tail(agenda)
      /\ UNCHANGED <<ship, clock, phase, slug, todo, mult>>
      /\ UNCHANGED <<hull, shield, tally, hp, dead, charge, shots, damage, pin, loop>>
  BY DEF VolleyOver, Doing, body, guns
<1>3. /\ Orderly(agenda') /\ Pending(agenda') = Pending(agenda) \ {Head(agenda)}
      /\ Head(agenda) \in Pending(agenda)
  BY <1>2, NextCall DEF Staged
<1> HIDE DEF y
<1>4. /\ Volley(y) = "due" /\ Volley(y)' = "done" /\ SlugTo(y) = NoSlug
      /\ \A p \in Guns(ship[x]) : shots[x][p] = 0
  BY <1>1, <1>2, <1>3 DEF Volley, SlugTo
<1>5. ASSUME NEW z \in {x, y}
      PROVE  /\ SlugTo(z) = NoSlug /\ SlugTo(z)' = NoSlug
             /\ Care(z)' = Care(z) /\ Repairs(z)' = Repairs(z)
  BY <1>1, <1>2, <1>3 DEF SlugTo, Care, Repairs
<1>6. Thread(y)' = Onward(v) /\ Busy(v)
  <2>1. Onward(v) = Spared(v) /\ Busy(v)
    BY <1>1, <1>4, ThreadHas DEF Onward, Busy
  <2>2. Spared(v) = Thread(y)'
    BY <1>1, <1>2, <1>4, <1>5, ThreadHas DEF Spared, Thread
  <2> QED BY <2>1, <2>2
<1>10. Volley(x)' = Volley(x)
  BY <1>1, <1>2, <1>3 DEF Volley
<1>7. Thread(x)' = Thread(x)
  BY <1>1, <1>2, <1>5, <1>10 DEF Thread
<1>8. Formed' /\ Staged'
  BY <1>2, <1>3 DEF Formed, Staged, OfSeats
<1> QED BY <1>1, <1>2, <1>6, <1>7, <1>8 DEF Moves, y

LEMMA UpkeepMoves ==
  ASSUME Formed, Staged, Fit, NEW y \in Seats, Upkeep(y)
  PROVE  Moves(y)
<1> DEFINE v == Thread(y)
           x == Other(y)
<1>1. x \in Seats /\ Other(x) = y /\ y # x
  BY SeatsAre
<1>2. /\ agenda # <<>> /\ Head(agenda) = <<"upkeep", y>> /\ slug = NoSlug /\ todo = {}
      /\ hp' = [hp EXCEPT ![y] = Grown(y)]
      /\ dead' = [dead EXCEPT ![y] = ship[y].occupied \ Standing(y)]
      /\ todo' = {y} \X Menders(y)
      /\ agenda' = Tail(agenda)
      /\ UNCHANGED <<ship, clock, phase, slug, mult>>
      /\ UNCHANGED <<hull, shield, tally, charge, shots, damage, pin, loop>>
  BY DEF Upkeep, Doing, guns
<1>3. /\ Orderly(agenda') /\ Pending(agenda') = Pending(agenda) \ {Head(agenda)}
      /\ Head(agenda) \in Pending(agenda)
      /\ \A call \in Pending(agenda) : Rank["upkeep"] <= Rank[call[1]]
  BY <1>2, NextCall DEF Staged
<1>4. \A call \in Pending(agenda) : call[1] = "upkeep"
  <2>1. Pending(agenda) \subseteq CallSet
    BY DEF Staged, Orderly, Pending
  <2> QED BY <1>3, <2>1 DEF CallSet, Rank
<1>5. Menders(y) \subseteq Cells
  <2>1. Standing(y) \subseteq ship[y].occupied
    BY DEF Standing, Alive
  <2>2. Menders(y) \subseteq Standing(y)
    BY DEF Menders
  <2> QED BY <2>1, <2>2, TakenCell DEF Fit
<1>6. /\ v.ship = ship[y] /\ v.hp = hp[y] /\ v.dead = dead[y] /\ v.hull = hull[y]
      /\ v.pin = pin[y]
  BY ThreadHas
<1>7. /\ On(v)!Grown(0) = Grown(y) /\ On(v)!Standing(0) = Standing(y)
      /\ On(v)!Menders(0) = Menders(y)
  BY <1>6, UpkeepIs, MendersAre
<1> HIDE DEF x
<1>8. /\ Volley(y) = "done" /\ Volley(y)' = "done" /\ Care(y) = "due" /\ Care(y)' = "done"
      /\ SlugTo(y) = NoSlug /\ SlugTo(y)' = NoSlug /\ Repairs(y)' = Menders(y)
  BY <1>1, <1>2, <1>3, <1>4, <1>5 DEF Volley, SlugTo, Care, Repairs
<1>9. /\ Volley(x)' = Volley(x) /\ SlugTo(x)' = SlugTo(x) /\ Care(x)' = Care(x)
      /\ Repairs(x)' = Repairs(x)
  BY <1>1, <1>2, <1>3, <1>4 DEF Volley, SlugTo, Care, Repairs
<1>10. Thread(y)' = Onward(v) /\ Busy(v)
  <2>1. hp'[y] = Grown(y) /\ dead'[y] = ship[y].occupied \ Standing(y)
    BY <1>2 DEF Formed, OfSeats
  <2>2. Onward(v) = Tended(v) /\ Busy(v)
    BY <1>8, ThreadHas DEF Onward, Busy
  <2> DEFINE w == Bout(ship[y], ship[x], damage[x], pin[y], shots[x], shield[y],
                       tally[y], hull[y], Grown(y), ship[y].occupied \ Standing(y),
                       NoSlug, "done", "done", Menders(y))
  <2>3. Tended(v) = w
    <3>1. /\ v.gun = ship[x] /\ v.damage = damage[x] /\ v.shots = shots[x]
          /\ v.shield = shield[y] /\ v.tally = tally[y]
          /\ v.slug = NoSlug /\ v.volley = "done"
      BY <1>8, ThreadHas DEF x
    <3> HIDE DEF v
    <3> QED BY <1>6, <1>7, <3>1 DEF Tended
  <2>4. Thread(y)' = w
    BY <1>1, <1>2, <1>8, <2>1 DEF Thread, x
  <2> QED BY <2>2, <2>3, <2>4
<1>11. Thread(x)' = Thread(x)
  <2>1. hp'[x] = hp[x] /\ dead'[x] = dead[x]
    BY <1>1, <1>2 DEF Formed, OfSeats
  <2> QED BY <1>1, <1>2, <1>9, <2>1 DEF Thread
<1>12. Formed'
  BY <1>2 DEF Formed, OfSeats
<1>13. Staged'
  BY <1>2, <1>3, <1>4, <1>5 DEF Staged
<1> QED BY <1>2, <1>10, <1>11, <1>12, <1>13 DEF Moves, x

-----------------------------------------------------------------------------

TwinFormed ==
  /\ OfSeats(twinHull) /\ OfSeats(twinShield) /\ OfSeats(twinTally) /\ OfSeats(twinHp)
  /\ OfSeats(twinDead)
  /\ OfSeats(twinCharge) /\ OfSeats(twinShots) /\ OfSeats(twinDamage) /\ OfSeats(twinPin)
  /\ OfSeats(twinLoop)

\* In the twin: a slug flies only in a volley, and repairs are of the ship kept last.
TwinStaged ==
  /\ Orderly(twinAgenda)
  /\ twinSlug # NoSlug =>
       twinTodo = {} /\ \E x \in Seats : twinAgenda # <<>> /\ Head(twinAgenda) = <<"resolve", x>>
  /\ twinTodo # {} =>
       /\ \E x \in Seats : <<"upkeep", x>> \notin Pending(twinAgenda)
                          /\ \E S \in SUBSET Cells : twinTodo = {x} \X S
       /\ \A call \in Pending(twinAgenda) : call[1] = "upkeep"

TwinFit == \A x \in Seats : twinShip[x] \in Ships

\* In the twin: what a second still has for a ship: a slug on its way to it, a volley, its
\* upkeep and its repairs.
TwinSlugTo(y)  ==
  IF twinAgenda # <<>> /\ Head(twinAgenda) = <<"resolve", Other(y)>> THEN twinSlug ELSE NoSlug
TwinVolley(y)  == IF <<"resolve", Other(y)>> \in Pending(twinAgenda) THEN "due" ELSE "done"
TwinCare(y)    == IF <<"upkeep", y>> \in Pending(twinAgenda) THEN "due" ELSE "done"
TwinRepairs(y) == {c \in Cells : <<y, c>> \in twinTodo}

\* In the twin: that, and all it depends on.
TwinThread(y) ==
  Bout(twinShip[y], twinShip[Other(y)], twinDamage[Other(y)], twinPin[y], twinShots[Other(y)],
       twinShield[y], twinTally[y], twinHull[y], twinHp[y], twinDead[y],
       TwinSlugTo(y), TwinVolley(y), TwinCare(y), TwinRepairs(y))

LEMMA TwinThreadHas ==
  ASSUME NEW y
  PROVE  LET v == TwinThread(y)
         IN /\ v.ship = twinShip[y] /\ v.gun = twinShip[Other(y)]
            /\ v.shots = twinShots[Other(y)] /\ v.damage = twinDamage[Other(y)]
            /\ v.pin = twinPin[y]
            /\ v.hull = twinHull[y] /\ v.shield = twinShield[y] /\ v.tally = twinTally[y]
            /\ v.hp = twinHp[y] /\ v.dead = twinDead[y]
            /\ v.slug = TwinSlugTo(y) /\ v.volley = TwinVolley(y)
            /\ v.upkeep = TwinCare(y) /\ v.todo = TwinRepairs(y)
BY BoutHas DEF TwinThread

\* In the twin: a step that is the next one of a ship, and nothing to the other.
TwinMoves(y) ==
  /\ Busy(TwinThread(y)) /\ TwinThread(y)' = Onward(TwinThread(y))
  /\ TwinThread(Other(y))' = TwinThread(Other(y))
  /\ TwinFormed' /\ TwinStaged'
  /\ UNCHANGED <<twinShip, twinClock, twinPhase, twinMult, twinCharge, twinLoop>>

LEMMA TwinSeatsAre ==
  ASSUME NEW x \in Seats
  PROVE  /\ Other(x) \in Seats /\ Other(x) # x /\ Other(Other(x)) = x
         /\ \A y \in Seats : y = x \/ y = Other(x)
         /\ Twin!Other(x) = Other(x)
BY DEF Seats, Twin!Other, Other

LEMMA TwinVolleyOverMoves ==
  ASSUME TwinFormed, TwinStaged, TwinFit, NEW x \in Seats, Twin!VolleyOver(x)
  PROVE  TwinMoves(Other(x))
<1> DEFINE y == Other(x)
           v == TwinThread(y)
<1>1. y \in Seats /\ Other(y) = x /\ Other(x) = y /\ y # x /\ Twin!Other(x) = y
  BY TwinSeatsAre
<1>2. /\ twinAgenda # <<>> /\ Head(twinAgenda) = <<"resolve", x>> /\ twinSlug = NoSlug
      /\ twinTodo = {}
      /\ \A p \in Guns(twinShip[x]) : twinShots[x][p] = 0
      /\ twinAgenda' = Tail(twinAgenda)
      /\ UNCHANGED <<twinShip, twinClock, twinPhase, twinSlug, twinTodo, twinMult>>
      /\ UNCHANGED <<twinHull, twinShield, twinTally, twinHp, twinDead, twinCharge, twinShots,
                     twinDamage, twinPin, twinLoop>>
  BY  TwinConstants DEF Twin!VolleyOver, Twin!Doing, Twin!body, Twin!guns
<1>3. /\ Orderly(twinAgenda') /\ Pending(twinAgenda') = Pending(twinAgenda) \ {Head(twinAgenda)}
      /\ Head(twinAgenda) \in Pending(twinAgenda)
  BY <1>2, NextCall DEF TwinStaged
<1> HIDE DEF y
<1>4. /\ TwinVolley(y) = "due" /\ TwinVolley(y)' = "done" /\ TwinSlugTo(y) = NoSlug
      /\ \A p \in Guns(twinShip[x]) : twinShots[x][p] = 0
  BY <1>1, <1>2, <1>3, TwinConstants DEF TwinVolley, TwinSlugTo
<1>5. ASSUME NEW z \in {x, y}
      PROVE  /\ TwinSlugTo(z) = NoSlug /\ TwinSlugTo(z)' = NoSlug
             /\ TwinCare(z)' = TwinCare(z) /\ TwinRepairs(z)' = TwinRepairs(z)
  BY <1>1, <1>2, <1>3, TwinConstants DEF TwinSlugTo, TwinCare, TwinRepairs
<1>6. TwinThread(y)' = Onward(v) /\ Busy(v)
  <2>1. Onward(v) = Spared(v) /\ Busy(v)
    BY <1>1, <1>4, TwinThreadHas DEF Onward, Busy
  <2>2. Spared(v) = TwinThread(y)'
    BY <1>1, <1>2, <1>4, <1>5, TwinThreadHas DEF Spared, TwinThread
  <2> QED BY <2>1, <2>2
<1>10. TwinVolley(x)' = TwinVolley(x)
  BY <1>1, <1>2, <1>3 DEF TwinVolley
<1>7. TwinThread(x)' = TwinThread(x)
  BY <1>1, <1>2, <1>5, <1>10 DEF TwinThread
<1>8. TwinFormed' /\ TwinStaged'
  BY <1>2, <1>3 DEF TwinFormed, TwinStaged, OfSeats
<1> QED BY <1>1, <1>2, <1>6, <1>7, <1>8 DEF TwinMoves, y

LEMMA TwinUpkeepMoves ==
  ASSUME TwinFormed, TwinStaged, TwinFit, NEW y \in Seats, Twin!Upkeep(y)
  PROVE  TwinMoves(y)
<1> DEFINE v == TwinThread(y)
           x == Other(y)
<1>1. x \in Seats /\ Other(x) = y /\ y # x
  BY TwinSeatsAre
<1>2. /\ twinAgenda # <<>> /\ Head(twinAgenda) = <<"upkeep", y>> /\ twinSlug = NoSlug
      /\ twinTodo = {}
      /\ twinHp' = [twinHp EXCEPT ![y] = Twin!Grown(y)]
      /\ twinDead' = [twinDead EXCEPT ![y] = twinShip[y].occupied \ Twin!Standing(y)]
      /\ twinTodo' = {y} \X Twin!Menders(y)
      /\ twinAgenda' = Tail(twinAgenda)
      /\ UNCHANGED <<twinShip, twinClock, twinPhase, twinSlug, twinMult>>
      /\ UNCHANGED <<twinHull, twinShield, twinTally, twinCharge, twinShots, twinDamage,
                     twinPin, twinLoop>>
  BY  TwinConstants DEF Twin!Upkeep, Twin!Doing, Twin!guns
<1>3. /\ Orderly(twinAgenda') /\ Pending(twinAgenda') = Pending(twinAgenda) \ {Head(twinAgenda)}
      /\ Head(twinAgenda) \in Pending(twinAgenda)
      /\ \A call \in Pending(twinAgenda) : Rank["upkeep"] <= Rank[call[1]]
  BY <1>2, NextCall DEF TwinStaged
<1>4. \A call \in Pending(twinAgenda) : call[1] = "upkeep"
  <2>1. Pending(twinAgenda) \subseteq CallSet
    BY DEF TwinStaged, Orderly, Pending
  <2> QED BY <1>3, <2>1 DEF CallSet, Rank
<1>5. Twin!Menders(y) \subseteq Cells
  <2>1. Twin!Standing(y) \subseteq twinShip[y].occupied
    BY DEF Twin!Standing, Twin!Alive
  <2>2. Twin!Menders(y) \subseteq Twin!Standing(y)
    BY DEF Twin!Menders
  <2> QED BY <2>1, <2>2, TakenCell DEF TwinFit
<1>6. /\ v.ship = twinShip[y] /\ v.hp = twinHp[y] /\ v.dead = twinDead[y] /\ v.hull = twinHull[y]
      /\ v.pin = twinPin[y]
  BY TwinThreadHas
<1>7. /\ On(v)!Grown(0) = Twin!Grown(y) /\ On(v)!Standing(0) = Twin!Standing(y)
      /\ On(v)!Menders(0) = Twin!Menders(y)
  BY <1>6, TwinUpkeepIs, TwinMendersAre
<1> HIDE DEF x
<1>8. /\ TwinVolley(y) = "done" /\ TwinVolley(y)' = "done" /\ TwinCare(y) = "due"
      /\ TwinCare(y)' = "done"
      /\ TwinSlugTo(y) = NoSlug /\ TwinSlugTo(y)' = NoSlug /\ TwinRepairs(y)' = Twin!Menders(y)
  BY <1>1, <1>2, <1>3, <1>4, <1>5, TwinConstants DEF TwinVolley, TwinSlugTo, TwinCare, TwinRepairs
<1>9. /\ TwinVolley(x)' = TwinVolley(x) /\ TwinSlugTo(x)' = TwinSlugTo(x)
      /\ TwinCare(x)' = TwinCare(x)
      /\ TwinRepairs(x)' = TwinRepairs(x)
  BY <1>1, <1>2, <1>3, <1>4, TwinConstants DEF TwinVolley, TwinSlugTo, TwinCare, TwinRepairs
<1>10. TwinThread(y)' = Onward(v) /\ Busy(v)
  <2>1. twinHp'[y] = Twin!Grown(y) /\ twinDead'[y] = twinShip[y].occupied \ Twin!Standing(y)
    BY <1>2 DEF TwinFormed, OfSeats
  <2>2. Onward(v) = Tended(v) /\ Busy(v)
    BY <1>8, TwinThreadHas DEF Onward, Busy
  <2> DEFINE w == Bout(twinShip[y], twinShip[x], twinDamage[x], twinPin[y], twinShots[x],
                       twinShield[y],
                       twinTally[y], twinHull[y], Twin!Grown(y),
                       twinShip[y].occupied \ Twin!Standing(y),
                       NoSlug, "done", "done", Twin!Menders(y))
  <2>3. Tended(v) = w
    <3>1. /\ v.gun = twinShip[x] /\ v.damage = twinDamage[x] /\ v.shots = twinShots[x]
          /\ v.shield = twinShield[y] /\ v.tally = twinTally[y]
          /\ v.slug = NoSlug /\ v.volley = "done"
      BY <1>8, TwinThreadHas DEF x
    <3> HIDE DEF v
    <3> QED BY <1>6, <1>7, <3>1 DEF Tended
  <2>4. TwinThread(y)' = w
    BY <1>1, <1>2, <1>8, <2>1 DEF TwinThread, x
  <2> QED BY <2>2, <2>3, <2>4
<1>11. TwinThread(x)' = TwinThread(x)
  <2>1. twinHp'[x] = twinHp[x] /\ twinDead'[x] = twinDead[x]
    BY <1>1, <1>2 DEF TwinFormed, OfSeats
  <2> QED BY <1>1, <1>2, <1>9, <2>1 DEF TwinThread
<1>12. TwinFormed'
  BY <1>2 DEF TwinFormed, OfSeats
<1>13. TwinStaged'
  BY <1>2, <1>3, <1>4, <1>5 DEF TwinStaged
<1> QED BY <1>2, <1>10, <1>11, <1>12, <1>13 DEF TwinMoves, x

LEMMA RepairMoves ==
  ASSUME Formed, Staged, Fit, NEW y \in Seats, NEW c \in Cells, Repair(y, c)
  PROVE  Moves(y)
<1> DEFINE v == Thread(y)
           x == Other(y)
           weakest == Weakest(y, Damaged(y, c))
           mender == ship[y].role[c] = "mender"
           hull_ == IF mender THEN Mended(y, c) ELSE hull[y]
           hp_ == IF mender \/ weakest = {} THEN hp[y]
                  ELSE [hp[y] EXCEPT ![First(weakest)] = RepairedHp(y, c, First(weakest))]
           w == Bout(ship[y], ship[x], damage[x], pin[y], shots[x], shield[y],
                     tally[y], hull_, hp_, dead[y], NoSlug, "done", "done",
                     Repairs(y) \ {c})
<1>1. x \in Seats /\ Other(x) = y /\ y # x
  BY SeatsAre
<1>2. /\ <<y, c>> \in todo /\ \A other \in todo : Precedes(c, other[2])
      /\ todo' = todo \ {<<y, c>>}
      /\ UNCHANGED <<ship, clock, phase, agenda, slug, mult>>
      /\ UNCHANGED <<shield, tally, dead, charge, shots, damage, pin, loop>>
  BY DEF Repair, guns, Precedes
<1>3. PICK S \in SUBSET Cells : todo = {y} \X S /\ <<"upkeep", y>> \notin Pending(agenda)
  <2>1. PICK z \in Seats : <<"upkeep", z>> \notin Pending(agenda)
                           /\ \E S \in SUBSET Cells : todo = {z} \X S
    BY <1>2 DEF Staged
  <2>2. z = y
    BY <1>2, <2>1
  <2> QED BY <2>1, <2>2
<1>4. /\ slug = NoSlug /\ <<"upkeep", y>> \notin Pending(agenda)
      /\ \A call \in Pending(agenda) : call[1] = "upkeep"
  BY <1>2, <1>3 DEF Staged
<1>5. /\ Volley(y) = "done" /\ Volley(y)' = "done" /\ Care(y) = "done" /\ Care(y)' = "done"
      /\ SlugTo(y) = NoSlug /\ SlugTo(y)' = NoSlug
      /\ Repairs(y) = S /\ Repairs(y)' = S \ {c} /\ c \in S
  BY <1>2, <1>3, <1>4 DEF Volley, Care, SlugTo, Repairs
<1>6. /\ Volley(x)' = Volley(x) /\ Care(x)' = Care(x) /\ SlugTo(x)' = SlugTo(x)
      /\ Repairs(x)' = Repairs(x)
  BY <1>1, <1>2, <1>3, <1>4 DEF Volley, Care, SlugTo, Repairs
<1>7. First(S) = c
  <2>1. ASSUME NEW d \in S
        PROVE  Precedes(c, d)
    <3>1. <<y, d>> \in todo /\ <<y, d>>[2] = d
      BY <1>3
    <3> QED BY <1>2, <3>1
  <2> QED BY <1>5, <2>1, FirstIs
<1>8. /\ v.ship = ship[y] /\ v.gun = ship[x] /\ v.damage = damage[x] /\ v.pin = pin[y]
      /\ v.shots = shots[x] /\ v.shield = shield[y] /\ v.tally = tally[y]
      /\ v.hull = hull[y] /\ v.hp = hp[y] /\ v.dead = dead[y]
      /\ v.slug = NoSlug /\ v.volley = "done" /\ v.upkeep = "done" /\ v.todo = S
  BY <1>5, ThreadHas
<1>9. Onward(v) = w /\ Busy(v)
  <2> HIDE DEF v
  <2>1. /\ On(v)!Mended(0, c) = Mended(y, c) /\ On(v)!Damaged(0, c) = Damaged(y, c)
        /\ \A T : On(v)!Weakest(0, T) = Weakest(y, T)
        /\ \A d : On(v)!RepairedHp(0, c, d) = RepairedHp(y, c, d)
    BY <1>8, RepairsAre
  <2>2. Onward(v) = Mending(v, c) /\ Busy(v)
    BY <1>5, <1>7, <1>8 DEF Onward, Busy
  <2>3. Mending(v, c) = w
    BY <1>5, <1>8, <2>1 DEF Mending
  <2> QED BY <2>2, <2>3
<1>10. hull'[y] = hull_ /\ hp'[y] = hp_ /\ hull'[x] = hull[x] /\ hp'[x] = hp[x]
       /\ OfSeats(hull') /\ OfSeats(hp')
  <2>1. CASE mender
    <3>1. hull' = [hull EXCEPT ![y] = Mended(y, c)] /\ hp' = hp
      BY <2>1 DEF Repair
    <3> QED BY <1>1, <2>1, <3>1 DEF Formed, OfSeats
  <2>2. CASE \lnot mender /\ weakest = {}
    <3>1. hull' = hull /\ hp' = hp
      BY <2>2 DEF Repair
    <3> QED BY <1>1, <2>2, <3>1 DEF Formed
  <2>3. CASE \lnot mender /\ weakest # {}
    <3>1. hull' = hull
      BY <2>3 DEF Repair
    <3>2. PICK d \in weakest : /\ \A e \in weakest : Precedes(d, e)
                               /\ hp' = [hp EXCEPT ![y][d] = RepairedHp(y, c, d)]
      BY <2>3 DEF Repair, Precedes
    <3>3. weakest \subseteq Cells
      <4>1. weakest \subseteq ship[y].occupied
        BY DEF Weakest, Damaged, Alive
      <4> QED BY <4>1, TakenCell DEF Fit
    <3>4. d = First(weakest)
      BY <3>2, <3>3, FirstIs
    <3> HIDE DEF weakest, mender
    <3>5. hp_ = [hp[y] EXCEPT ![d] = RepairedHp(y, c, d)] /\ hull_ = hull[y]
      BY <2>3, <3>4
    <3> QED BY <1>1, <3>1, <3>2, <3>5 DEF Formed, OfSeats
  <2> QED BY <2>1, <2>2, <2>3
<1>11. Thread(y)' = w
  <2> HIDE DEF hull_, hp_
  <2> QED BY <1>1, <1>2, <1>5, <1>10 DEF Thread
<1>12. Thread(x)' = Thread(x)
  <2> HIDE DEF hull_, hp_
  <2> QED BY <1>1, <1>2, <1>6, <1>10 DEF Thread
<1>13. Formed'
  BY <1>2, <1>10 DEF Formed
<1>14. Staged'
  <2>1. todo' = {y} \X (S \ {c})
    BY <1>2, <1>3
  <2>2. S \ {c} \in SUBSET Cells
    OBVIOUS
  <2> QED BY <1>2, <1>4, <2>1, <2>2 DEF Staged
<1> QED BY <1>2, <1>9, <1>11, <1>12, <1>13, <1>14 DEF Moves

\* A strike, as a bout knows it.
LEMMA StrikeIs ==
  ASSUME Formed, NEW y \in Seats, NEW v, v.ship = ship[y], v.dead = dead[y], v.hp = hp[y],
         NEW dose, NEW kind, Strike(y, dose, kind)
  PROVE  /\ hp'[y] = HpLeft(v, dose, kind) /\ dead'[y] = DeadThen(v, dose, kind)
         /\ hp'[Other(y)] = hp[Other(y)] /\ dead'[Other(y)] = dead[Other(y)]
         /\ OfSeats(hp') /\ OfSeats(dead') /\ hull' = hull
<1>1. Other(y) \in Seats /\ Other(y) # y
  BY SeatsAre
<1>2. /\ hp' = [hp EXCEPT ![y] = [c \in Cells |->
                   IF c \in DOMAIN dose THEN AfterHit(y, c, kind, dose[c]) ELSE hp[y][c]]]
      /\ dead' = [dead EXCEPT ![y] = dead[y] \cup Fallen(y, dose, kind)]
      /\ hull' = hull
  BY DEF Strike
<1>3. /\ \A c, raw : On(v)!AfterHit(0, c, kind, raw) = AfterHit(y, c, kind, raw)
      /\ On(v)!Fallen(0, dose, kind) = Fallen(y, dose, kind)
  BY HitsAre
<1>4. hp'[y] = HpLeft(v, dose, kind)
  BY <1>2, <1>3 DEF Formed, OfSeats, HpLeft
<1>5. dead'[y] = DeadThen(v, dose, kind)
  BY <1>2, <1>3 DEF Formed, OfSeats, DeadThen
<1> QED BY <1>1, <1>2, <1>4, <1>5 DEF Formed, OfSeats

LEMMA TwinRepairMoves ==
  ASSUME TwinFormed, TwinStaged, TwinFit, NEW y \in Seats, NEW c \in Cells, Twin!Repair(y, c)
  PROVE  TwinMoves(y)
<1> DEFINE v == TwinThread(y)
           x == Other(y)
           weakest == Twin!Weakest(y, Twin!Damaged(y, c))
           mender == twinShip[y].role[c] = "mender"
           hull_ == IF mender THEN Twin!Mended(y, c) ELSE twinHull[y]
           hp_ == IF mender \/ weakest = {} THEN twinHp[y]
                  ELSE [twinHp[y] EXCEPT ![First(weakest)] = Twin!RepairedHp(y, c, First(weakest))]
           w == Bout(twinShip[y], twinShip[x], twinDamage[x], twinPin[y], twinShots[x],
                     twinShield[y],
                     twinTally[y], hull_, hp_, twinDead[y], NoSlug, "done", "done",
                     TwinRepairs(y) \ {c})
<1>1. x \in Seats /\ Other(x) = y /\ y # x
  BY TwinSeatsAre
<1>2. /\ <<y, c>> \in twinTodo /\ \A other \in twinTodo : Precedes(c, other[2])
      /\ twinTodo' = twinTodo \ {<<y, c>>}
      /\ UNCHANGED <<twinShip, twinClock, twinPhase, twinAgenda, twinSlug, twinMult>>
      /\ UNCHANGED <<twinShield, twinTally, twinDead, twinCharge, twinShots, twinDamage,
                     twinPin, twinLoop>>
  BY  TwinConstants DEF Twin!Repair, Twin!guns, Twin!Precedes, Precedes
<1>3. PICK S \in SUBSET Cells : twinTodo = {y} \X S /\ <<"upkeep", y>> \notin Pending(twinAgenda)
  <2>1. PICK z \in Seats : <<"upkeep", z>> \notin Pending(twinAgenda)
                           /\ \E S \in SUBSET Cells : twinTodo = {z} \X S
    BY <1>2 DEF TwinStaged
  <2>2. z = y
    BY <1>2, <2>1
  <2> QED BY <2>1, <2>2
<1>4. /\ twinSlug = NoSlug /\ <<"upkeep", y>> \notin Pending(twinAgenda)
      /\ \A call \in Pending(twinAgenda) : call[1] = "upkeep"
  BY <1>2, <1>3 DEF TwinStaged
<1>5. /\ TwinVolley(y) = "done" /\ TwinVolley(y)' = "done" /\ TwinCare(y) = "done"
      /\ TwinCare(y)' = "done"
      /\ TwinSlugTo(y) = NoSlug /\ TwinSlugTo(y)' = NoSlug
      /\ TwinRepairs(y) = S /\ TwinRepairs(y)' = S \ {c} /\ c \in S
  BY <1>2, <1>3, <1>4 DEF TwinVolley, TwinCare, TwinSlugTo, TwinRepairs
<1>6. /\ TwinVolley(x)' = TwinVolley(x) /\ TwinCare(x)' = TwinCare(x)
      /\ TwinSlugTo(x)' = TwinSlugTo(x)
      /\ TwinRepairs(x)' = TwinRepairs(x)
  BY <1>1, <1>2, <1>3, <1>4 DEF TwinVolley, TwinCare, TwinSlugTo, TwinRepairs
<1>7. First(S) = c
  <2>1. ASSUME NEW d \in S
        PROVE  Precedes(c, d)
    <3>1. <<y, d>> \in twinTodo /\ <<y, d>>[2] = d
      BY <1>3
    <3> QED BY <1>2, <3>1
  <2> QED BY <1>5, <2>1, FirstIs
<1>8. /\ v.ship = twinShip[y] /\ v.gun = twinShip[x] /\ v.damage = twinDamage[x]
      /\ v.pin = twinPin[y]
      /\ v.shots = twinShots[x] /\ v.shield = twinShield[y] /\ v.tally = twinTally[y]
      /\ v.hull = twinHull[y] /\ v.hp = twinHp[y] /\ v.dead = twinDead[y]
      /\ v.slug = NoSlug /\ v.volley = "done" /\ v.upkeep = "done" /\ v.todo = S
  BY <1>5, TwinThreadHas
<1>9. Onward(v) = w /\ Busy(v)
  <2> HIDE DEF v
  <2>1. /\ On(v)!Mended(0, c) = Twin!Mended(y, c) /\ On(v)!Damaged(0, c) = Twin!Damaged(y, c)
        /\ \A T : On(v)!Weakest(0, T) = Twin!Weakest(y, T)
        /\ \A d : On(v)!RepairedHp(0, c, d) = Twin!RepairedHp(y, c, d)
    BY <1>8, TwinRepairsAre
  <2>2. Onward(v) = Mending(v, c) /\ Busy(v)
    BY <1>5, <1>7, <1>8 DEF Onward, Busy
  <2>3. Mending(v, c) = w
    BY <1>5, <1>8, <2>1 DEF Mending
  <2> QED BY <2>2, <2>3
<1>10. twinHull'[y] = hull_ /\ twinHp'[y] = hp_ /\ twinHull'[x] = twinHull[x]
       /\ twinHp'[x] = twinHp[x]
       /\ OfSeats(twinHull') /\ OfSeats(twinHp')
  <2>1. CASE mender
    <3>1. twinHull' = [twinHull EXCEPT ![y] = Twin!Mended(y, c)] /\ twinHp' = twinHp
      BY <2>1 DEF Twin!Repair
    <3> QED BY <1>1, <2>1, <3>1 DEF TwinFormed, OfSeats
  <2>2. CASE \lnot mender /\ weakest = {}
    <3>1. twinHull' = twinHull /\ twinHp' = twinHp
      BY <2>2 DEF Twin!Repair
    <3> QED BY <1>1, <2>2, <3>1 DEF TwinFormed
  <2>3. CASE \lnot mender /\ weakest # {}
    <3>1. twinHull' = twinHull
      BY <2>3 DEF Twin!Repair
    <3>2. PICK d \in weakest : /\ \A e \in weakest : Precedes(d, e)
                               /\ twinHp' = [twinHp EXCEPT ![y][d] = Twin!RepairedHp(y, c, d)]
      BY <2>3 DEF Twin!Repair, Twin!Precedes, Precedes
    <3>3. weakest \subseteq Cells
      <4>1. weakest \subseteq twinShip[y].occupied
        BY DEF Twin!Weakest, Twin!Damaged, Twin!Alive
      <4> QED BY <4>1, TakenCell DEF TwinFit
    <3>4. d = First(weakest)
      BY <3>2, <3>3, FirstIs
    <3> HIDE DEF weakest, mender
    <3>5. hp_ = [twinHp[y] EXCEPT ![d] = Twin!RepairedHp(y, c, d)] /\ hull_ = twinHull[y]
      BY <2>3, <3>4
    <3> QED BY <1>1, <3>1, <3>2, <3>5 DEF TwinFormed, OfSeats
  <2> QED BY <2>1, <2>2, <2>3
<1>11. TwinThread(y)' = w
  <2> HIDE DEF hull_, hp_
  <2> QED BY <1>1, <1>2, <1>5, <1>10 DEF TwinThread
<1>12. TwinThread(x)' = TwinThread(x)
  <2> HIDE DEF hull_, hp_
  <2> QED BY <1>1, <1>2, <1>6, <1>10 DEF TwinThread
<1>13. TwinFormed'
  BY <1>2, <1>10 DEF TwinFormed
<1>14. TwinStaged'
  <2>1. twinTodo' = {y} \X (S \ {c})
    BY <1>2, <1>3
  <2>2. S \ {c} \in SUBSET Cells
    OBVIOUS
  <2> QED BY <1>2, <1>4, <2>1, <2>2 DEF TwinStaged
<1> QED BY <1>2, <1>9, <1>11, <1>12, <1>13, <1>14 DEF TwinMoves

\* In the twin: a strike, as a bout knows it.
LEMMA TwinStrikeIs ==
  ASSUME TwinFormed, NEW y \in Seats, NEW v, v.ship = twinShip[y], v.dead = twinDead[y],
         v.hp = twinHp[y],
         NEW dose, NEW kind, Twin!Strike(y, dose, kind)
  PROVE  /\ twinHp'[y] = HpLeft(v, dose, kind) /\ twinDead'[y] = DeadThen(v, dose, kind)
         /\ twinHp'[Other(y)] = twinHp[Other(y)] /\ twinDead'[Other(y)] = twinDead[Other(y)]
         /\ OfSeats(twinHp') /\ OfSeats(twinDead') /\ twinHull' = twinHull
<1>1. Other(y) \in Seats /\ Other(y) # y
  BY TwinSeatsAre
<1>2. /\ twinHp' = [twinHp EXCEPT ![y] = [c \in Cells |->
                   IF c \in DOMAIN dose THEN Twin!AfterHit(y, c, kind, dose[c]) ELSE twinHp[y][c]]]
      /\ twinDead' = [twinDead EXCEPT ![y] = twinDead[y] \cup Twin!Fallen(y, dose, kind)]
      /\ twinHull' = twinHull
  BY  TwinConstants DEF Twin!Strike
<1>3. /\ \A c, raw : On(v)!AfterHit(0, c, kind, raw) = Twin!AfterHit(y, c, kind, raw)
      /\ On(v)!Fallen(0, dose, kind) = Twin!Fallen(y, dose, kind)
  BY TwinHitsAre
<1>4. twinHp'[y] = HpLeft(v, dose, kind)
  BY <1>2, <1>3 DEF TwinFormed, OfSeats, HpLeft
<1>5. twinDead'[y] = DeadThen(v, dose, kind)
  BY <1>2, <1>3 DEF TwinFormed, OfSeats, DeadThen
<1> QED BY <1>1, <1>2, <1>4, <1>5 DEF TwinFormed, OfSeats

\* Where a volley stands: whose it is, and that only its target's thread sees it.
LEMMA InVolley ==
  ASSUME Staged, NEW x \in Seats, agenda # <<>>, Head(agenda) = <<"resolve", x>>,
         UNCHANGED <<agenda, todo>>
  PROVE  LET y == Other(x)
         IN /\ Volley(y) = "due" /\ Volley(y)' = "due"
            /\ SlugTo(y) = slug /\ SlugTo(y)' = slug'
            /\ SlugTo(x) = NoSlug /\ SlugTo(x)' = NoSlug
            /\ Volley(x)' = Volley(x)
            /\ \A z : Care(z)' = Care(z) /\ Repairs(z)' = Repairs(z)
<1> DEFINE y == Other(x)
<1>1. y \in Seats /\ Other(y) = x /\ y # x
  BY SeatsAre
<1> HIDE DEF y
<1>2. <<"resolve", x>> \in Pending(agenda)
  BY NextCall DEF Staged
<1>3. Volley(y) = "due" /\ Volley(y)' = "due" /\ Volley(x)' = Volley(x)
  BY <1>1, <1>2 DEF Volley
<1>4. SlugTo(y) = slug /\ SlugTo(y)' = slug'
  BY <1>1 DEF SlugTo
<1>5. SlugTo(x) = NoSlug /\ SlugTo(x)' = NoSlug
  <2>1. <<"resolve", x>> # <<"resolve", y>>
    BY <1>1
  <2> QED BY <2>1 DEF SlugTo, y
<1>6. \A z : Care(z)' = Care(z) /\ Repairs(z)' = Repairs(z)
  BY DEF Care, Repairs
<1> QED BY <1>3, <1>4, <1>5, <1>6 DEF y

\* The other ship has no part in a volley.
LEMMA Bystander ==
  ASSUME Staged, NEW x \in Seats, agenda # <<>>, Head(agenda) = <<"resolve", x>>,
         UNCHANGED <<agenda, todo, ship, damage, pin>>,
         shots'[Other(x)] = shots[Other(x)], shield'[x] = shield[x],
         tally'[x] = tally[x], hull'[x] = hull[x], hp'[x] = hp[x], dead'[x] = dead[x]
  PROVE  Thread(x)' = Thread(x)
<1>1. /\ SlugTo(x)' = SlugTo(x) /\ Volley(x)' = Volley(x)
      /\ Care(x)' = Care(x) /\ Repairs(x)' = Repairs(x)
  BY InVolley
<1> QED BY <1>1 DEF Thread

LEMMA SlugFliesMoves ==
  ASSUME Formed, Staged, Fit, NEW x \in Seats, SlugFlies(x)
  PROVE  Moves(Other(x))
<1> DEFINE y == Other(x)
           v == Thread(y)
           ahead == {c \in InLane(y, slug.lane) : c[1] >= slug.row}
<1>1. y \in Seats /\ Other(y) = x /\ Other(x) = y /\ y # x /\ Other(x) = y
  BY SeatsAre
<1>2. /\ slug # NoSlug /\ agenda # <<>> /\ Head(agenda) = <<"resolve", x>>
      /\ UNCHANGED <<ship, clock, phase, agenda, todo, mult>>
      /\ UNCHANGED <<shield, tally, charge, shots, damage, pin, loop>>
  BY DEF SlugFlies, guns
<1>3. \/ /\ ahead = {} /\ StrikeHull(y, slug.raw) /\ slug' = NoSlug
      \/ \E c \in Foremost(ahead) :
           /\ Strike(y, [d \in {c} |-> slug.raw], "rail")
           /\ slug' = IF AfterHit(y, c, "rail", slug.raw) = 0 /\ Carry(y, c) > 0
                       THEN SlugPast(slug, c[1] + 1, Carry(y, c))
                       ELSE NoSlug
  BY <1>1 DEF SlugFlies, SlugPast
<1>4. /\ Volley(y) = "due" /\ Volley(y)' = "due" /\ SlugTo(y) = slug /\ SlugTo(y)' = slug'
      /\ Care(y)' = Care(y) /\ Repairs(y)' = Repairs(y)
  BY <1>2, InVolley
<1>5. /\ v.ship = ship[y] /\ v.gun = ship[x] /\ v.damage = damage[x] /\ v.pin = pin[y]
      /\ v.shots = shots[x] /\ v.shield = shield[y] /\ v.tally = tally[y]
      /\ v.hull = hull[y] /\ v.hp = hp[y] /\ v.dead = dead[y]
      /\ v.slug = slug /\ v.volley = "due" /\ v.upkeep = Care(y) /\ v.todo = Repairs(y)
  BY <1>1, <1>4, ThreadHas
<1> HIDE DEF v, y
<1>6. On(v)!InLane(0, slug.lane) = InLane(y, slug.lane)
  BY <1>1, <1>5, HitsAre
<1>7. Onward(v) = SlugOn(v) /\ Busy(v)
  BY <1>2, <1>5 DEF Onward, Busy
<1>8. CASE ahead = {}
  <2>1. StrikeHull(y, slug.raw) /\ slug' = NoSlug
    BY <1>3, <1>8 DEF Foremost
  <2>2. /\ hull' = [hull EXCEPT ![y] = HullHit(y, slug.raw)]
        /\ hp' = hp /\ dead' = dead
    BY <2>1 DEF StrikeHull
  <2>3. On(v)!HullHit(0, slug.raw) = HullHit(y, slug.raw)
    BY <1>1, <1>5, HullHitIs
  <2> DEFINE w == Bout(ship[y], ship[x], damage[x], pin[y], shots[x], shield[y],
                       tally[y], HullHit(y, slug.raw), hp[y], dead[y], NoSlug, "due",
                       Care(y), Repairs(y))
  <2>4. SlugOn(v) = w
    <3>1. SlugOn(v) = After(v, v.shots, v.shield, v.tally, On(v)!HullHit(0, v.slug.raw), v.hp,
                            v.dead, NoSlug)
      BY <1>5, <1>6, <1>8 DEF SlugOn
    <3> QED BY <1>5, <2>3, <3>1 DEF After
  <2>5. Thread(y)' = w
    BY <1>1, <1>2, <1>4, <2>1, <2>2 DEF Thread, Formed, OfSeats
  <2>6. hull'[x] = hull[x] /\ OfSeats(hull')
    BY <1>1, <2>2 DEF Formed, OfSeats
  <2>7. Thread(x)' = Thread(x)
    BY <1>1, <1>2, <2>2, <2>6, Bystander
  <2>8. Formed' /\ Staged'
    BY <1>2, <2>1, <2>2, <2>6 DEF Formed, Staged
  <2> HIDE DEF w
  <2> QED BY <1>1, <1>2, <1>7, <2>4, <2>5, <2>7, <2>8 DEF Moves, v, y
<1>9. CASE ahead # {}
  <2>1. PICK c \in Foremost(ahead) :
          /\ Strike(y, [d \in {c} |-> slug.raw], "rail")
          /\ slug' = IF AfterHit(y, c, "rail", slug.raw) = 0 /\ Carry(y, c) > 0
                      THEN SlugPast(slug, c[1] + 1, Carry(y, c))
                      ELSE NoSlug
    BY <1>3, <1>9
  <2>2. c = One(Foremost(ahead))
    <3>1. InLane(y, slug.lane) \subseteq ship[y].occupied
      BY DEF InLane, Alive
    <3>2. ahead \subseteq {d \in Cells : d[2] = slug.lane}
      BY <1>1, <3>1, TakenCell DEF Fit, InLane
    <3> HIDE DEF ahead
    <3> QED BY <3>2, OneIs
  <2> DEFINE dose == [d \in {c} |-> slug.raw]
             w == Bout(ship[y], ship[x], damage[x], pin[y], shots[x], shield[y],
                       tally[y], hull[y], HpLeft(v, dose, "rail"),
                       DeadThen(v, dose, "rail"), slug', "due", Care(y), Repairs(y))
  <2>3. Strike(y, dose, "rail")
    BY <2>1
  <2>4. /\ \A kind, raw : On(v)!AfterHit(0, c, kind, raw) = AfterHit(y, c, kind, raw)
        /\ On(v)!Carry(0, c) = Carry(y, c)
    BY <1>1, <1>5, HitsAre, CarryIs
  <2>5. SlugOn(v) = w
    <3>1. SlugOn(v) = After(v, v.shots, v.shield, v.tally, v.hull, HpLeft(v, dose, "rail"),
                            DeadThen(v, dose, "rail"), slug')
      BY <1>5, <1>6, <1>9, <2>1, <2>2, <2>4 DEF SlugOn
    <3> QED BY <1>5, <3>1 DEF After
  <2> HIDE DEF dose, ahead
  <2>6. /\ hp'[y] = HpLeft(v, dose, "rail") /\ dead'[y] = DeadThen(v, dose, "rail")
        /\ hp'[x] = hp[x] /\ dead'[x] = dead[x]
        /\ OfSeats(hp') /\ OfSeats(dead') /\ hull' = hull
    BY <1>1, <1>5, <2>3, StrikeIs
  <2>7. Thread(y)' = w
    BY <1>1, <1>2, <1>4, <2>6 DEF Thread
  <2>8. Thread(x)' = Thread(x)
    BY <1>1, <1>2, <2>6, Bystander
  <2>9. Formed' /\ Staged'
    BY <1>2, <2>6 DEF Formed, Staged
  <2> HIDE DEF w
  <2> QED BY <1>1, <1>2, <1>7, <2>5, <2>7, <2>8, <2>9 DEF Moves, v, y
<1> QED BY <1>8, <1>9

\* In the twin: where a volley stands: whose it is, and that only its target's thread sees it.
LEMMA TwinInVolley ==
  ASSUME TwinStaged, NEW x \in Seats, twinAgenda # <<>>, Head(twinAgenda) = <<"resolve", x>>,
         UNCHANGED <<twinAgenda, twinTodo>>
  PROVE  LET y == Other(x)
         IN /\ TwinVolley(y) = "due" /\ TwinVolley(y)' = "due"
            /\ TwinSlugTo(y) = twinSlug /\ TwinSlugTo(y)' = twinSlug'
            /\ TwinSlugTo(x) = NoSlug /\ TwinSlugTo(x)' = NoSlug
            /\ TwinVolley(x)' = TwinVolley(x)
            /\ \A z : TwinCare(z)' = TwinCare(z) /\ TwinRepairs(z)' = TwinRepairs(z)
<1> DEFINE y == Other(x)
<1>1. y \in Seats /\ Other(y) = x /\ y # x
  BY TwinSeatsAre
<1> HIDE DEF y
<1>2. <<"resolve", x>> \in Pending(twinAgenda)
  BY NextCall DEF TwinStaged
<1>3. TwinVolley(y) = "due" /\ TwinVolley(y)' = "due" /\ TwinVolley(x)' = TwinVolley(x)
  BY <1>1, <1>2 DEF TwinVolley
<1>4. TwinSlugTo(y) = twinSlug /\ TwinSlugTo(y)' = twinSlug'
  BY <1>1 DEF TwinSlugTo
<1>5. TwinSlugTo(x) = NoSlug /\ TwinSlugTo(x)' = NoSlug
  <2>1. <<"resolve", x>> # <<"resolve", y>>
    BY <1>1
  <2> QED BY <2>1 DEF TwinSlugTo, y
<1>6. \A z : TwinCare(z)' = TwinCare(z) /\ TwinRepairs(z)' = TwinRepairs(z)
  BY DEF TwinCare, TwinRepairs
<1> QED BY <1>3, <1>4, <1>5, <1>6 DEF y

\* In the twin: the other ship has no part in a volley.
LEMMA TwinBystander ==
  ASSUME TwinStaged, NEW x \in Seats, twinAgenda # <<>>, Head(twinAgenda) = <<"resolve", x>>,
         UNCHANGED <<twinAgenda, twinTodo, twinShip, twinDamage, twinPin>>,
         twinShots'[Other(x)] = twinShots[Other(x)], twinShield'[x] = twinShield[x],
         twinTally'[x] = twinTally[x], twinHull'[x] = twinHull[x], twinHp'[x] = twinHp[x],
         twinDead'[x] = twinDead[x]
  PROVE  TwinThread(x)' = TwinThread(x)
<1>1. /\ TwinSlugTo(x)' = TwinSlugTo(x) /\ TwinVolley(x)' = TwinVolley(x)
      /\ TwinCare(x)' = TwinCare(x) /\ TwinRepairs(x)' = TwinRepairs(x)
  BY TwinInVolley
<1> QED BY <1>1 DEF TwinThread

LEMMA TwinSlugFliesMoves ==
  ASSUME TwinFormed, TwinStaged, TwinFit, NEW x \in Seats, Twin!SlugFlies(x)
  PROVE  TwinMoves(Other(x))
<1> DEFINE y == Other(x)
           v == TwinThread(y)
           ahead == {c \in Twin!InLane(y, twinSlug.lane) : c[1] >= twinSlug.row}
<1>1. y \in Seats /\ Other(y) = x /\ Other(x) = y /\ y # x /\ Twin!Other(x) = y
  BY TwinSeatsAre
<1>2. /\ twinSlug # NoSlug /\ twinAgenda # <<>> /\ Head(twinAgenda) = <<"resolve", x>>
      /\ UNCHANGED <<twinShip, twinClock, twinPhase, twinAgenda, twinTodo, twinMult>>
      /\ UNCHANGED <<twinShield, twinTally, twinCharge, twinShots, twinDamage, twinPin, twinLoop>>
  BY  TwinConstants DEF Twin!SlugFlies, Twin!guns
<1>3. \/ /\ ahead = {} /\ Twin!StrikeHull(y, twinSlug.raw) /\ twinSlug' = NoSlug
      \/ \E c \in Foremost(ahead) :
           /\ Twin!Strike(y, [d \in {c} |-> twinSlug.raw], "rail")
           /\ twinSlug' = IF Twin!AfterHit(y, c, "rail", twinSlug.raw) = 0 /\ Twin!Carry(y, c) > 0
                       THEN SlugPast(twinSlug, c[1] + 1, Twin!Carry(y, c))
                       ELSE NoSlug
  BY <1>1, TwinConstants DEF Twin!SlugFlies, SlugPast
<1>4. /\ TwinVolley(y) = "due" /\ TwinVolley(y)' = "due" /\ TwinSlugTo(y) = twinSlug
      /\ TwinSlugTo(y)' = twinSlug'
      /\ TwinCare(y)' = TwinCare(y) /\ TwinRepairs(y)' = TwinRepairs(y)
  BY <1>2, TwinInVolley
<1>5. /\ v.ship = twinShip[y] /\ v.gun = twinShip[x] /\ v.damage = twinDamage[x]
      /\ v.pin = twinPin[y]
      /\ v.shots = twinShots[x] /\ v.shield = twinShield[y] /\ v.tally = twinTally[y]
      /\ v.hull = twinHull[y] /\ v.hp = twinHp[y] /\ v.dead = twinDead[y]
      /\ v.slug = twinSlug /\ v.volley = "due" /\ v.upkeep = TwinCare(y) /\ v.todo = TwinRepairs(y)
  BY <1>1, <1>4, TwinThreadHas
<1> HIDE DEF v, y
<1>6. On(v)!InLane(0, twinSlug.lane) = Twin!InLane(y, twinSlug.lane)
  BY <1>1, <1>5, TwinHitsAre
<1>7. Onward(v) = SlugOn(v) /\ Busy(v)
  BY <1>2, <1>5 DEF Onward, Busy
<1>8. CASE ahead = {}
  <2>1. Twin!StrikeHull(y, twinSlug.raw) /\ twinSlug' = NoSlug
    BY <1>3, <1>8 DEF Foremost
  <2>2. /\ twinHull' = [twinHull EXCEPT ![y] = Twin!HullHit(y, twinSlug.raw)]
        /\ twinHp' = twinHp /\ twinDead' = twinDead
    BY <2>1 DEF Twin!StrikeHull
  <2>3. On(v)!HullHit(0, twinSlug.raw) = Twin!HullHit(y, twinSlug.raw)
    BY <1>1, <1>5, TwinHullHitIs
  <2> DEFINE w == Bout(twinShip[y], twinShip[x], twinDamage[x], twinPin[y], twinShots[x],
                       twinShield[y],
                       twinTally[y], Twin!HullHit(y, twinSlug.raw), twinHp[y], twinDead[y],
                       NoSlug, "due",
                       TwinCare(y), TwinRepairs(y))
  <2>4. SlugOn(v) = w
    <3>1. SlugOn(v) = After(v, v.shots, v.shield, v.tally, On(v)!HullHit(0, v.slug.raw), v.hp,
                            v.dead, NoSlug)
      BY <1>5, <1>6, <1>8 DEF SlugOn
    <3> QED BY <1>5, <2>3, <3>1 DEF After
  <2>5. TwinThread(y)' = w
    BY <1>1, <1>2, <1>4, <2>1, <2>2 DEF TwinThread, TwinFormed, OfSeats
  <2>6. twinHull'[x] = twinHull[x] /\ OfSeats(twinHull')
    BY <1>1, <2>2 DEF TwinFormed, OfSeats
  <2>7. TwinThread(x)' = TwinThread(x)
    BY <1>1, <1>2, <2>2, <2>6, TwinBystander
  <2>8. TwinFormed' /\ TwinStaged'
    BY <1>2, <2>1, <2>2, <2>6 DEF TwinFormed, TwinStaged
  <2> HIDE DEF w
  <2> QED BY <1>1, <1>2, <1>7, <2>4, <2>5, <2>7, <2>8 DEF TwinMoves, v, y
<1>9. CASE ahead # {}
  <2>1. PICK c \in Foremost(ahead) :
          /\ Twin!Strike(y, [d \in {c} |-> twinSlug.raw], "rail")
          /\ twinSlug' = IF Twin!AfterHit(y, c, "rail", twinSlug.raw) = 0 /\ Twin!Carry(y, c) > 0
                      THEN SlugPast(twinSlug, c[1] + 1, Twin!Carry(y, c))
                      ELSE NoSlug
    BY <1>3, <1>9
  <2>2. c = One(Foremost(ahead))
    <3>1. Twin!InLane(y, twinSlug.lane) \subseteq twinShip[y].occupied
      BY DEF Twin!InLane, Twin!Alive
    <3>2. ahead \subseteq {d \in Cells : d[2] = twinSlug.lane}
      BY <1>1, <3>1, TakenCell DEF TwinFit, Twin!InLane
    <3> HIDE DEF ahead
    <3> QED BY <3>2, OneIs
  <2> DEFINE dose == [d \in {c} |-> twinSlug.raw]
             w == Bout(twinShip[y], twinShip[x], twinDamage[x], twinPin[y], twinShots[x],
                       twinShield[y],
                       twinTally[y], twinHull[y], HpLeft(v, dose, "rail"),
                       DeadThen(v, dose, "rail"), twinSlug', "due", TwinCare(y), TwinRepairs(y))
  <2>3. Twin!Strike(y, dose, "rail")
    BY <2>1
  <2>4. /\ \A kind, raw : On(v)!AfterHit(0, c, kind, raw) = Twin!AfterHit(y, c, kind, raw)
        /\ On(v)!Carry(0, c) = Twin!Carry(y, c)
    BY <1>1, <1>5, TwinHitsAre, TwinCarryIs
  <2>5. SlugOn(v) = w
    <3>1. SlugOn(v) = After(v, v.shots, v.shield, v.tally, v.hull, HpLeft(v, dose, "rail"),
                            DeadThen(v, dose, "rail"), twinSlug')
      BY <1>5, <1>6, <1>9, <2>1, <2>2, <2>4 DEF SlugOn
    <3> QED BY <1>5, <3>1 DEF After
  <2> HIDE DEF dose, ahead
  <2>6. /\ twinHp'[y] = HpLeft(v, dose, "rail") /\ twinDead'[y] = DeadThen(v, dose, "rail")
        /\ twinHp'[x] = twinHp[x] /\ twinDead'[x] = twinDead[x]
        /\ OfSeats(twinHp') /\ OfSeats(twinDead') /\ twinHull' = twinHull
    BY <1>1, <1>5, <2>3, TwinStrikeIs
  <2>7. TwinThread(y)' = w
    BY <1>1, <1>2, <1>4, <2>6 DEF TwinThread
  <2>8. TwinThread(x)' = TwinThread(x)
    BY <1>1, <1>2, <2>6, TwinBystander
  <2>9. TwinFormed' /\ TwinStaged'
    BY <1>2, <2>6 DEF TwinFormed, TwinStaged
  <2> HIDE DEF w
  <2> QED BY <1>1, <1>2, <1>7, <2>5, <2>7, <2>8, <2>9 DEF TwinMoves, v, y
<1> QED BY <1>8, <1>9

LEMMA ShootMoves ==
  ASSUME Formed, Staged, Fit, NEW x \in Seats, NEW p, Shoot(x, p)
  PROVE  Moves(Other(x))
<1> DEFINE y == Other(x)
           v == Thread(y)
           kind == Stats(ship[x], p).kind
           lane == GunCell(ship[x], p)[2]
           soak == AtMost(shield[y], damage[x][p])
           raw == damage[x][p] - soak
           fired == [shots[x] EXCEPT ![p] = shots[x][p] - 1]
           tried == TallyAfter(y, kind)
           worn == shield[y] - soak
           met == InLane(y, lane)
           dose == IF kind = "laser" THEN [d \in {One(Foremost(met))} |-> raw]
                   ELSE Burst(y, One(Deepest(met)), raw)
           w(shield_, tally_, hull_, hp_, dead_, slug_) ==
             Bout(ship[y], ship[x], damage[x], pin[y], fired, shield_, tally_, hull_, hp_,
                  dead_, slug_, "due", Care(y), Repairs(y))
<1>1. y \in Seats /\ Other(y) = x /\ Other(x) = y /\ y # x /\ Other(x) = y
  BY SeatsAre
<1>2. /\ agenda # <<>> /\ Head(agenda) = <<"resolve", x>> /\ slug = NoSlug
      /\ todo = {} /\ p \in Guns(ship[x]) /\ shots[x][p] > 0
      /\ \A q \in Guns(ship[x]) : shots[x][q] > 0 => p <= q
      /\ shots' = [shots EXCEPT ![x][p] = shots[x][p] - 1]
      /\ UNCHANGED <<ship, clock, phase, agenda, todo, mult>>
      /\ UNCHANGED <<charge, damage, pin, loop>>
  BY DEF Shoot, Doing, NextGun
<1>3. IF hull[y] = 0
      THEN UNCHANGED <<hull, shield, tally, hp, dead, slug>>
      ELSE /\ tally' = [tally EXCEPT ![y] = tried]
           /\ IF Dodged(y, kind)
              THEN UNCHANGED <<hull, shield, hp, dead, slug>>
              ELSE /\ shield' = [shield EXCEPT ![y] = shield[y] - soak]
                   /\ IF soak > 0 /\ soak = damage[x][p]
                      THEN UNCHANGED <<hull, hp, dead, slug>>
                      ELSE Land(y, lane, kind, raw)
  BY <1>1 DEF Shoot, body
<1>4. /\ Volley(y) = "due" /\ Volley(y)' = "due" /\ SlugTo(y) = slug /\ SlugTo(y)' = slug'
      /\ Care(y)' = Care(y) /\ Repairs(y)' = Repairs(y)
  BY <1>2, InVolley
<1>5. /\ v.ship = ship[y] /\ v.gun = ship[x] /\ v.damage = damage[x] /\ v.pin = pin[y]
      /\ v.shots = shots[x] /\ v.shield = shield[y] /\ v.tally = tally[y]
      /\ v.hull = hull[y] /\ v.hp = hp[y] /\ v.dead = dead[y]
      /\ v.slug = NoSlug /\ v.volley = "due" /\ v.upkeep = Care(y) /\ v.todo = Repairs(y)
  BY <1>1, <1>2, <1>4, ThreadHas
<1> HIDE DEF v, y
<1>6. Onward(v) = ShotAt(v, p) /\ Busy(v)
  <2>1. TheGun(v) = p
    BY <1>2, <1>5, TheGunIs DEF Fit
  <2> QED BY <1>2, <1>5, <2>1 DEF Onward, Busy
<1>7. /\ On(v)!InLane(0, lane) = met
      /\ \A c, r : On(v)!Burst(0, c, r) = Burst(y, c, r)
      /\ On(v)!Dodged(0, kind) = Dodged(y, kind)
      /\ On(v)!TallyAfter(0, kind) = tried
      /\ On(v)!HullHit(0, raw) = HullHit(y, raw)
  BY <1>1, <1>5, HitsAre, DodgesAre, HullHitIs
<1>8. /\ shots'[x] = fired /\ shots'[y] = shots[y] /\ OfSeats(shots')
  BY <1>1, <1>2 DEF Formed, OfSeats
<1> HIDE DEF kind, lane, fired, tried, met
<1>9. ShotAt(v, p) =
        IF hull[y] = 0
        THEN w(shield[y], tally[y], hull[y], hp[y], dead[y], NoSlug)
        ELSE IF Dodged(y, kind)
        THEN w(shield[y], tried, hull[y], hp[y], dead[y], NoSlug)
        ELSE IF soak > 0 /\ soak = damage[x][p]
        THEN w(worn, tried, hull[y], hp[y], dead[y], NoSlug)
        ELSE IF kind = "rail"
        THEN w(worn, tried, hull[y], hp[y], dead[y],
               [lane |-> lane, row |-> 0, raw |-> raw])
        ELSE IF met = {}
        THEN w(worn, tried, HullHit(y, raw), hp[y], dead[y], NoSlug)
        ELSE w(worn, tried, hull[y], HpLeft(v, dose, kind), DeadThen(v, dose, kind), NoSlug)
  BY <1>5, <1>7 DEF ShotAt, After, kind, lane, fired
<1> HIDE DEF soak, raw, worn
<1>10. Thread(y)' = w(shield'[y], tally'[y], hull'[y], hp'[y], dead'[y], slug')
  BY <1>1, <1>2, <1>4, <1>8 DEF Thread
<1>11. ASSUME shield'[x] = shield[x], tally'[x] = tally[x], hull'[x] = hull[x],
              hp'[x] = hp[x], dead'[x] = dead[x],
              OfSeats(shield'), OfSeats(tally'), OfSeats(hull'), OfSeats(hp'), OfSeats(dead'),
              ShotAt(v, p) = w(shield'[y], tally'[y], hull'[y], hp'[y], dead'[y], slug')
       PROVE  Moves(y)
  <2> HIDE DEF w
  <2>1. Thread(x)' = Thread(x)
    BY <1>1, <1>2, <1>8, <1>11, Bystander
  <2>2. Formed'
    BY <1>2, <1>8, <1>11 DEF Formed
  <2>3. Staged'
    BY <1>2 DEF Staged
  <2> QED BY <1>1, <1>2, <1>6, <1>10, <1>11, <2>1, <2>2, <2>3 DEF Moves, v, y
<1>12. CASE hull[y] = 0
  <2>1. UNCHANGED <<hull, shield, tally, hp, dead, slug>>
    BY <1>3, <1>12
  <2>2. ShotAt(v, p) = w(shield[y], tally[y], hull[y], hp[y], dead[y], NoSlug)
    BY <1>9, <1>12
  <2> HIDE DEF w
  <2> QED BY <1>2, <1>11, <2>1, <2>2 DEF Formed, y
<1>13. CASE hull[y] # 0 /\ Dodged(y, kind)
  <2>1. UNCHANGED <<hull, shield, hp, dead, slug>> /\ tally' = [tally EXCEPT ![y] = tried]
    BY <1>3, <1>13
  <2>2. ShotAt(v, p) = w(shield[y], tried, hull[y], hp[y], dead[y], NoSlug)
    BY <1>9, <1>13
  <2>3. tally'[y] = tried /\ tally'[x] = tally[x] /\ OfSeats(tally')
    BY <1>1, <2>1 DEF Formed, OfSeats
  <2> HIDE DEF w
  <2> QED BY <1>2, <1>11, <2>1, <2>2, <2>3 DEF Formed, y
<1>14. CASE hull[y] # 0 /\ \lnot Dodged(y, kind)
  <2>1. /\ tally' = [tally EXCEPT ![y] = tried]
        /\ shield' = [shield EXCEPT ![y] = worn]
        /\ IF soak > 0 /\ soak = damage[x][p]
           THEN UNCHANGED <<hull, hp, dead, slug>>
           ELSE Land(y, lane, kind, raw)
    BY <1>3, <1>14 DEF worn
  <2>2. /\ tally'[y] = tried /\ tally'[x] = tally[x] /\ OfSeats(tally')
        /\ shield'[y] = worn /\ shield'[x] = shield[x] /\ OfSeats(shield')
    BY <1>1, <2>1 DEF Formed, OfSeats
  <2>3. CASE soak > 0 /\ soak = damage[x][p]
    <3>1. UNCHANGED <<hull, hp, dead, slug>>
      BY <2>1, <2>3
    <3>2. ShotAt(v, p) = w(worn, tried, hull[y], hp[y], dead[y], NoSlug)
      BY <1>9, <1>14, <2>3
    <3> HIDE DEF w
    <3> QED BY <1>2, <1>11, <2>2, <3>1, <3>2 DEF Formed, y
  <2>4. CASE \lnot (soak > 0 /\ soak = damage[x][p]) /\ kind = "rail"
    <3>1. Land(y, lane, kind, raw)
      BY <2>1, <2>4
    <3>2. UNCHANGED <<hull, hp, dead>> /\ slug' = [lane |-> lane, row |-> 0, raw |-> raw]
      BY <2>4, <3>1 DEF Land
    <3>3. ShotAt(v, p) = w(worn, tried, hull[y], hp[y], dead[y],
                           [lane |-> lane, row |-> 0, raw |-> raw])
      BY <1>9, <1>14, <2>4
    <3> HIDE DEF w
    <3> QED BY <1>2, <1>11, <2>2, <3>2, <3>3 DEF Formed, y
  <2>5. CASE \lnot (soak > 0 /\ soak = damage[x][p]) /\ kind # "rail" /\ met = {}
    <3>1. Land(y, lane, kind, raw)
      BY <2>1, <2>5
    <3>2. StrikeHull(y, raw) /\ slug' = slug
      BY <2>5, <3>1 DEF Land, met
    <3>3. /\ hull' = [hull EXCEPT ![y] = HullHit(y, raw)]
          /\ hp' = hp /\ dead' = dead
      BY <3>2 DEF StrikeHull
    <3>4. ShotAt(v, p) = w(worn, tried, HullHit(y, raw), hp[y], dead[y], NoSlug)
      BY <1>9, <1>14, <2>5
    <3>5. hull'[y] = HullHit(y, raw) /\ hull'[x] = hull[x] /\ OfSeats(hull')
      BY <1>1, <3>3 DEF Formed, OfSeats
    <3> HIDE DEF w
    <3> QED BY <1>2, <1>11, <2>2, <3>2, <3>3, <3>4, <3>5 DEF Formed, y
  <2>6. CASE \lnot (soak > 0 /\ soak = damage[x][p]) /\ kind # "rail" /\ met # {}
    <3>1. Land(y, lane, kind, raw)
      BY <2>1, <2>6
    <3>2. met \subseteq {d \in Cells : d[2] = lane}
      <4>1. met \subseteq ship[y].occupied /\ \A d \in met : d[2] = lane
        BY DEF met, InLane, Alive
      <4> QED BY <1>1, <4>1, TakenCell DEF Fit
    <3>3. Strike(y, dose, kind) /\ slug' = slug
      <4>1. CASE kind = "laser"
        <5>1. PICK c \in Foremost(met) : Strike(y, [d \in {c} |-> raw], kind)
          BY <2>6, <3>1, <4>1 DEF Land, met
        <5>2. c = One(Foremost(met))
          BY <3>2, OneIs
        <5>3. dose = [d \in {c} |-> raw]
          BY <4>1, <5>2
        <5> HIDE DEF dose
        <5> QED BY <2>6, <3>1, <4>1, <5>1, <5>3 DEF Land, met
      <4>2. CASE kind # "laser"
        <5>1. PICK c \in Deepest(met) : Strike(y, Burst(y, c, raw), kind)
          BY <2>6, <3>1, <4>2 DEF Land, met
        <5>2. c = One(Deepest(met))
          BY <3>2, OneIs
        <5>3. dose = Burst(y, c, raw)
          BY <4>2, <5>2
        <5> HIDE DEF dose
        <5> QED BY <2>6, <3>1, <4>2, <5>1, <5>3 DEF Land, met
      <4> QED BY <4>1, <4>2
    <3>4. ShotAt(v, p) = w(worn, tried, hull[y], HpLeft(v, dose, kind),
                           DeadThen(v, dose, kind), NoSlug)
      BY <1>9, <1>14, <2>6
    <3> HIDE DEF w, dose
    <3>5. /\ hp'[y] = HpLeft(v, dose, kind) /\ dead'[y] = DeadThen(v, dose, kind)
          /\ hp'[x] = hp[x] /\ dead'[x] = dead[x]
          /\ OfSeats(hp') /\ OfSeats(dead') /\ hull' = hull
      BY <1>1, <1>5, <3>3, StrikeIs
    <3> QED BY <1>2, <1>11, <2>2, <3>3, <3>4, <3>5 DEF Formed, y
  <2> QED BY <2>3, <2>4, <2>5, <2>6
<1> QED BY <1>12, <1>13, <1>14 DEF y

\* What a second goes on with is the next thing that happens to one of the ships.
LEMMA GoesMoves ==
  ASSUME Formed, Staged, Fit, Goes
  PROVE  \E y \in Seats : Moves(y)
<1>1. PICK x \in Seats :
        \/ \E p \in Guns(ship[x]) : Shoot(x, p)
        \/ SlugFlies(x) \/ VolleyOver(x)
        \/ Upkeep(x) \/ \E c \in Cells : Repair(x, c)
  BY DEF Goes
<1>2. Other(x) \in Seats
  BY SeatsAre
<1> QED BY <1>1, <1>2, ShootMoves, SlugFliesMoves, VolleyOverMoves, UpkeepMoves,
           RepairMoves

LEMMA TwinShootMoves ==
  ASSUME TwinFormed, TwinStaged, TwinFit, NEW x \in Seats, NEW p, Twin!Shoot(x, p)
  PROVE  TwinMoves(Other(x))
<1> DEFINE y == Other(x)
           v == TwinThread(y)
           kind == Stats(twinShip[x], p).kind
           lane == GunCell(twinShip[x], p)[2]
           soak == AtMost(twinShield[y], twinDamage[x][p])
           raw == twinDamage[x][p] - soak
           fired == [twinShots[x] EXCEPT ![p] = twinShots[x][p] - 1]
           tried == Twin!TallyAfter(y, kind)
           worn == twinShield[y] - soak
           met == Twin!InLane(y, lane)
           dose == IF kind = "laser" THEN [d \in {One(Foremost(met))} |-> raw]
                   ELSE Twin!Burst(y, One(Deepest(met)), raw)
           w(shield_, tally_, hull_, hp_, dead_, slug_) ==
             Bout(twinShip[y], twinShip[x], twinDamage[x], twinPin[y], fired, shield_, tally_,
                  hull_, hp_,
                  dead_, slug_, "due", TwinCare(y), TwinRepairs(y))
<1>1. y \in Seats /\ Other(y) = x /\ Other(x) = y /\ y # x /\ Twin!Other(x) = y
  BY TwinSeatsAre
<1>2. /\ twinAgenda # <<>> /\ Head(twinAgenda) = <<"resolve", x>> /\ twinSlug = NoSlug
      /\ twinTodo = {} /\ p \in Guns(twinShip[x]) /\ twinShots[x][p] > 0
      /\ \A q \in Guns(twinShip[x]) : twinShots[x][q] > 0 => p <= q
      /\ twinShots' = [twinShots EXCEPT ![x][p] = twinShots[x][p] - 1]
      /\ UNCHANGED <<twinShip, twinClock, twinPhase, twinAgenda, twinTodo, twinMult>>
      /\ UNCHANGED <<twinCharge, twinDamage, twinPin, twinLoop>>
  BY  TwinConstants DEF Twin!Shoot, Twin!Doing, Twin!NextGun
<1>3. IF twinHull[y] = 0
      THEN UNCHANGED <<twinHull, twinShield, twinTally, twinHp, twinDead, twinSlug>>
      ELSE /\ twinTally' = [twinTally EXCEPT ![y] = tried]
           /\ IF Twin!Dodged(y, kind)
              THEN UNCHANGED <<twinHull, twinShield, twinHp, twinDead, twinSlug>>
              ELSE /\ twinShield' = [twinShield EXCEPT ![y] = twinShield[y] - soak]
                   /\ IF soak > 0 /\ soak = twinDamage[x][p]
                      THEN UNCHANGED <<twinHull, twinHp, twinDead, twinSlug>>
                      ELSE Twin!Land(y, lane, kind, raw)
  BY <1>1, TwinConstants DEF Twin!Shoot, Twin!body
<1>4. /\ TwinVolley(y) = "due" /\ TwinVolley(y)' = "due" /\ TwinSlugTo(y) = twinSlug
      /\ TwinSlugTo(y)' = twinSlug'
      /\ TwinCare(y)' = TwinCare(y) /\ TwinRepairs(y)' = TwinRepairs(y)
  BY <1>2, TwinInVolley
<1>5. /\ v.ship = twinShip[y] /\ v.gun = twinShip[x] /\ v.damage = twinDamage[x]
      /\ v.pin = twinPin[y]
      /\ v.shots = twinShots[x] /\ v.shield = twinShield[y] /\ v.tally = twinTally[y]
      /\ v.hull = twinHull[y] /\ v.hp = twinHp[y] /\ v.dead = twinDead[y]
      /\ v.slug = NoSlug /\ v.volley = "due" /\ v.upkeep = TwinCare(y) /\ v.todo = TwinRepairs(y)
  BY <1>1, <1>2, <1>4, TwinThreadHas
<1> HIDE DEF v, y
<1>6. Onward(v) = ShotAt(v, p) /\ Busy(v)
  <2>1. TheGun(v) = p
    BY <1>2, <1>5, TheGunIs DEF TwinFit
  <2> QED BY <1>2, <1>5, <2>1 DEF Onward, Busy
<1>7. /\ On(v)!InLane(0, lane) = met
      /\ \A c, r : On(v)!Burst(0, c, r) = Twin!Burst(y, c, r)
      /\ On(v)!Dodged(0, kind) = Twin!Dodged(y, kind)
      /\ On(v)!TallyAfter(0, kind) = tried
      /\ On(v)!HullHit(0, raw) = Twin!HullHit(y, raw)
  BY <1>1, <1>5, TwinHitsAre, TwinDodgesAre, TwinHullHitIs
<1>8. /\ twinShots'[x] = fired /\ twinShots'[y] = twinShots[y] /\ OfSeats(twinShots')
  BY <1>1, <1>2 DEF TwinFormed, OfSeats
<1> HIDE DEF kind, lane, fired, tried, met
<1>9. ShotAt(v, p) =
        IF twinHull[y] = 0
        THEN w(twinShield[y], twinTally[y], twinHull[y], twinHp[y], twinDead[y], NoSlug)
        ELSE IF Twin!Dodged(y, kind)
        THEN w(twinShield[y], tried, twinHull[y], twinHp[y], twinDead[y], NoSlug)
        ELSE IF soak > 0 /\ soak = twinDamage[x][p]
        THEN w(worn, tried, twinHull[y], twinHp[y], twinDead[y], NoSlug)
        ELSE IF kind = "rail"
        THEN w(worn, tried, twinHull[y], twinHp[y], twinDead[y],
               [lane |-> lane, row |-> 0, raw |-> raw])
        ELSE IF met = {}
        THEN w(worn, tried, Twin!HullHit(y, raw), twinHp[y], twinDead[y], NoSlug)
        ELSE w(worn, tried, twinHull[y], HpLeft(v, dose, kind), DeadThen(v, dose, kind), NoSlug)
  BY <1>5, <1>7 DEF ShotAt, After, kind, lane, fired
<1> HIDE DEF soak, raw, worn
<1>10. TwinThread(y)' = w(twinShield'[y], twinTally'[y], twinHull'[y], twinHp'[y], twinDead'[y],
                          twinSlug')
  BY <1>1, <1>2, <1>4, <1>8 DEF TwinThread
<1>11. ASSUME twinShield'[x] = twinShield[x], twinTally'[x] = twinTally[x],
              twinHull'[x] = twinHull[x],
              twinHp'[x] = twinHp[x], twinDead'[x] = twinDead[x],
              OfSeats(twinShield'), OfSeats(twinTally'), OfSeats(twinHull'), OfSeats(twinHp'),
              OfSeats(twinDead'),
              ShotAt(v, p) = w(twinShield'[y], twinTally'[y], twinHull'[y], twinHp'[y],
                               twinDead'[y], twinSlug')
       PROVE  TwinMoves(y)
  <2> HIDE DEF w
  <2>1. TwinThread(x)' = TwinThread(x)
    BY <1>1, <1>2, <1>8, <1>11, TwinBystander
  <2>2. TwinFormed'
    BY <1>2, <1>8, <1>11 DEF TwinFormed
  <2>3. TwinStaged'
    BY <1>2 DEF TwinStaged
  <2> QED BY <1>1, <1>2, <1>6, <1>10, <1>11, <2>1, <2>2, <2>3 DEF TwinMoves, v, y
<1>12. CASE twinHull[y] = 0
  <2>1. UNCHANGED <<twinHull, twinShield, twinTally, twinHp, twinDead, twinSlug>>
    BY <1>3, <1>12
  <2>2. ShotAt(v, p) = w(twinShield[y], twinTally[y], twinHull[y], twinHp[y], twinDead[y], NoSlug)
    BY <1>9, <1>12
  <2> HIDE DEF w
  <2> QED BY <1>2, <1>11, <2>1, <2>2 DEF TwinFormed, y
<1>13. CASE twinHull[y] # 0 /\ Twin!Dodged(y, kind)
  <2>1. UNCHANGED <<twinHull, twinShield, twinHp, twinDead, twinSlug>>
        /\ twinTally' = [twinTally EXCEPT ![y] = tried]
    BY <1>3, <1>13
  <2>2. ShotAt(v, p) = w(twinShield[y], tried, twinHull[y], twinHp[y], twinDead[y], NoSlug)
    BY <1>9, <1>13
  <2>3. twinTally'[y] = tried /\ twinTally'[x] = twinTally[x] /\ OfSeats(twinTally')
    BY <1>1, <2>1 DEF TwinFormed, OfSeats
  <2> HIDE DEF w
  <2> QED BY <1>2, <1>11, <2>1, <2>2, <2>3 DEF TwinFormed, y
<1>14. CASE twinHull[y] # 0 /\ \lnot Twin!Dodged(y, kind)
  <2>1. /\ twinTally' = [twinTally EXCEPT ![y] = tried]
        /\ twinShield' = [twinShield EXCEPT ![y] = worn]
        /\ IF soak > 0 /\ soak = twinDamage[x][p]
           THEN UNCHANGED <<twinHull, twinHp, twinDead, twinSlug>>
           ELSE Twin!Land(y, lane, kind, raw)
    BY <1>3, <1>14 DEF worn
  <2>2. /\ twinTally'[y] = tried /\ twinTally'[x] = twinTally[x] /\ OfSeats(twinTally')
        /\ twinShield'[y] = worn /\ twinShield'[x] = twinShield[x] /\ OfSeats(twinShield')
    BY <1>1, <2>1 DEF TwinFormed, OfSeats
  <2>3. CASE soak > 0 /\ soak = twinDamage[x][p]
    <3>1. UNCHANGED <<twinHull, twinHp, twinDead, twinSlug>>
      BY <2>1, <2>3
    <3>2. ShotAt(v, p) = w(worn, tried, twinHull[y], twinHp[y], twinDead[y], NoSlug)
      BY <1>9, <1>14, <2>3
    <3> HIDE DEF w
    <3> QED BY <1>2, <1>11, <2>2, <3>1, <3>2 DEF TwinFormed, y
  <2>4. CASE \lnot (soak > 0 /\ soak = twinDamage[x][p]) /\ kind = "rail"
    <3>1. Twin!Land(y, lane, kind, raw)
      BY <2>1, <2>4
    <3>2. UNCHANGED <<twinHull, twinHp, twinDead>>
          /\ twinSlug' = [lane |-> lane, row |-> 0, raw |-> raw]
      BY <2>4, <3>1 DEF Twin!Land
    <3>3. ShotAt(v, p) = w(worn, tried, twinHull[y], twinHp[y], twinDead[y],
                           [lane |-> lane, row |-> 0, raw |-> raw])
      BY <1>9, <1>14, <2>4
    <3> HIDE DEF w
    <3> QED BY <1>2, <1>11, <2>2, <3>2, <3>3 DEF TwinFormed, y
  <2>5. CASE \lnot (soak > 0 /\ soak = twinDamage[x][p]) /\ kind # "rail" /\ met = {}
    <3>1. Twin!Land(y, lane, kind, raw)
      BY <2>1, <2>5
    <3>2. Twin!StrikeHull(y, raw) /\ twinSlug' = twinSlug
      BY <2>5, <3>1 DEF Twin!Land, met
    <3>3. /\ twinHull' = [twinHull EXCEPT ![y] = Twin!HullHit(y, raw)]
          /\ twinHp' = twinHp /\ twinDead' = twinDead
      BY <3>2 DEF Twin!StrikeHull
    <3>4. ShotAt(v, p) = w(worn, tried, Twin!HullHit(y, raw), twinHp[y], twinDead[y], NoSlug)
      BY <1>9, <1>14, <2>5
    <3>5. twinHull'[y] = Twin!HullHit(y, raw) /\ twinHull'[x] = twinHull[x] /\ OfSeats(twinHull')
      BY <1>1, <3>3 DEF TwinFormed, OfSeats
    <3> HIDE DEF w
    <3> QED BY <1>2, <1>11, <2>2, <3>2, <3>3, <3>4, <3>5 DEF TwinFormed, y
  <2>6. CASE \lnot (soak > 0 /\ soak = twinDamage[x][p]) /\ kind # "rail" /\ met # {}
    <3>1. Twin!Land(y, lane, kind, raw)
      BY <2>1, <2>6
    <3>2. met \subseteq {d \in Cells : d[2] = lane}
      <4>1. met \subseteq twinShip[y].occupied /\ \A d \in met : d[2] = lane
        BY DEF met, Twin!InLane, Twin!Alive
      <4> QED BY <1>1, <4>1, TakenCell DEF TwinFit
    <3>3. Twin!Strike(y, dose, kind) /\ twinSlug' = twinSlug
      <4>1. CASE kind = "laser"
        <5>1. PICK c \in Foremost(met) : Twin!Strike(y, [d \in {c} |-> raw], kind)
          BY <2>6, <3>1, <4>1, TwinConstants DEF Twin!Land, met
        <5>2. c = One(Foremost(met))
          BY <3>2, OneIs
        <5>3. dose = [d \in {c} |-> raw]
          BY <4>1, <5>2
        <5> HIDE DEF dose
        <5> QED BY <2>6, <3>1, <4>1, <5>1, <5>3 DEF Twin!Land, met
      <4>2. CASE kind # "laser"
        <5>1. PICK c \in Deepest(met) : Twin!Strike(y, Twin!Burst(y, c, raw), kind)
          BY <2>6, <3>1, <4>2, TwinConstants DEF Twin!Land, met
        <5>2. c = One(Deepest(met))
          BY <3>2, OneIs
        <5>3. dose = Twin!Burst(y, c, raw)
          BY <4>2, <5>2
        <5> HIDE DEF dose
        <5> QED BY <2>6, <3>1, <4>2, <5>1, <5>3 DEF Twin!Land, met
      <4> QED BY <4>1, <4>2
    <3>4. ShotAt(v, p) = w(worn, tried, twinHull[y], HpLeft(v, dose, kind),
                           DeadThen(v, dose, kind), NoSlug)
      BY <1>9, <1>14, <2>6
    <3> HIDE DEF w, dose
    <3>5. /\ twinHp'[y] = HpLeft(v, dose, kind) /\ twinDead'[y] = DeadThen(v, dose, kind)
          /\ twinHp'[x] = twinHp[x] /\ twinDead'[x] = twinDead[x]
          /\ OfSeats(twinHp') /\ OfSeats(twinDead') /\ twinHull' = twinHull
      BY <1>1, <1>5, <3>3, TwinStrikeIs
    <3> QED BY <1>2, <1>11, <2>2, <3>3, <3>4, <3>5 DEF TwinFormed, y
  <2> QED BY <2>3, <2>4, <2>5, <2>6
<1> QED BY <1>12, <1>13, <1>14 DEF y

\* In the twin: what a second goes on with is the next thing that happens to one of the ships.
LEMMA TwinGoesMoves ==
  ASSUME TwinFormed, TwinStaged, TwinFit, Twin!Goes
  PROVE  \E y \in Seats : TwinMoves(y)
<1>1. PICK x \in Seats :
        \/ \E p \in Guns(twinShip[x]) : Twin!Shoot(x, p)
        \/ Twin!SlugFlies(x) \/ Twin!VolleyOver(x)
        \/ Twin!Upkeep(x) \/ \E c \in Cells : Twin!Repair(x, c)
  BY  TwinConstants DEF Twin!Goes
<1>2. Other(x) \in Seats
  BY TwinSeatsAre
<1> QED BY <1>1, <1>2, TwinShootMoves, TwinSlugFliesMoves, TwinVolleyOverMoves, TwinUpkeepMoves,
           TwinRepairMoves

-----------------------------------------------------------------------------
(* What the power of a second does to a ship.                              *)

\* What is a ship's own, and what its power changes of it.
LotOf(shots_, damage_, charge_, pin_, hp_, dead_, loop_) ==
  [shots |-> shots_, damage |-> damage_, charge |-> charge_, pin |-> pin_,
   hp |-> hp_, dead |-> dead_, loop |-> loop_]

\* A ship as its power finds it.
DeckOf(ship_, hull_, foe_, mult_, hp_, dead_, charge_, loop_) ==
  [ship |-> ship_, hull |-> hull_, foe |-> foe_, mult |-> mult_, hp |-> hp_,
   dead |-> dead_, charge |-> charge_, loop |-> loop_]

Melts(v, ring) == ring # {} /\ On(v)!LoopAge(0, ring) >= MeltAge

Powered(v, feed, ring) ==
  LotOf([p \in Guns(v.ship) |-> On(v)!VolleyOf(0, p, feed)],
      [p \in Guns(v.ship) |-> On(v)!ShotDamage(0, p)],
      [p \in Guns(v.ship) |-> On(v)!ChargeAfter(0, p, feed)],
      feed,
      IF Melts(v, ring) THEN [c \in Cells |-> IF c \in ring THEN 0 ELSE v.hp[c]] ELSE v.hp,
      IF Melts(v, ring) THEN v.dead \cup ring ELSE v.dead,
      IF ring = {} \/ Melts(v, ring) THEN NoLoop
      ELSE [cells |-> ring, age |-> On(v)!LoopAge(0, ring)])

LEMMA LotHas ==
  ASSUME NEW a1, NEW a2, NEW a3, NEW a4, NEW a5, NEW a6, NEW a7
  PROVE  LET v == LotOf(a1, a2, a3, a4, a5, a6, a7)
         IN /\ v.shots = a1 /\ v.damage = a2 /\ v.charge = a3 /\ v.pin = a4
            /\ v.hp = a5 /\ v.dead = a6 /\ v.loop = a7
BY DEF LotOf

LEMMA DeckHas ==
  ASSUME NEW a1, NEW a2, NEW a3, NEW a4, NEW a5, NEW a6, NEW a7, NEW a8
  PROVE  LET v == DeckOf(a1, a2, a3, a4, a5, a6, a7, a8)
         IN /\ v.ship = a1 /\ v.hull = a2 /\ v.foe = a3 /\ v.mult = a4
            /\ v.hp = a5 /\ v.dead = a6 /\ v.charge = a7 /\ v.loop = a8
BY DEF DeckOf

Deck(x) ==
  DeckOf(ship[x], hull[x], hull[Other(x)], mult[x], hp[x], dead[x], charge[x], loop[x])

Lot(x) == LotOf(shots[x], damage[x], charge[x], pin[x], hp[x], dead[x], loop[x])

LEMMA GunsAre ==
  ASSUME NEW x \in Seats, NEW v, v.ship = ship[x], v.hull = hull[x],
         v.foe = hull[Other(x)], v.mult = mult[x], v.hp = hp[x], v.dead = dead[x],
         v.charge = charge[x], v.loop = loop[x]
  PROVE  /\ \A p, feed : On(v)!VolleyOf(0, p, feed) = VolleyOf(x, p, feed)
         /\ \A p : On(v)!ShotDamage(0, p) = ShotDamage(x, p)
         /\ \A p, feed : On(v)!ChargeAfter(0, p, feed) = ChargeAfter(x, p, feed)
         /\ \A ring : On(v)!LoopAge(0, ring) = LoopAge(x, ring)
<1>1. On(v)!Alive(0) = Alive(x)
  BY HitsAre
<1>2. /\ \A cells : On(v)!Extent(cells) = Extent(cells)
      /\ \A s, p : On(v)!Stats(s, p) = Stats(s, p) /\ On(v)!GunCell(s, p) = GunCell(s, p)
      /\ \A n, most : On(v)!AtMost(n, most) = AtMost(n, most)
      /\ On(v)!MaxShots = MaxShots
  BY OnConstants DEF On!MaxShots, MaxShots
<1>3. \A p : On(v)!Whole(0, p) = Whole(x, p)
  BY <1>1, <1>2 DEF On!Whole, Whole, Seats
<1>4. \A c : On(v)!LaneClear(0, c) = LaneClear(x, c)
  BY <1>1 DEF On!LaneClear, LaneClear
<1>5. \A p : On(v)!Ready(0, p) = Ready(x, p)
  BY <1>2, <1>3, <1>4 DEF On!Ready, Ready, Seats
<1>6. \A p : On(v)!ShotDamage(0, p) = ShotDamage(x, p)
  BY <1>2, BoostIs DEF On!ShotDamage, ShotDamage, Seats
<1>7. \A p : On(v)!Decides(0, p) = Decides(x, p)
  <2>1. Other(x) = Other(x)
    BY SeatsAre
  <2> QED BY <1>6, <2>1 DEF On!Decides, Decides, On!Other, Seats
<1>8. \A p, feed : On(v)!Held(0, p, feed) = Held(x, p, feed)
  BY <1>2 DEF On!Held, Held, Seats
<1>9. \A p, feed : On(v)!VolleyOf(0, p, feed) = VolleyOf(x, p, feed)
  BY <1>2, <1>5, <1>7, <1>8 DEF On!VolleyOf, VolleyOf, Seats
<1>10. \A p, feed : On(v)!ChargeAfter(0, p, feed) = ChargeAfter(x, p, feed)
  BY <1>2, <1>5, <1>8, <1>9 DEF On!ChargeAfter, ChargeAfter, Seats
<1>11. \A ring : On(v)!LoopAge(0, ring) = LoopAge(x, ring)
  BY DEF On!LoopAge, LoopAge, Seats
<1> QED BY <1>6, <1>9, <1>10, <1>11

LEMMA PowerIs ==
  ASSUME Formed, NEW x \in Seats, NEW feed, NEW ring, Power(x, feed, ring)
  PROVE  /\ Lot(x)' = Powered(Deck(x), feed, ring)
         /\ Lot(Other(x))' = Lot(Other(x))
         /\ Formed'
         /\ agenda # <<>> /\ Head(agenda) = <<"power", x>> /\ slug = NoSlug /\ todo = {}
         /\ agenda' = Tail(agenda)
         /\ UNCHANGED <<ship, clock, phase, slug, todo, hull, shield, tally, mult>>
<1> DEFINE v == Deck(x)
           y == Other(x)
           g == Guns(ship[x])
           shots_ == [p \in g |-> VolleyOf(x, p, feed)]
           damage_ == [p \in g |-> ShotDamage(x, p)]
           charge_ == [p \in g |-> ChargeAfter(x, p, feed)]
           melts == ring # {} /\ LoopAge(x, ring) >= MeltAge
           hp_ == IF melts THEN [c \in Cells |-> IF c \in ring THEN 0 ELSE hp[x][c]] ELSE hp[x]
           dead_ == IF melts THEN dead[x] \cup ring ELSE dead[x]
           loop_ == IF ring = {} \/ melts THEN NoLoop
                    ELSE [cells |-> ring, age |-> LoopAge(x, ring)]
<1>1. y \in Seats /\ y # x /\ Other(y) = x
  BY SeatsAre
<1>2. /\ agenda # <<>> /\ Head(agenda) = <<"power", x>> /\ slug = NoSlug /\ todo = {}
      /\ agenda' = Tail(agenda)
      /\ UNCHANGED <<ship, clock, phase, slug, todo, hull, shield, tally, mult>>
      /\ shots'  = [shots  EXCEPT ![x] = shots_]
      /\ damage' = [damage EXCEPT ![x] = damage_]
      /\ charge' = [charge EXCEPT ![x] = charge_]
      /\ pin'    = [pin    EXCEPT ![x] = feed]
      /\ BackEmf(x, ring)
  BY DEF Power, Doing
<1>3. /\ hp' = [hp EXCEPT ![x] = hp_] /\ dead' = [dead EXCEPT ![x] = dead_]
      /\ loop' = [loop EXCEPT ![x] = loop_]
  <2>1. CASE melts
    <3>1. Melt(x, ring) /\ loop' = [loop EXCEPT ![x] = NoLoop]
      BY <1>2, <2>1 DEF BackEmf
    <3> QED BY <2>1, <3>1 DEF Melt
  <2>2. CASE \lnot melts
    <3>1. /\ loop' = [loop EXCEPT ![x] = IF ring = {} THEN NoLoop
                         ELSE [cells |-> ring, age |-> LoopAge(x, ring)]]
          /\ UNCHANGED <<hp, dead>>
      BY <1>2, <2>2 DEF BackEmf
    <3> QED BY <2>2, <3>1 DEF Formed, OfSeats
  <2> QED BY <2>1, <2>2
<1>4. /\ v.ship = ship[x] /\ v.hull = hull[x] /\ v.foe = hull[Other(x)]
      /\ v.mult = mult[x] /\ v.hp = hp[x] /\ v.dead = dead[x] /\ v.charge = charge[x]
      /\ v.loop = loop[x]
  BY DeckHas DEF Deck
<1> HIDE DEF v
<1>5. /\ \A p : On(v)!VolleyOf(0, p, feed) = VolleyOf(x, p, feed)
      /\ \A p : On(v)!ShotDamage(0, p) = ShotDamage(x, p)
      /\ \A p : On(v)!ChargeAfter(0, p, feed) = ChargeAfter(x, p, feed)
      /\ On(v)!LoopAge(0, ring) = LoopAge(x, ring)
  BY <1>4, GunsAre
<1>6. Powered(v, feed, ring) = LotOf(shots_, damage_, charge_, feed, hp_, dead_, loop_)
  <2>1. Melts(v, ring) = melts
    BY <1>5 DEF Melts
  <2>2. /\ shots_ = [p \in Guns(v.ship) |-> On(v)!VolleyOf(0, p, feed)]
        /\ damage_ = [p \in Guns(v.ship) |-> On(v)!ShotDamage(0, p)]
        /\ charge_ = [p \in Guns(v.ship) |-> On(v)!ChargeAfter(0, p, feed)]
    BY <1>4, <1>5
  <2>3. /\ hp_ = IF Melts(v, ring) THEN [c \in Cells |-> IF c \in ring THEN 0 ELSE v.hp[c]]
                 ELSE v.hp
        /\ dead_ = IF Melts(v, ring) THEN v.dead \cup ring ELSE v.dead
    BY <1>4, <2>1
  <2>4. loop_ = IF ring = {} \/ Melts(v, ring) THEN NoLoop
                ELSE [cells |-> ring, age |-> On(v)!LoopAge(0, ring)]
    BY <1>5, <2>1
  <2> HIDE DEF shots_, damage_, charge_, hp_, dead_, loop_, melts
  <2> QED BY <2>2, <2>3, <2>4 DEF Powered
<1> HIDE DEF shots_, damage_, charge_, hp_, dead_, loop_
<1>7. /\ shots'[x] = shots_ /\ damage'[x] = damage_ /\ charge'[x] = charge_
      /\ pin'[x] = feed /\ hp'[x] = hp_ /\ dead'[x] = dead_ /\ loop'[x] = loop_
  BY <1>2, <1>3 DEF Formed, OfSeats
<1>8. /\ shots'[y] = shots[y] /\ damage'[y] = damage[y] /\ charge'[y] = charge[y]
      /\ pin'[y] = pin[y] /\ hp'[y] = hp[y] /\ dead'[y] = dead[y]
      /\ loop'[y] = loop[y]
  BY <1>1, <1>2, <1>3 DEF Formed, OfSeats
<1>9. Formed'
  BY <1>2, <1>3 DEF Formed, OfSeats
<1>10. Lot(x)' = Powered(v, feed, ring)
  BY <1>6, <1>7 DEF Lot
<1>11. Lot(y)' = Lot(y)
  BY <1>8 DEF Lot
<1> QED BY <1>2, <1>9, <1>10, <1>11 DEF v, y

TwinDeck(x) ==
  DeckOf(twinShip[x], twinHull[x], twinHull[Other(x)], twinMult[x], twinHp[x], twinDead[x],
         twinCharge[x], twinLoop[x])

TwinLot(x) == LotOf(twinShots[x], twinDamage[x], twinCharge[x], twinPin[x], twinHp[x],
                    twinDead[x], twinLoop[x])

LEMMA TwinGunsAre ==
  ASSUME NEW x \in Seats, NEW v, v.ship = twinShip[x], v.hull = twinHull[x],
         v.foe = twinHull[Other(x)], v.mult = twinMult[x], v.hp = twinHp[x], v.dead = twinDead[x],
         v.charge = twinCharge[x], v.loop = twinLoop[x]
  PROVE  /\ \A p, feed : On(v)!VolleyOf(0, p, feed) = Twin!VolleyOf(x, p, feed)
         /\ \A p : On(v)!ShotDamage(0, p) = Twin!ShotDamage(x, p)
         /\ \A p, feed : On(v)!ChargeAfter(0, p, feed) = Twin!ChargeAfter(x, p, feed)
         /\ \A ring : On(v)!LoopAge(0, ring) = Twin!LoopAge(x, ring)
<1>1. On(v)!Alive(0) = Twin!Alive(x)
  BY TwinHitsAre
<1>2. /\ \A cells : On(v)!Extent(cells) = Twin!Extent(cells)
      /\ \A s, p : On(v)!Stats(s, p) = Twin!Stats(s, p) /\ On(v)!GunCell(s, p) = Twin!GunCell(s, p)
      /\ \A n, most : On(v)!AtMost(n, most) = Twin!AtMost(n, most)
      /\ On(v)!MaxShots = Twin!MaxShots
  BY OnConstants, TwinConstants DEF On!MaxShots, Twin!MaxShots
<1>3. \A p : On(v)!Whole(0, p) = Twin!Whole(x, p)
  BY <1>1, <1>2 DEF On!Whole, Twin!Whole, Seats
<1>4. \A c : On(v)!LaneClear(0, c) = Twin!LaneClear(x, c)
  BY <1>1 DEF On!LaneClear, Twin!LaneClear
<1>5. \A p : On(v)!Ready(0, p) = Twin!Ready(x, p)
  BY <1>2, <1>3, <1>4 DEF On!Ready, Twin!Ready, Seats
<1>6. \A p : On(v)!ShotDamage(0, p) = Twin!ShotDamage(x, p)
  BY <1>2, TwinBoostIs DEF On!ShotDamage, Twin!ShotDamage, Seats
<1>7. \A p : On(v)!Decides(0, p) = Twin!Decides(x, p)
  <2>1. Twin!Other(x) = Other(x)
    BY TwinSeatsAre
  <2> QED BY <1>6, <2>1 DEF On!Decides, Twin!Decides, On!Other, Seats
<1>8. \A p, feed : On(v)!Held(0, p, feed) = Twin!Held(x, p, feed)
  BY <1>2 DEF On!Held, Twin!Held, Seats
<1>9. \A p, feed : On(v)!VolleyOf(0, p, feed) = Twin!VolleyOf(x, p, feed)
  BY <1>2, <1>5, <1>7, <1>8 DEF On!VolleyOf, Twin!VolleyOf, Seats
<1>10. \A p, feed : On(v)!ChargeAfter(0, p, feed) = Twin!ChargeAfter(x, p, feed)
  BY <1>2, <1>5, <1>8, <1>9 DEF On!ChargeAfter, Twin!ChargeAfter, Seats
<1>11. \A ring : On(v)!LoopAge(0, ring) = Twin!LoopAge(x, ring)
  BY DEF On!LoopAge, Twin!LoopAge, Seats
<1> QED BY <1>6, <1>9, <1>10, <1>11

LEMMA TwinPowerIs ==
  ASSUME TwinFormed, NEW x \in Seats, NEW feed, NEW ring, Twin!Power(x, feed, ring)
  PROVE  /\ TwinLot(x)' = Powered(TwinDeck(x), feed, ring)
         /\ TwinLot(Other(x))' = TwinLot(Other(x))
         /\ TwinFormed'
         /\ twinAgenda # <<>> /\ Head(twinAgenda) = <<"power", x>> /\ twinSlug = NoSlug
         /\ twinTodo = {}
         /\ twinAgenda' = Tail(twinAgenda)
         /\ UNCHANGED <<twinShip, twinClock, twinPhase, twinSlug, twinTodo, twinHull,
                        twinShield, twinTally, twinMult>>
<1> DEFINE v == TwinDeck(x)
           y == Other(x)
           g == Guns(twinShip[x])
           shots_ == [p \in g |-> Twin!VolleyOf(x, p, feed)]
           damage_ == [p \in g |-> Twin!ShotDamage(x, p)]
           charge_ == [p \in g |-> Twin!ChargeAfter(x, p, feed)]
           melts == ring # {} /\ Twin!LoopAge(x, ring) >= MeltAge
           hp_ == IF melts THEN [c \in Cells |-> IF c \in ring THEN 0 ELSE twinHp[x][c]] ELSE twinHp[x]
           dead_ == IF melts THEN twinDead[x] \cup ring ELSE twinDead[x]
           loop_ == IF ring = {} \/ melts THEN NoLoop
                    ELSE [cells |-> ring, age |-> Twin!LoopAge(x, ring)]
<1>1. y \in Seats /\ y # x /\ Other(y) = x
  BY TwinSeatsAre
<1>2. /\ twinAgenda # <<>> /\ Head(twinAgenda) = <<"power", x>> /\ twinSlug = NoSlug
      /\ twinTodo = {}
      /\ twinAgenda' = Tail(twinAgenda)
      /\ UNCHANGED <<twinShip, twinClock, twinPhase, twinSlug, twinTodo, twinHull, twinShield,
                     twinTally, twinMult>>
      /\ twinShots'  = [twinShots  EXCEPT ![x] = shots_]
      /\ twinDamage' = [twinDamage EXCEPT ![x] = damage_]
      /\ twinCharge' = [twinCharge EXCEPT ![x] = charge_]
      /\ twinPin'    = [twinPin    EXCEPT ![x] = feed]
      /\ Twin!BackEmf(x, ring)
  BY  TwinConstants DEF Twin!Power, Twin!Doing
<1>3. /\ twinHp' = [twinHp EXCEPT ![x] = hp_] /\ twinDead' = [twinDead EXCEPT ![x] = dead_]
      /\ twinLoop' = [twinLoop EXCEPT ![x] = loop_]
  <2>1. CASE melts
    <3>1. Twin!Melt(x, ring) /\ twinLoop' = [twinLoop EXCEPT ![x] = NoLoop]
      BY <1>2, <2>1, TwinConstants DEF Twin!BackEmf
    <3> QED BY <2>1, <3>1, TwinConstants DEF Twin!Melt
  <2>2. CASE \lnot melts
    <3>1. /\ twinLoop' = [twinLoop EXCEPT ![x] = IF ring = {} THEN NoLoop
                         ELSE [cells |-> ring, age |-> Twin!LoopAge(x, ring)]]
          /\ UNCHANGED <<twinHp, twinDead>>
      BY <1>2, <2>2, TwinConstants DEF Twin!BackEmf
    <3> QED BY <2>2, <3>1 DEF TwinFormed, OfSeats
  <2> QED BY <2>1, <2>2
<1>4. /\ v.ship = twinShip[x] /\ v.hull = twinHull[x] /\ v.foe = twinHull[Other(x)]
      /\ v.mult = twinMult[x] /\ v.hp = twinHp[x] /\ v.dead = twinDead[x]
      /\ v.charge = twinCharge[x]
      /\ v.loop = twinLoop[x]
  BY DeckHas DEF TwinDeck
<1> HIDE DEF v
<1>5. /\ \A p : On(v)!VolleyOf(0, p, feed) = Twin!VolleyOf(x, p, feed)
      /\ \A p : On(v)!ShotDamage(0, p) = Twin!ShotDamage(x, p)
      /\ \A p : On(v)!ChargeAfter(0, p, feed) = Twin!ChargeAfter(x, p, feed)
      /\ On(v)!LoopAge(0, ring) = Twin!LoopAge(x, ring)
  BY <1>4, TwinGunsAre
<1>6. Powered(v, feed, ring) = LotOf(shots_, damage_, charge_, feed, hp_, dead_, loop_)
  <2>1. Melts(v, ring) = melts
    BY <1>5 DEF Melts
  <2>2. /\ shots_ = [p \in Guns(v.ship) |-> On(v)!VolleyOf(0, p, feed)]
        /\ damage_ = [p \in Guns(v.ship) |-> On(v)!ShotDamage(0, p)]
        /\ charge_ = [p \in Guns(v.ship) |-> On(v)!ChargeAfter(0, p, feed)]
    BY <1>4, <1>5
  <2>3. /\ hp_ = IF Melts(v, ring) THEN [c \in Cells |-> IF c \in ring THEN 0 ELSE v.hp[c]]
                 ELSE v.hp
        /\ dead_ = IF Melts(v, ring) THEN v.dead \cup ring ELSE v.dead
    BY <1>4, <2>1
  <2>4. loop_ = IF ring = {} \/ Melts(v, ring) THEN NoLoop
                ELSE [cells |-> ring, age |-> On(v)!LoopAge(0, ring)]
    BY <1>5, <2>1
  <2> HIDE DEF shots_, damage_, charge_, hp_, dead_, loop_, melts
  <2> QED BY <2>2, <2>3, <2>4 DEF Powered
<1> HIDE DEF shots_, damage_, charge_, hp_, dead_, loop_
<1>7. /\ twinShots'[x] = shots_ /\ twinDamage'[x] = damage_ /\ twinCharge'[x] = charge_
      /\ twinPin'[x] = feed /\ twinHp'[x] = hp_ /\ twinDead'[x] = dead_ /\ twinLoop'[x] = loop_
  BY <1>2, <1>3 DEF TwinFormed, OfSeats
<1>8. /\ twinShots'[y] = twinShots[y] /\ twinDamage'[y] = twinDamage[y]
      /\ twinCharge'[y] = twinCharge[y]
      /\ twinPin'[y] = twinPin[y] /\ twinHp'[y] = twinHp[y] /\ twinDead'[y] = twinDead[y]
      /\ twinLoop'[y] = twinLoop[y]
  BY <1>1, <1>2, <1>3 DEF TwinFormed, OfSeats
<1>9. TwinFormed'
  BY <1>2, <1>3 DEF TwinFormed, OfSeats
<1>10. TwinLot(x)' = Powered(v, feed, ring)
  BY <1>6, <1>7 DEF TwinLot
<1>11. TwinLot(y)' = TwinLot(y)
  BY <1>8 DEF TwinLot
<1> QED BY <1>2, <1>9, <1>10, <1>11 DEF v, y

-----------------------------------------------------------------------------
(* The thread of a ship in the fight, and in the twin.                     *)

\* Going on from a for as long as there is something to do, one comes to b.
LeadsTo(a, b) ==
  \A S : (a \in S /\ \A u \in S : Busy(u) => Onward(u) \in S) => b \in S

LEMMA ThreadStarts ==
  ASSUME NEW a
  PROVE  LeadsTo(a, a)
BY DEF LeadsTo

LEMMA ThreadGoesOn ==
  ASSUME NEW a, NEW b, LeadsTo(a, b), Busy(b)
  PROVE  LeadsTo(a, Onward(b))
BY DEF LeadsTo

LEMMA ThreadIsShorter ==
  ASSUME NEW a, NEW b, LeadsTo(a, b), Busy(a), ~Busy(b)
  PROVE  LeadsTo(Onward(a), b)
<1> SUFFICES ASSUME NEW S, Onward(a) \in S, \A u \in S : Busy(u) => Onward(u) \in S
             PROVE  b \in S
  BY DEF LeadsTo
<1>1. b \in S \cup {a}
  <2>1. a \in S \cup {a} /\ \A u \in S \cup {a} : Busy(u) => Onward(u) \in S \cup {a}
    OBVIOUS
  <2> QED BY <2>1 DEF LeadsTo
<1>2. a # b
  OBVIOUS
<1> QED BY <1>1, <1>2

LEMMA ThreadEnds ==
  ASSUME NEW a, NEW b, LeadsTo(a, b), ~Busy(a)
  PROVE  a = b
<1> DEFINE S == {a}
<1>1. a \in S /\ \A u \in S : Busy(u) => Onward(u) \in S
  OBVIOUS
<1> HIDE DEF S
<1>2. b \in S
  BY <1>1 DEF LeadsTo
<1> QED BY <1>2 DEF S

\* Nothing but power happens to a ship before both have had theirs.
LEMMA Unpowered ==
  ASSUME Staged, Goes
  PROVE  /\ \A x \in Seats : <<"power", x>> \notin Pending(agenda)
         /\ \A x \in Seats : <<"power", x>> \notin Pending(agenda')
         /\ agenda # <<>> \/ todo # {}
<1>1. PICK x \in Seats :
        \/ \E p \in Guns(ship[x]) : Shoot(x, p)
        \/ SlugFlies(x) \/ VolleyOver(x)
        \/ Upkeep(x) \/ \E c \in Cells : Repair(x, c)
  BY DEF Goes
<1>2. CASE \E c \in Cells : Repair(x, c)
  <2>1. todo # {} /\ agenda' = agenda
    BY <1>2 DEF Repair
  <2> QED BY <2>1 DEF Staged
<1>3. CASE agenda # <<>> /\ Head(agenda)[1] \in {"resolve", "upkeep"}
           /\ agenda' \in {agenda, Tail(agenda)}
  <2>1. \A call \in Pending(agenda) : Rank[Head(agenda)[1]] <= Rank[call[1]]
    BY <1>3, NextCall DEF Staged
  <2>2. \A y \in Seats : <<"power", y>> \notin Pending(agenda)
    <3> SUFFICES ASSUME NEW y \in Seats, <<"power", y>> \in Pending(agenda)
                 PROVE  FALSE
      OBVIOUS
    <3>1. Rank[Head(agenda)[1]] <= Rank["power"]
      BY <2>1
    <3> QED BY <1>3, <3>1 DEF Rank
  <2>3. Pending(agenda') \subseteq Pending(agenda)
    BY <1>3, NextCall DEF Staged
  <2> QED BY <1>3, <2>2, <2>3
<1>4. ASSUME NEW p, Shoot(x, p)
      PROVE  agenda # <<>> /\ Head(agenda) = <<"resolve", x>> /\ agenda' = agenda
  BY <1>4 DEF Shoot, Doing
<1>5. ASSUME SlugFlies(x)
      PROVE  agenda # <<>> /\ Head(agenda) = <<"resolve", x>> /\ agenda' = agenda
  BY <1>5 DEF SlugFlies
<1>6. ASSUME VolleyOver(x)
      PROVE  agenda # <<>> /\ Head(agenda) = <<"resolve", x>> /\ agenda' = Tail(agenda)
  BY <1>6 DEF VolleyOver, Doing
<1>7. ASSUME Upkeep(x)
      PROVE  agenda # <<>> /\ Head(agenda) = <<"upkeep", x>> /\ agenda' = Tail(agenda)
  BY <1>7 DEF Upkeep, Doing
<1> QED BY <1>1, <1>2, <1>3, <1>4, <1>5, <1>6, <1>7

LEMMA LotOfHas ==
  ASSUME NEW x
  PROVE  LET v == Lot(x)
         IN /\ v.shots = shots[x] /\ v.damage = damage[x] /\ v.charge = charge[x]
            /\ v.pin = pin[x] /\ v.hp = hp[x] /\ v.dead = dead[x] /\ v.loop = loop[x]
            /\ v'.shots = shots'[x] /\ v'.damage = damage'[x] /\ v'.charge = charge'[x]
            /\ v'.pin = pin'[x] /\ v'.hp = hp'[x] /\ v'.dead = dead'[x]
            /\ v'.loop = loop'[x]
BY LotHas DEF Lot

\* Once a second has nothing left to do, nothing is left for a ship.
LEMMA Rests ==
  ASSUME agenda = <<>>, todo = {}, NEW y
  PROVE  \lnot Busy(Thread(y))
<1>1. Volley(y) = "done" /\ Care(y) = "done" /\ Repairs(y) = {}
  BY NoCalls DEF Volley, Care, Repairs
<1> QED BY <1>1, ThreadHas DEF Busy

\* A second that starts.
LEMMA StartsStaged ==
  ASSUME NEW t \in Nat, agenda = CallsOf(t), slug = NoSlug, todo = {}
  PROVE  Staged
BY AllCalls DEF Staged

\* In the twin: nothing but power happens to a ship before both have had theirs.
LEMMA TwinUnpowered ==
  ASSUME TwinStaged, Twin!Goes
  PROVE  /\ \A x \in Seats : <<"power", x>> \notin Pending(twinAgenda)
         /\ \A x \in Seats : <<"power", x>> \notin Pending(twinAgenda')
         /\ twinAgenda # <<>> \/ twinTodo # {}
<1>1. PICK x \in Seats :
        \/ \E p \in Guns(twinShip[x]) : Twin!Shoot(x, p)
        \/ Twin!SlugFlies(x) \/ Twin!VolleyOver(x)
        \/ Twin!Upkeep(x) \/ \E c \in Cells : Twin!Repair(x, c)
  BY  TwinConstants DEF Twin!Goes
<1>2. CASE \E c \in Cells : Twin!Repair(x, c)
  <2>1. twinTodo # {} /\ twinAgenda' = twinAgenda
    BY <1>2 DEF Twin!Repair
  <2> QED BY <2>1 DEF TwinStaged
<1>3. CASE twinAgenda # <<>> /\ Head(twinAgenda)[1] \in {"resolve", "upkeep"}
           /\ twinAgenda' \in {twinAgenda, Tail(twinAgenda)}
  <2>1. \A call \in Pending(twinAgenda) : Rank[Head(twinAgenda)[1]] <= Rank[call[1]]
    BY <1>3, NextCall DEF TwinStaged
  <2>2. \A y \in Seats : <<"power", y>> \notin Pending(twinAgenda)
    <3> SUFFICES ASSUME NEW y \in Seats, <<"power", y>> \in Pending(twinAgenda)
                 PROVE  FALSE
      OBVIOUS
    <3>1. Rank[Head(twinAgenda)[1]] <= Rank["power"]
      BY <2>1
    <3> QED BY <1>3, <3>1 DEF Rank
  <2>3. Pending(twinAgenda') \subseteq Pending(twinAgenda)
    BY <1>3, NextCall DEF TwinStaged
  <2> QED BY <1>3, <2>2, <2>3
<1>4. ASSUME NEW p, Twin!Shoot(x, p)
      PROVE  twinAgenda # <<>> /\ Head(twinAgenda) = <<"resolve", x>> /\ twinAgenda' = twinAgenda
  BY <1>4 DEF Twin!Shoot, Twin!Doing
<1>5. ASSUME Twin!SlugFlies(x)
      PROVE  twinAgenda # <<>> /\ Head(twinAgenda) = <<"resolve", x>> /\ twinAgenda' = twinAgenda
  BY <1>5 DEF Twin!SlugFlies
<1>6. ASSUME Twin!VolleyOver(x)
      PROVE  twinAgenda # <<>> /\ Head(twinAgenda) = <<"resolve", x>>
             /\ twinAgenda' = Tail(twinAgenda)
  BY <1>6 DEF Twin!VolleyOver, Twin!Doing
<1>7. ASSUME Twin!Upkeep(x)
      PROVE  twinAgenda # <<>> /\ Head(twinAgenda) = <<"upkeep", x>>
             /\ twinAgenda' = Tail(twinAgenda)
  BY <1>7 DEF Twin!Upkeep, Twin!Doing
<1> QED BY <1>1, <1>2, <1>3, <1>4, <1>5, <1>6, <1>7

LEMMA TwinLotOfHas ==
  ASSUME NEW x
  PROVE  LET v == TwinLot(x)
         IN /\ v.shots = twinShots[x] /\ v.damage = twinDamage[x] /\ v.charge = twinCharge[x]
            /\ v.pin = twinPin[x] /\ v.hp = twinHp[x] /\ v.dead = twinDead[x]
            /\ v.loop = twinLoop[x]
            /\ v'.shots = twinShots'[x] /\ v'.damage = twinDamage'[x] /\ v'.charge = twinCharge'[x]
            /\ v'.pin = twinPin'[x] /\ v'.hp = twinHp'[x] /\ v'.dead = twinDead'[x]
            /\ v'.loop = twinLoop'[x]
BY LotHas DEF TwinLot

\* In the twin: once a second has nothing left to do, nothing is left for a ship.
LEMMA TwinRests ==
  ASSUME twinAgenda = <<>>, twinTodo = {}, NEW y
  PROVE  \lnot Busy(TwinThread(y))
<1>1. TwinVolley(y) = "done" /\ TwinCare(y) = "done" /\ TwinRepairs(y) = {}
  BY NoCalls DEF TwinVolley, TwinCare, TwinRepairs
<1> QED BY <1>1, TwinThreadHas DEF Busy

\* In the twin: a second that starts.
LEMMA TwinStartsStaged ==
  ASSUME NEW t \in Nat, twinAgenda = CallsOf(t), twinSlug = NoSlug, twinTodo = {}
  PROVE  TwinStaged
BY AllCalls DEF TwinStaged

-----------------------------------------------------------------------------
(* The inductive invariant of the pair.                                    *)

\* What the power of this second does to a ship of the twin, or has done.
Due(z) ==
  IF <<"power", z>> \in Pending(twinAgenda)
  THEN Powered(TwinDeck(z), given[Other(z)][1], given[Other(z)][2])
  ELSE TwinLot(z)

\* The thread of a ship of the twin, from when both have had their power.
DueThread(z) ==
  Bout(twinShip[z], twinShip[Other(z)], Due(Other(z)).damage, Due(z).pin,
       Due(Other(z)).shots, twinShield[z], twinTally[z], twinHull[z], Due(z).hp, Due(z).dead,
       TwinSlugTo(z), TwinVolley(z), TwinCare(z), TwinRepairs(z))

\* What only a break changes, and the phase.
Paired ==
  /\ OfSeats(given) /\ OfSeats(mult)
  /\ twinShip = Exchanged(ship) /\ twinMult = Exchanged(mult)
  /\ twinClock = clock /\ twinPhase = phase

\* What a ship has of a fight, seen with the seats exchanged.
Alike ==
  /\ twinHull = Exchanged(hull) /\ twinShield = Exchanged(shield)
  /\ twinTally = Exchanged(tally)
  /\ twinHp = Exchanged(hp) /\ twinDead = Exchanged(dead)
  /\ twinCharge = Exchanged(charge) /\ twinLoop = Exchanged(loop)

Idle ==
  /\ agenda = <<>> /\ slug = NoSlug /\ todo = {}
  /\ twinAgenda = <<>> /\ twinSlug = NoSlug /\ twinTodo = {}

\* While a ship of the fight is still to have its power, all that is new is the
\* power the other one had.
Fresh ==
  /\ slug = NoSlug /\ todo = {} /\ twinSlug = NoSlug /\ twinTodo = {}
  /\ Pending(twinAgenda) = CallSet
  /\ \A x \in Seats : {<<"resolve", x>>, <<"upkeep", x>>} \subseteq Pending(agenda)
  /\ twinHull = Exchanged(hull) /\ twinShield = Exchanged(shield)
  /\ twinTally = Exchanged(tally)
  /\ \A x \in Seats :
       /\ <<"power", x>> \in Pending(agenda) => TwinDeck(Other(x)) = Deck(x)
       /\ <<"power", x>> \notin Pending(agenda) => Due(Other(x)) = Lot(x)

Powering == \E x \in Seats : <<"power", x>> \in Pending(agenda)

\* From then on what is ahead of a ship of the twin leads to where its ship is.
Running ==
  /\ \A x \in Seats : Due(Other(x)).charge = charge[x] /\ Due(Other(x)).loop = loop[x]
  /\ \A y \in Seats : LeadsTo(DueThread(Other(y)), Thread(y))

PairInv ==
  /\ CombatInv /\ Formed /\ TwinFormed /\ Staged /\ TwinStaged /\ Paired
  /\ phase # "second" => Alike /\ Idle
  /\ phase = "second" /\ Powering => Fresh
  /\ phase = "second" /\ ~Powering => Running

LEMMA BothFit ==
  ASSUME PairInv
  PROVE  Fit /\ TwinFit
<1>1. \A x \in Seats : ship[x] \in Ships /\ Other(x) \in Seats
  BY Here DEF PairInv
<1>2. twinShip = Exchanged(ship)
  BY DEF PairInv, Paired
<1> QED BY <1>1, <1>2 DEF Fit, TwinFit, Exchanged

\* What a step leaves alone if it is one of the other fight.
LEMMA Holds ==
  ASSUME UNCHANGED vars
  PROVE  /\ UNCHANGED <<ship, clock, phase, agenda, slug, todo, hull, shield, tally>>
         /\ UNCHANGED <<mult, hp, dead, charge, shots, damage, pin, loop>>
         /\ Formed => Formed'
         /\ Staged => Staged'
         /\ \A z : /\ Lot(z)' = Lot(z) /\ Deck(z)' = Deck(z) /\ Thread(z)' = Thread(z)
                   /\ SlugTo(z)' = SlugTo(z) /\ Volley(z)' = Volley(z)
                   /\ Care(z)' = Care(z) /\ Repairs(z)' = Repairs(z)
<1>1. /\ UNCHANGED <<ship, clock, phase, agenda, slug, todo, hull, shield, tally>>
      /\ UNCHANGED <<mult, hp, dead, charge, shots, damage, pin, loop>>
  BY DEF vars, body, guns
<1>2. Formed => Formed'
  BY <1>1 DEF Formed
<1>3. Staged => Staged'
  BY <1>1 DEF Staged
<1>4. \A z : SlugTo(z)' = SlugTo(z) /\ Volley(z)' = Volley(z)
             /\ Care(z)' = Care(z) /\ Repairs(z)' = Repairs(z)
  BY <1>1 DEF SlugTo, Volley, Care, Repairs
<1>5. \A z : Lot(z)' = Lot(z) /\ Deck(z)' = Deck(z)
  BY <1>1 DEF Lot, Deck
<1>6. \A z : Thread(z)' = Thread(z)
  BY <1>1, <1>4 DEF Thread
<1> QED BY <1>1, <1>2, <1>3, <1>4, <1>5, <1>6

\* In the twin: what a step leaves alone if it is one of the other fight.
LEMMA TwinHolds ==
  ASSUME UNCHANGED twin
  PROVE  /\ UNCHANGED <<twinShip, twinClock, twinPhase, twinAgenda, twinSlug, twinTodo,
                        twinHull, twinShield, twinTally>>
         /\ UNCHANGED <<twinMult, twinHp, twinDead, twinCharge, twinShots, twinDamage, twinPin,
                        twinLoop>>
         /\ TwinFormed => TwinFormed'
         /\ TwinStaged => TwinStaged'
         /\ \A z : /\ TwinLot(z)' = TwinLot(z) /\ TwinDeck(z)' = TwinDeck(z) /\ TwinThread(z)' = TwinThread(z)
                   /\ TwinSlugTo(z)' = TwinSlugTo(z) /\ TwinVolley(z)' = TwinVolley(z)
                   /\ TwinCare(z)' = TwinCare(z) /\ TwinRepairs(z)' = TwinRepairs(z)
<1>1. /\ UNCHANGED <<twinShip, twinClock, twinPhase, twinAgenda, twinSlug, twinTodo, twinHull,
                     twinShield, twinTally>>
      /\ UNCHANGED <<twinMult, twinHp, twinDead, twinCharge, twinShots, twinDamage, twinPin,
                     twinLoop>>
  BY DEF twin
<1>2. TwinFormed => TwinFormed'
  BY <1>1 DEF TwinFormed
<1>3. TwinStaged => TwinStaged'
  BY <1>1 DEF TwinStaged
<1>4. \A z : TwinSlugTo(z)' = TwinSlugTo(z) /\ TwinVolley(z)' = TwinVolley(z)
             /\ TwinCare(z)' = TwinCare(z) /\ TwinRepairs(z)' = TwinRepairs(z)
  BY <1>1 DEF TwinSlugTo, TwinVolley, TwinCare, TwinRepairs
<1>5. \A z : TwinLot(z)' = TwinLot(z) /\ TwinDeck(z)' = TwinDeck(z)
  BY <1>1 DEF TwinLot, TwinDeck
<1>6. \A z : TwinThread(z)' = TwinThread(z)
  BY <1>1, <1>4 DEF TwinThread
<1> QED BY <1>1, <1>2, <1>3, <1>4, <1>5, <1>6

LEMMA DueHolds ==
  ASSUME UNCHANGED <<given, twin>>, NEW z
  PROVE  Due(z)' = Due(z) /\ DueThread(z)' = DueThread(z)
<1>1. \A u : Due(u)' = Due(u)
  <2>1. given' = given /\ twinAgenda' = twinAgenda
    BY TwinHolds
  <2>2. \A u : TwinLot(u)' = TwinLot(u) /\ TwinDeck(u)' = TwinDeck(u)
    BY TwinHolds
  <2> QED BY <2>1, <2>2 DEF Due
<1>2. DueThread(z)' = DueThread(z)
  <2>1. UNCHANGED <<twinShip, twinShield, twinTally, twinHull>>
    BY TwinHolds
  <2>2. TwinSlugTo(z)' = TwinSlugTo(z) /\ TwinVolley(z)' = TwinVolley(z)
        /\ TwinCare(z)' = TwinCare(z) /\ TwinRepairs(z)' = TwinRepairs(z)
    BY TwinHolds
  <2> QED BY <1>1, <2>1, <2>2 DEF DueThread
<1> QED BY <1>1, <1>2

\* Once both have had their power, the twin's second has the fight's threads before it.
BothDue   == \A x \in Seats : Due(Other(x)) = Lot(x)
BothStart == \A y \in Seats : DueThread(Other(y)) = Thread(y)

LEMMA BothPowered == Fresh /\ Paired /\ BothDue => BothStart
<1> SUFFICES ASSUME Fresh, Paired, BothDue, NEW y \in Seats
             PROVE  DueThread(Other(y)) = Thread(y)
  BY DEF BothStart
<1> DEFINE z == Other(y)
<1>1. z \in Seats /\ Other(z) = y
  BY SeatsAre
<1>2. Due(z) = Lot(y) /\ Due(y) = Lot(z)
  BY <1>1 DEF BothDue
<1>3. /\ Due(y).damage = damage[z] /\ Due(y).shots = shots[z]
      /\ Due(z).pin = pin[y] /\ Due(z).hp = hp[y] /\ Due(z).dead = dead[y]
  BY <1>2, LotOfHas
<1>4. /\ twinShip[z] = ship[y] /\ twinShip[y] = ship[z]
      /\ twinShield[z] = shield[y] /\ twinTally[z] = tally[y] /\ twinHull[z] = hull[y]
  BY <1>1 DEF Paired, Fresh, Exchanged
<1>5. TwinSlugTo(z) = SlugTo(y) /\ TwinRepairs(z) = Repairs(y)
  BY DEF Fresh, TwinSlugTo, SlugTo, TwinRepairs, Repairs
<1>6. TwinVolley(z) = Volley(y) /\ TwinCare(z) = Care(y)
  BY <1>1 DEF Fresh, TwinVolley, Volley, TwinCare, Care, CallSet
<1> HIDE DEF z
<1>7. DueThread(z) = Thread(y)
  BY <1>1, <1>3, <1>4, <1>5, <1>6 DEF DueThread, Thread, z
<1> QED BY <1>7 DEF z

LEMMA BothPoweredNext == Fresh' /\ Paired' /\ BothDue' => BothStart'
BY BothPowered, PTL

LEMMA FightPowerPairs ==
  ASSUME PairInv, FightPower
  PROVE  PairInv'
<1>1. PICK x \in Seats : \E feed \in Feeds(x), ring \in Rings(x) :
        /\ Power(x, feed, ring)
        /\ given' = [given EXCEPT ![x] = <<feed, ring>>]
        /\ UNCHANGED twin
  BY DEF FightPower
<1>2. PICK feed \in Feeds(x), ring \in Rings(x) :
        /\ Power(x, feed, ring)
        /\ given' = [given EXCEPT ![x] = <<feed, ring>>]
        /\ UNCHANGED twin
  BY <1>1
<1> DEFINE z == Other(x)
<1>3. z \in Seats /\ Other(z) = x /\ z # x /\ \A u \in Seats : u = x \/ u = z
  BY SeatsAre
<1>4. /\ CombatInv /\ Formed /\ TwinFormed /\ Staged /\ TwinStaged /\ Paired
      /\ phase # "second" => agenda = <<>>
  BY DEF PairInv, Idle
<1>5. /\ Lot(x)' = Powered(Deck(x), feed, ring) /\ Lot(z)' = Lot(z) /\ Formed'
      /\ agenda # <<>> /\ Head(agenda) = <<"power", x>> /\ slug = NoSlug /\ todo = {}
      /\ agenda' = Tail(agenda)
      /\ UNCHANGED <<ship, clock, phase, slug, todo, hull, shield, tally, mult>>
  BY <1>2, <1>4, PowerIs
<1> HIDE DEF z
<1>6. /\ Orderly(agenda') /\ Pending(agenda') = Pending(agenda) \ {<<"power", x>>}
      /\ <<"power", x>> \in Pending(agenda)
  BY <1>4, <1>5, NextCall DEF Staged
<1>7. Fresh /\ phase = "second"
  BY <1>4, <1>5, <1>6 DEF PairInv, Powering
<1>8. CombatInv'
  <2>1. PowerUp
    BY <1>2 DEF PowerUp
  <2> QED BY <1>4, <2>1, CombatStep DEF Next
<1>9. Staged'
  BY <1>5, <1>6 DEF Staged
<1>10. TwinFormed' /\ TwinStaged'
  BY <1>2, <1>4, TwinHolds
<1>11. Paired'
  <2>1. UNCHANGED <<twinShip, twinMult, twinClock, twinPhase>>
    BY <1>2, TwinHolds
  <2>2. OfSeats(given')
    BY <1>2, <1>4 DEF Paired, OfSeats
  <2> QED BY <1>4, <1>5, <2>1, <2>2 DEF Paired, OfSeats, Exchanged
<1>12. /\ given'[x] = <<feed, ring>> /\ given'[z] = given[z]
  BY <1>2, <1>3, <1>4 DEF Paired, OfSeats
<1>13. Due(z)' = Lot(x)' /\ Due(x)' = Due(x)
  <2>1. /\ Pending(twinAgenda)' = CallSet /\ Pending(twinAgenda) = CallSet
        /\ \A u : TwinDeck(u)' = TwinDeck(u)
    BY <1>2, <1>7, TwinHolds DEF Fresh
  <2>2. <<"power", z>> \in CallSet /\ <<"power", x>> \in CallSet
    BY <1>3 DEF CallSet
  <2>3. TwinDeck(z) = Deck(x)
    BY <1>6, <1>7 DEF Fresh, z
  <2>4. Due(z)' = Powered(TwinDeck(z), feed, ring)
    BY <1>3, <1>12, <2>1, <2>2 DEF Due
  <2>5. Due(x)' = Due(x)
    BY <1>12, <2>1, <2>2 DEF Due, z
  <2> QED BY <1>5, <2>3, <2>4, <2>5
<1>14. /\ <<"power", x>> \notin Pending(agenda')
       /\ <<"power", z>> \in Pending(agenda') <=> <<"power", z>> \in Pending(agenda)
  BY <1>3, <1>6
<1>15. hp'[z] = hp[z] /\ dead'[z] = dead[z] /\ charge'[z] = charge[z] /\ loop'[z] = loop[z]
  BY <1>5, LotOfHas
<1>16. Deck(z)' = Deck(z)
  BY <1>3, <1>5, <1>15 DEF Deck
<1>17. Fresh'
  <2>1. /\ \A u : TwinDeck(u)' = TwinDeck(u)
        /\ UNCHANGED <<twinAgenda, twinSlug, twinTodo, twinHull, twinShield, twinTally>>
    BY <1>2, TwinHolds
  <2>2. /\ <<"power", z>> \in Pending(agenda') => TwinDeck(x)' = Deck(z)'
        /\ <<"power", z>> \notin Pending(agenda') => Due(x)' = Lot(z)'
    BY <1>3, <1>5, <1>7, <1>13, <1>14, <1>16, <2>1 DEF Fresh
  <2>3. \A u \in Seats :
          /\ <<"power", u>> \in Pending(agenda') => TwinDeck(Other(u))' = Deck(u)'
          /\ <<"power", u>> \notin Pending(agenda') => Due(Other(u))' = Lot(u)'
    BY <1>3, <1>13, <1>14, <2>2 DEF z
  <2>4. \A u \in Seats : {<<"resolve", u>>, <<"upkeep", u>>} \subseteq Pending(agenda')
    BY <1>6, <1>7 DEF Fresh
  <2>5. /\ slug' = NoSlug /\ todo' = {} /\ twinSlug' = NoSlug /\ twinTodo' = {}
        /\ Pending(twinAgenda') = CallSet
        /\ twinHull' = Exchanged(hull') /\ twinShield' = Exchanged(shield')
        /\ twinTally' = Exchanged(tally')
    BY <1>5, <1>7, <2>1 DEF Fresh
  <2> QED BY <2>3, <2>4, <2>5 DEF Fresh, Exchanged
<1>18. ASSUME ~Powering'
       PROVE  Running'
  <2>1. \A u \in Seats : <<"power", u>> \notin Pending(agenda')
    BY <1>18 DEF Powering
  <2>2. \A u \in Seats : Due(Other(u))' = Lot(u)'
    BY <1>17, <2>1 DEF Fresh
  <2>3. \A u \in Seats : Due(Other(u))'.charge = charge'[u] /\ Due(Other(u))'.loop = loop'[u]
    BY <2>2, LotOfHas
  <2>4. \A u \in Seats : DueThread(Other(u))' = Thread(u)'
    BY <1>11, <1>17, <2>2, BothPoweredNext DEF BothDue, BothStart
  <2>5. \A u \in Seats : LeadsTo(DueThread(Other(u))', Thread(u)')
    BY <2>4, ThreadStarts
  <2> QED BY <2>3, <2>5 DEF Running, LeadsTo
<1> QED BY <1>5, <1>7, <1>8, <1>9, <1>10, <1>11, <1>17, <1>18 DEF PairInv

LEMMA FightGoesPairs ==
  ASSUME PairInv, FightGoes
  PROVE  PairInv'
<1>1. Goes /\ UNCHANGED <<given, twin>>
  BY DEF FightGoes
<1>2. CombatInv /\ Formed /\ TwinFormed /\ Staged /\ TwinStaged /\ Paired /\ Fit
  BY BothFit DEF PairInv
<1>3. PICK y \in Seats : Moves(y)
  BY <1>1, <1>2, GoesMoves
<1>4. /\ \A x \in Seats : <<"power", x>> \notin Pending(agenda)
      /\ \A x \in Seats : <<"power", x>> \notin Pending(agenda')
      /\ agenda # <<>> \/ todo # {}
  BY <1>1, <1>2, Unpowered
<1>5. phase = "second" /\ ~Powering /\ ~Powering' /\ Running
  BY <1>4 DEF PairInv, Idle, Powering
<1>6. CombatInv'
  BY <1>1, <1>2, CombatStep DEF Next
<1>7. /\ Busy(Thread(y)) /\ Thread(y)' = Onward(Thread(y))
      /\ Thread(Other(y))' = Thread(Other(y))
      /\ Formed' /\ Staged'
      /\ UNCHANGED <<ship, clock, phase, mult, charge, loop>>
  BY <1>3 DEF Moves
<1>8. TwinFormed' /\ TwinStaged' /\ UNCHANGED <<twinShip, twinMult, twinClock, twinPhase>>
  BY <1>1, <1>2, TwinHolds
<1>9. Paired'
  BY <1>1, <1>2, <1>7, <1>8 DEF Paired, Exchanged
<1>10. \A z : Due(z)' = Due(z) /\ DueThread(z)' = DueThread(z)
  BY <1>1, DueHolds
<1>11. LeadsTo(DueThread(Other(y)), Thread(y)')
  BY <1>5, <1>7, ThreadGoesOn DEF Running
<1>12. \A u \in Seats : LeadsTo(DueThread(Other(u))', Thread(u)')
  <2>1. \A u \in Seats : u = y \/ u = Other(y)
    BY SeatsAre
  <2> QED BY <1>5, <1>7, <1>10, <1>11, <2>1 DEF Running
<1>13. Running'
  BY <1>5, <1>7, <1>10, <1>12 DEF Running, LeadsTo
<1> QED BY <1>5, <1>6, <1>7, <1>8, <1>9, <1>13 DEF PairInv

\* Once the twin's ships have had their power, what they have is what was due.
TwinHad  == \A x \in Seats : <<"power", x>> \notin Pending(twinAgenda)
DueIsHad == \A z \in Seats : Due(z) = TwinLot(z) /\ DueThread(z) = TwinThread(z)

LEMMA HadItsDue == TwinHad => DueIsHad
<1> SUFFICES ASSUME TwinHad, NEW z \in Seats
             PROVE  Due(z) = TwinLot(z) /\ DueThread(z) = TwinThread(z)
  BY DEF DueIsHad
<1> DEFINE y == Other(z)
<1>1. y \in Seats
  BY SeatsAre
<1>2. Due(z) = TwinLot(z) /\ Due(y) = TwinLot(y)
  BY <1>1 DEF Due, TwinHad
<1>3. /\ Due(y).damage = twinDamage[y] /\ Due(y).shots = twinShots[y]
      /\ Due(z).pin = twinPin[z] /\ Due(z).hp = twinHp[z] /\ Due(z).dead = twinDead[z]
  BY <1>2, TwinLotOfHas
<1> QED BY <1>2, <1>3 DEF DueThread, TwinThread

LEMMA HadItsDueNext == TwinHad' => DueIsHad'
BY HadItsDue, PTL

LEMMA TwinPowerPairs ==
  ASSUME PairInv, TwinPower
  PROVE  PairInv'
<1>1. PICK x \in Seats :
        Twin!Power(x, given[Other(x)][1], given[Other(x)][2])
  BY DEF TwinPower
<1>2. /\ UNCHANGED <<given, vars>>
      /\ phase = "second" /\ agenda = <<>> /\ todo = {}
  BY DEF TwinPower, SecondIsOver
<1> DEFINE z == Other(x)
<1>3. z \in Seats /\ Other(z) = x /\ z # x /\ \A u \in Seats : u = x \/ u = z
  BY SeatsAre
<1>4. CombatInv /\ Formed /\ TwinFormed /\ Staged /\ TwinStaged /\ Paired
  BY DEF PairInv
<1>5. /\ TwinLot(x)' = Powered(TwinDeck(x), given[Other(x)][1], given[Other(x)][2])
      /\ TwinLot(z)' = TwinLot(z) /\ TwinFormed'
      /\ twinAgenda # <<>> /\ Head(twinAgenda) = <<"power", x>>
      /\ twinSlug = NoSlug /\ twinTodo = {}
      /\ twinAgenda' = Tail(twinAgenda)
      /\ UNCHANGED <<twinShip, twinClock, twinPhase, twinSlug, twinTodo, twinHull, twinShield,
                     twinTally, twinMult>>
  BY <1>1, <1>4, TwinPowerIs
<1> HIDE DEF z
<1>6. /\ Orderly(twinAgenda') /\ <<"power", x>> \in Pending(twinAgenda)
      /\ Pending(twinAgenda') = Pending(twinAgenda) \ {<<"power", x>>}
  BY <1>4, <1>5, NextCall DEF TwinStaged
<1>7. ~Powering /\ Running
  BY <1>2, <1>4, NoCalls DEF PairInv, Powering
<1>8. CombatInv'
  BY <1>2, <1>4, CombatStep
<1>9. Formed' /\ Staged' /\ UNCHANGED <<ship, mult, clock, phase, agenda, charge, loop>>
      /\ \A u : Thread(u)' = Thread(u)
  BY <1>2, <1>4, Holds
<1>10. TwinStaged'
  BY <1>5, <1>6 DEF TwinStaged
<1>11. Paired'
  BY <1>2, <1>4, <1>5, <1>9 DEF Paired, Exchanged
<1>12. /\ twinHp'[z] = twinHp[z] /\ twinDead'[z] = twinDead[z]
       /\ twinCharge'[z] = twinCharge[z] /\ twinLoop'[z] = twinLoop[z]
  BY <1>5, TwinLotOfHas
<1>13. TwinDeck(z)' = TwinDeck(z)
  BY <1>3, <1>5, <1>12 DEF TwinDeck
<1>14. Due(x)' = Due(x)
  <2>1. <<"power", x>> \notin Pending(twinAgenda')
    BY <1>6
  <2> QED BY <1>5, <1>6, <2>1 DEF Due
<1>15. Due(z)' = Due(z)
  <2>1. <<"power", z>> \in Pending(twinAgenda') <=> <<"power", z>> \in Pending(twinAgenda)
    BY <1>3, <1>6
  <2> QED BY <1>2, <1>5, <1>13, <2>1 DEF Due
<1>16. \A u \in Seats : Due(u)' = Due(u)
  BY <1>3, <1>14, <1>15
<1>17. \A u \in Seats : DueThread(u)' = DueThread(u)
  <2> SUFFICES ASSUME NEW u \in Seats
               PROVE  DueThread(u)' = DueThread(u)
    OBVIOUS
  <2>1. TwinSlugTo(u)' = TwinSlugTo(u) /\ TwinRepairs(u)' = TwinRepairs(u)
    BY <1>5 DEF TwinSlugTo, TwinRepairs
  <2>2. TwinVolley(u)' = TwinVolley(u) /\ TwinCare(u)' = TwinCare(u)
    BY <1>6 DEF TwinVolley, TwinCare
  <2>3. Due(u)' = Due(u) /\ Due(Other(u))' = Due(Other(u))
    BY <1>16, SeatsAre
  <2> QED BY <1>5, <2>1, <2>2, <2>3 DEF DueThread
<1>18. Running'
  <2>1. \A u \in Seats : Other(u) \in Seats
    BY SeatsAre
  <2> QED BY <1>7, <1>9, <1>16, <1>17, <2>1 DEF Running
<1>19. ~Powering'
  BY <1>7, <1>9 DEF Powering
<1> QED BY <1>2, <1>5, <1>8, <1>9, <1>10, <1>11, <1>18, <1>19 DEF PairInv

LEMMA TwinGoesPairs ==
  ASSUME PairInv, TwinGoes
  PROVE  PairInv'
<1>1. /\ Twin!Goes /\ UNCHANGED <<given, vars>>
      /\ phase = "second" /\ agenda = <<>> /\ todo = {}
  BY DEF TwinGoes, SecondIsOver
<1>2. CombatInv /\ Formed /\ TwinFormed /\ Staged /\ TwinStaged /\ Paired /\ TwinFit
  BY BothFit DEF PairInv
<1>3. PICK z \in Seats : TwinMoves(z)
  BY <1>1, <1>2, TwinGoesMoves
<1>4. DueIsHad /\ DueIsHad'
  <2>1. TwinHad /\ TwinHad'
    BY <1>1, <1>2, TwinUnpowered DEF TwinHad
  <2> QED BY <2>1, HadItsDue, HadItsDueNext
<1>5. ~Powering /\ Running
  BY <1>1, <1>2, NoCalls DEF PairInv, Powering
<1>6. CombatInv'
  BY <1>1, <1>2, CombatStep
<1>7. Formed' /\ Staged' /\ UNCHANGED <<ship, mult, clock, phase, agenda, charge, loop>>
      /\ \A u : Thread(u)' = Thread(u)
  BY <1>1, <1>2, Holds
<1>8. /\ Busy(TwinThread(z)) /\ TwinThread(z)' = Onward(TwinThread(z))
      /\ TwinThread(Other(z))' = TwinThread(Other(z))
      /\ TwinFormed' /\ TwinStaged'
      /\ UNCHANGED <<twinShip, twinClock, twinPhase, twinMult, twinCharge, twinLoop>>
  BY <1>3 DEF TwinMoves
<1>9. Paired'
  BY <1>1, <1>2, <1>7, <1>8 DEF Paired, Exchanged
<1>10. \A u \in Seats : Due(u)'.charge = Due(u).charge /\ Due(u)'.loop = Due(u).loop
  BY <1>4, <1>8, TwinLotOfHas DEF DueIsHad
<1>11. Other(z) \in Seats /\ Other(Other(z)) = z /\ \A u \in Seats : u = z \/ u = Other(z)
  BY SeatsAre
<1>12. LeadsTo(DueThread(z)', Thread(Other(z)))
  <2>1. LeadsTo(TwinThread(z), Thread(Other(z)))
    BY <1>4, <1>5, <1>11 DEF Running, DueIsHad
  <2>2. ~Busy(Thread(Other(z)))
    BY <1>1, Rests
  <2>3. LeadsTo(Onward(TwinThread(z)), Thread(Other(z)))
    BY <1>8, <2>1, <2>2, ThreadIsShorter
  <2> QED BY <1>4, <1>8, <2>3 DEF DueIsHad
<1>13. LeadsTo(DueThread(Other(z))', Thread(z))
  BY <1>4, <1>5, <1>8, <1>11 DEF Running, DueIsHad
<1>14. Running'
  <2>1. \A u \in Seats : LeadsTo(DueThread(Other(u))', Thread(u)')
    BY <1>7, <1>11, <1>12, <1>13
  <2>2. \A u \in Seats : Due(Other(u))'.charge = charge'[u] /\ Due(Other(u))'.loop = loop'[u]
    BY <1>5, <1>7, <1>10, <1>11 DEF Running
  <2> QED BY <2>1, <2>2 DEF Running, LeadsTo
<1>15. ~Powering'
  BY <1>5, <1>7 DEF Powering
<1> QED BY <1>1, <1>6, <1>7, <1>8, <1>9, <1>14, <1>15 DEF PairInv

-----------------------------------------------------------------------------
(* What a second and a break make of two fights that are alike.            *)

LEMMA SumsAre ==
  ASSUME NEW x, NEW y
  PROVE  /\ twinHp[x] = hp[y] => Twin!Structure(x) = Structure(y)
         /\ twinShip[x] = ship[y] => Twin!StructureMax(x) = StructureMax(y)
<1>1. ASSUME twinHp[x] = hp[y]
      PROVE  Twin!Structure(x) = Structure(y)
  BY <1>1 DEF Structure, Twin!Structure, FoldFunction, Twin!FoldFunction, FoldFunctionOnSet,
              Twin!FoldFunctionOnSet, MapThenFoldSet, Twin!MapThenFoldSet
<1>2. ASSUME twinShip[x] = ship[y]
      PROVE  Twin!StructureMax(x) = StructureMax(y)
  BY <1>2 DEF StructureMax, Twin!StructureMax, FoldFunction, Twin!FoldFunction,
              FoldFunctionOnSet, Twin!FoldFunctionOnSet, MapThenFoldSet, Twin!MapThenFoldSet
<1> QED BY <1>1, <1>2

LEMMA AlikeIs ==
  ASSUME Alike, Paired, NEW x \in Seats
  PROVE  /\ Other(x) \in Seats /\ Twin!Other(x) = Other(x) /\ Other(Other(x)) = x
         /\ twinShip[x] = ship[Other(x)] /\ twinHull[x] = hull[Other(x)]
         /\ twinShield[x] = shield[Other(x)] /\ twinHp[x] = hp[Other(x)]
         /\ Twin!Structure(x) = Structure(Other(x))
         /\ Twin!StructureMax(x) = StructureMax(Other(x))
         /\ Twin!Score(x) = Score(Other(x))
<1>1. Other(x) \in Seats /\ Twin!Other(x) = Other(x) /\ Other(Other(x)) = x
  BY SeatsAre, TwinSeatsAre
<1>2. /\ twinShip[x] = ship[Other(x)] /\ twinHull[x] = hull[Other(x)]
      /\ twinShield[x] = shield[Other(x)] /\ twinHp[x] = hp[Other(x)]
  BY DEF Alike, Paired, Exchanged
<1>3. /\ Twin!Structure(x) = Structure(Other(x))
      /\ Twin!StructureMax(x) = StructureMax(Other(x))
  BY <1>2, SumsAre
<1>4. Twin!Score(x) = Score(Other(x))
  BY <1>2, <1>3 DEF Score, Twin!Score
<1> QED BY <1>1, <1>2, <1>3, <1>4

\* dw2_match_result
LEMMA VerdictsAre ==
  ASSUME Alike, Paired, NEW x \in Seats, NEW t
  PROVE  Twin!Verdict(x, t) = Verdict(Other(x), t)
<1> DEFINE y == Other(x)
<1>1. /\ y \in Seats /\ Twin!Other(x) = y /\ Twin!Other(y) = x /\ Other(y) = x /\ Other(x) = y
      /\ twinShip[x] = ship[y] /\ twinShip[y] = ship[x]
      /\ twinHull[x] = hull[y] /\ twinHull[y] = hull[x]
      /\ Twin!Structure(x) = Structure(y) /\ Twin!Structure(y) = Structure(x)
      /\ Twin!StructureMax(x) = StructureMax(y) /\ Twin!StructureMax(y) = StructureMax(x)
  <2>1. y \in Seats
    BY SeatsAre
  <2> QED BY <2>1, AlikeIs
<1> HIDE DEF y
<1>2. /\ Twin!StandsBetter(x, y) = StandsBetter(y, x)
      /\ Twin!StandsBetter(y, x) = StandsBetter(x, y)
  BY <1>1 DEF StandsBetter, Twin!StandsBetter
<1>3. Twin!Verdict(x, t) = Verdict(y, t)
  BY <1>1, <1>2 DEF Verdict, Twin!Verdict
<1> QED BY <1>3 DEF y

\* A match that goes on goes on for both.
LEMMA OngoingForBoth ==
  ASSUME NEW x \in Seats, NEW t
  PROVE  Verdict(x, t) = "ongoing" <=> Verdict(Other(x), t) = "ongoing"
<1> DEFINE y == Other(x)
<1>1. y \in Seats /\ Other(y) = x
  BY SeatsAre
<1> HIDE DEF y
<1>2. ASSUME NEW u, NEW w, Other(u) = w
      PROVE  Verdict(u, t) = "ongoing" <=> hull[u] # 0 /\ hull[w] # 0 /\ t < TimeoutTicks
  BY <1>2 DEF Verdict
<1>3. Verdict(x, t) = "ongoing" <=> Verdict(y, t) = "ongoing"
  BY <1>1, <1>2 DEF y
<1> QED BY <1>3 DEF y

LEMMA SecondsEndAlike ==
  ASSUME PairInv, SecondIsOver, Twin!SecondIsOver
  PROVE  Alike /\ Idle
<1>1. /\ phase = "second" /\ agenda = <<>> /\ todo = {} /\ twinAgenda = <<>> /\ twinTodo = {}
  BY DEF SecondIsOver, Twin!SecondIsOver
<1>2. CombatInv /\ Formed /\ TwinFormed /\ Staged /\ TwinStaged /\ Paired
  BY DEF PairInv
<1>3. Running
  BY <1>1, NoCalls DEF PairInv, Powering
<1>4. DueIsHad
  <2>1. TwinHad
    BY <1>1, NoCalls DEF TwinHad
  <2> QED BY <2>1, HadItsDue
<1>5. ASSUME NEW z \in Seats
      PROVE  TwinThread(z) = Thread(Other(z))
  <2>1. Other(z) \in Seats /\ Other(Other(z)) = z
    BY SeatsAre
  <2>2. LeadsTo(TwinThread(z), Thread(Other(z)))
    BY <1>3, <1>4, <2>1 DEF Running, DueIsHad
  <2>3. ~Busy(TwinThread(z))
    BY <1>1, TwinRests
  <2> QED BY <2>2, <2>3, ThreadEnds
<1>6. ASSUME NEW z \in Seats
      PROVE  /\ twinHull[z] = hull[Other(z)] /\ twinShield[z] = shield[Other(z)]
             /\ twinTally[z] = tally[Other(z)] /\ twinHp[z] = hp[Other(z)]
             /\ twinDead[z] = dead[Other(z)]
  <2> DEFINE v == TwinThread(z)
             w == Thread(Other(z))
  <2>1. /\ v.hull = twinHull[z] /\ v.shield = twinShield[z] /\ v.tally = twinTally[z]
        /\ v.hp = twinHp[z] /\ v.dead = twinDead[z]
    BY TwinThreadHas
  <2>2. /\ w.hull = hull[Other(z)] /\ w.shield = shield[Other(z)] /\ w.tally = tally[Other(z)]
        /\ w.hp = hp[Other(z)] /\ w.dead = dead[Other(z)]
    BY ThreadHas
  <2>3. v = w
    BY <1>5
  <2> HIDE DEF v, w
  <2> QED BY <2>1, <2>2, <2>3
<1>7. ASSUME NEW z \in Seats
      PROVE  twinCharge[z] = charge[Other(z)] /\ twinLoop[z] = loop[Other(z)]
  <2>1. Other(z) \in Seats /\ Other(Other(z)) = z
    BY SeatsAre
  <2>2. Due(z).charge = charge[Other(z)] /\ Due(z).loop = loop[Other(z)] /\ Due(z) = TwinLot(z)
    BY <1>3, <1>4, <2>1 DEF Running, DueIsHad
  <2> QED BY <2>2, TwinLotOfHas
<1>8. Alike
  BY <1>2, <1>6, <1>7 DEF Alike, Exchanged, TwinFormed, OfSeats
<1>9. slug = NoSlug /\ twinSlug = NoSlug
  BY <1>1, <1>2 DEF Staged, TwinStaged
<1> QED BY <1>1, <1>8, <1>9 DEF Idle

\* A second begins, of two fights that are alike.
Opening ==
  /\ Alike /\ Paired /\ Formed /\ TwinFormed /\ clock \in Nat
  /\ agenda = CallsOf(clock) /\ twinAgenda = CallsOf(clock)
  /\ slug = NoSlug /\ todo = {} /\ twinSlug = NoSlug /\ twinTodo = {}

LEMMA OpeningIsFresh == Opening => Staged /\ TwinStaged /\ Powering /\ Fresh
<1> SUFFICES ASSUME Opening PROVE Staged /\ TwinStaged /\ Powering /\ Fresh
  OBVIOUS
<1>1. Staged /\ TwinStaged
  BY StartsStaged, TwinStartsStaged DEF Opening
<1>2. Pending(agenda) = CallSet /\ Pending(twinAgenda) = CallSet
  BY AllCalls DEF Opening
<1>3. \A x \in Seats : {<<"power", x>>, <<"resolve", x>>, <<"upkeep", x>>} \subseteq CallSet
  BY DEF CallSet
<1>4. Powering
  BY <1>2, <1>3 DEF Powering, Seats
<1>5. ASSUME NEW x \in Seats
      PROVE  TwinDeck(Other(x)) = Deck(x)
  <2>1. Other(x) \in Seats /\ Other(Other(x)) = x
    BY SeatsAre
  <2>2. /\ twinShip[Other(x)] = ship[x] /\ twinHull[Other(x)] = hull[x]
        /\ twinHull[x] = hull[Other(x)] /\ twinMult[Other(x)] = mult[x]
        /\ twinHp[Other(x)] = hp[x] /\ twinDead[Other(x)] = dead[x]
        /\ twinCharge[Other(x)] = charge[x] /\ twinLoop[Other(x)] = loop[x]
    BY <2>1 DEF Opening, Alike, Paired, Exchanged
  <2> QED BY <2>1, <2>2 DEF TwinDeck, Deck
<1>6. Fresh
  BY <1>2, <1>3, <1>5 DEF Fresh, Opening, Alike
<1> QED BY <1>1, <1>4, <1>6

LEMMA OpeningIsFreshNext == Opening' => Staged' /\ TwinStaged' /\ Powering' /\ Fresh'
BY OpeningIsFresh, PTL

LEMMA PairStarts ==
  ASSUME PairInit
  PROVE  PairInv
<1>1. Init /\ given = Nothing /\ twinShip = Exchanged(ship) /\ Twin!StartCombat
  BY DEF PairInit
<1>2. CombatInv
  BY <1>1, CombatInit
<1>3. /\ clock = 0 /\ phase = "second" /\ agenda = CallsOf(0)
      /\ slug = NoSlug /\ todo = {}
      /\ hull = [x \in Seats |-> WholeHull]
      /\ shield = [x \in Seats |-> 0] /\ tally = [x \in Seats |-> 0]
      /\ mult = [x \in Seats |-> 100]
      /\ hp = [x \in Seats |-> ship[x].full]
      /\ dead = [x \in Seats |-> {}]
      /\ charge = [x \in Seats |-> [p \in Guns(ship[x]) |-> 0]]
      /\ shots = charge /\ damage = charge
      /\ pin = [x \in Seats |-> [c \in Cells |-> 0]]
      /\ loop = [x \in Seats |-> NoLoop]
  BY <1>1 DEF Init, StartCombat
<1>4. /\ twinClock = 0 /\ twinPhase = "second" /\ twinAgenda = CallsOf(0)
      /\ twinSlug = NoSlug /\ twinTodo = {}
      /\ twinHull = [x \in Seats |-> WholeHull]
      /\ twinShield = [x \in Seats |-> 0] /\ twinTally = [x \in Seats |-> 0]
      /\ twinMult = [x \in Seats |-> 100]
      /\ twinHp = [x \in Seats |-> twinShip[x].full]
      /\ twinDead = [x \in Seats |-> {}]
      /\ twinCharge = [x \in Seats |-> [p \in Guns(twinShip[x]) |-> 0]]
      /\ twinShots = twinCharge /\ twinDamage = twinCharge
      /\ twinPin = [x \in Seats |-> [c \in Cells |-> 0]]
      /\ twinLoop = [x \in Seats |-> NoLoop]
  <2>1. /\ \A t : Twin!CallsOf(t) = CallsOf(t)
        /\ Twin!WholeHull = WholeHull
    BY TwinSeatsAre DEF CallsOf, Twin!CallsOf, Twin!Other, Other, WholeHull, Twin!WholeHull
  <2> QED BY <1>1, <2>1, TwinConstants DEF Twin!StartCombat
<1>5. Formed /\ TwinFormed
  BY <1>3, <1>4 DEF Formed, TwinFormed, OfSeats
<1>6. Paired
  BY <1>1, <1>3, <1>4, SeatsAre DEF Paired, OfSeats, Exchanged, Nothing
<1>7. Alike
  <2>1. \A x \in Seats : Other(x) \in Seats
    BY SeatsAre
  <2> QED BY <1>1, <1>3, <1>4, <2>1 DEF Alike, Exchanged
<1>8. Opening
  BY <1>3, <1>4, <1>5, <1>6, <1>7 DEF Opening
<1> QED BY <1>2, <1>3, <1>5, <1>6, <1>8, OpeningIsFresh DEF PairInv

LEMMA BothEndPairs ==
  ASSUME PairInv, BothEnd
  PROVE  PairInv'
<1>1. EndSecond /\ Twin!EndSecond /\ given' = Nothing
  BY DEF BothEnd
<1>2. CombatInv /\ Formed /\ TwinFormed /\ Paired
  BY DEF PairInv
<1>3. Alike /\ Idle
  BY <1>1, SecondsEndAlike DEF EndSecond, Twin!EndSecond
<1>4. /\ phase = "second" /\ clock' = clock + 1
      /\ phase' = IF Verdict(0, clock') # "ongoing" THEN "over"
                  ELSE IF clock' % RoundTicks = 0 THEN "break"
                  ELSE "second"
      /\ agenda' = IF phase' = "second" THEN CallsOf(clock') ELSE <<>>
      /\ UNCHANGED <<ship, slug, todo, mult>>
      /\ UNCHANGED <<hull, shield, tally, hp, dead, charge, shots, damage, pin, loop>>
  BY <1>1 DEF EndSecond, SecondIsOver, body, guns
<1>5. /\ twinClock' = twinClock + 1
      /\ twinPhase' = IF Twin!Verdict(0, twinClock') # "ongoing" THEN "over"
                      ELSE IF twinClock' % RoundTicks = 0 THEN "break"
                      ELSE "second"
      /\ twinAgenda' = IF twinPhase' = "second" THEN CallsOf(twinClock') ELSE <<>>
      /\ UNCHANGED <<twinShip, twinSlug, twinTodo, twinMult>>
      /\ UNCHANGED <<twinHull, twinShield, twinTally, twinHp, twinDead, twinCharge,
                     twinShots, twinDamage, twinPin, twinLoop>>
  <2>1. \A t : Twin!CallsOf(t) = CallsOf(t)
    BY DEF CallsOf, Twin!CallsOf, Twin!Other, Other
  <2> QED BY <1>1, <2>1 DEF Twin!EndSecond, Twin!SecondIsOver, Twin!body, Twin!guns
<1>6. CombatInv'
  BY <1>1, <1>2, CombatStep DEF Next
<1>7. clock' \in Nat /\ twinClock' = clock'
  BY <1>2, <1>4, <1>5 DEF CombatInv, CombatTypeOK, StageOK, Paired
<1>8. twinPhase' = phase'
  <2>1. Twin!Verdict(0, clock') = Verdict(Other(0), clock') /\ 0 \in Seats
    BY <1>2, <1>3, VerdictsAre DEF Seats
  <2>2. Verdict(0, clock') = "ongoing" <=> Verdict(Other(0), clock') = "ongoing"
    BY <2>1, OngoingForBoth
  <2> QED BY <1>4, <1>5, <1>7, <2>1, <2>2
<1>9. Formed' /\ TwinFormed'
  BY <1>2, <1>4, <1>5 DEF Formed, TwinFormed
<1>10. Paired'
  <2>1. OfSeats(given')
    BY <1>1 DEF OfSeats, Nothing
  <2> QED BY <1>2, <1>4, <1>5, <1>7, <1>8, <2>1 DEF Paired, Exchanged
<1>11. Alike'
  BY <1>3, <1>4, <1>5 DEF Alike, Exchanged
<1>12. slug' = NoSlug /\ todo' = {} /\ twinSlug' = NoSlug /\ twinTodo' = {}
  BY <1>3, <1>4, <1>5 DEF Idle
<1>13. CASE phase' = "second"
  <2>1. Opening'
    BY <1>4, <1>5, <1>7, <1>8, <1>9, <1>10, <1>11, <1>12, <1>13 DEF Opening
  <2> QED BY <1>6, <1>9, <1>10, <1>13, <2>1, OpeningIsFreshNext DEF PairInv
<1>14. CASE phase' # "second"
  <2>1. Idle'
    BY <1>4, <1>5, <1>8, <1>12, <1>14 DEF Idle
  <2>2. Staged' /\ TwinStaged'
    BY <2>1, NoCalls DEF Staged, TwinStaged, Idle
  <2> QED BY <1>6, <1>9, <1>10, <1>11, <1>14, <2>1, <2>2 DEF PairInv
<1> QED BY <1>13, <1>14

LEMMA EffectsAre ==
  ASSUME Alike, Paired, NEW answer, NEW target, NEW x \in Seats
  PROVE  Twin!EffectOf(x, Exchanged(answer), target) = EffectOf(Other(x), answer, target)
<1> DEFINE y == Other(x)
<1>1. /\ y \in Seats /\ Twin!Other(x) = y /\ Other(y) = x
      /\ Twin!Score(x) = Score(y) /\ Twin!Score(y) = Score(x)
      /\ Exchanged(answer)[x] = answer[y]
  <2>1. y \in Seats
    BY SeatsAre
  <2> QED BY <2>1, AlikeIs DEF Exchanged
<1> HIDE DEF y
<1>2. \A mine, theirs : Twin!StandingOf(mine, theirs) = StandingOf(mine, theirs)
  BY DEF StandingOf, Twin!StandingOf
<1>3. \A call, at : Twin!GradeOf(call, at, target) = GradeOf(call, at, target)
  BY DEF GradeOf, Twin!GradeOf, PerfectMs, Twin!PerfectMs, GoodMs, Twin!GoodMs
<1>4. \A call, grade, standing :
        Twin!Effect(call, grade, standing) = Effect(call, grade, standing)
  <2>1. \A standing : Twin!WinShare(standing) = WinShare(standing)
                      /\ Twin!MissShare(standing) = MissShare(standing)
    BY DEF WinShare, Twin!WinShare, MissShare, Twin!MissShare
  <2>2. Twin!BackfireHull = BackfireHull
    BY DEF BackfireHull, Twin!BackfireHull
  <2> QED BY <2>1, <2>2 DEF Effect, Twin!Effect
<1>5. Twin!EffectOf(x, Exchanged(answer), target) = EffectOf(y, answer, target)
  BY <1>1, <1>2, <1>3, <1>4 DEF EffectOf, Twin!EffectOf
<1> QED BY <1>5 DEF y

LEMMA BothBreakPairs ==
  ASSUME PairInv, BothBreak
  PROVE  PairInv'
<1>1. PICK answer \in [Seats -> Answers], target \in Targets :
        Break(answer, target) /\ Twin!Break(Exchanged(answer), target)
  BY DEF BothBreak
<1>2. CombatInv /\ Formed /\ TwinFormed /\ Paired
  BY DEF PairInv
<1> DEFINE e(x) == EffectOf(x, answer, target)
           f(x) == Twin!EffectOf(x, Exchanged(answer), target)
<1>3. /\ phase = "break"
      /\ mult' = [x \in Seats |-> e(x).mult]
      /\ shield' = [x \in Seats |-> shield[x] + e(x).armor]
      /\ hull' = [x \in Seats |-> Backfired(x, e(x))]
      /\ phase' = "second" /\ agenda' = CallsOf(clock)
      /\ UNCHANGED <<ship, clock, slug, todo>>
      /\ UNCHANGED <<tally, hp, dead, charge, shots, damage, pin, loop>>
  BY <1>1 DEF Break, guns
<1>4. /\ twinMult' = [x \in Seats |-> f(x).mult]
      /\ twinShield' = [x \in Seats |-> twinShield[x] + f(x).armor]
      /\ twinHull' = [x \in Seats |-> Twin!Backfired(x, f(x))]
      /\ twinPhase' = "second" /\ twinAgenda' = CallsOf(twinClock)
      /\ UNCHANGED <<twinShip, twinClock, twinSlug, twinTodo>>
      /\ UNCHANGED <<twinTally, twinHp, twinDead, twinCharge, twinShots, twinDamage, twinPin,
                     twinLoop>>
  <2>1. /\ \A t : Twin!CallsOf(t) = CallsOf(t)
        /\ Twin!Seats = Seats
    BY TwinConstants DEF CallsOf, Twin!CallsOf, Twin!Other, Other
  <2> QED BY <1>1, <2>1 DEF Twin!Break, Twin!guns
<1>5. Alike /\ Idle
  BY <1>3 DEF PairInv
<1>6. \A x \in Seats : Other(x) \in Seats /\ f(x) = e(Other(x))
  BY <1>2, <1>5, EffectsAre, SeatsAre
<1>7. \A x \in Seats : Twin!Backfired(x, f(x)) = Backfired(Other(x), e(Other(x)))
  <2>1. \A n, most : Twin!AtMost(n, most) = AtMost(n, most)
    BY TwinConstants
  <2>2. \A x \in Seats : twinHull[x] = hull[Other(x)]
    BY <1>5 DEF Alike, Exchanged
  <2> HIDE DEF e, f
  <2> QED BY <1>6, <2>1, <2>2 DEF Backfired, Twin!Backfired
<1> HIDE DEF e, f
<1>8. CombatInv'
  <2>1. CallsMade
    BY <1>1 DEF CallsMade
  <2> QED BY <1>2, <2>1, CombatStep DEF Next
<1>9. Formed' /\ TwinFormed' /\ OfSeats(mult')
  BY <1>2, <1>3, <1>4 DEF Formed, TwinFormed, OfSeats
<1>10. Paired'
  <2>1. twinMult' = [x \in Seats |-> mult'[Other(x)]]
    BY <1>3, <1>4, <1>6
  <2>2. given' = given
    BY DEF BothBreak
  <2> QED BY <1>2, <1>3, <1>4, <1>9, <2>1, <2>2 DEF Paired, Exchanged
<1>11. Alike'
  <2>1. twinHull' = [x \in Seats |-> hull'[Other(x)]]
    BY <1>3, <1>4, <1>6, <1>7
  <2>2. twinShield' = [x \in Seats |-> shield'[Other(x)]]
    BY <1>3, <1>4, <1>5, <1>6 DEF Alike, Exchanged
  <2> QED BY <1>3, <1>4, <1>5, <2>1, <2>2 DEF Alike, Exchanged
<1>12. clock' \in Nat /\ twinClock = clock
  BY <1>2, <1>3 DEF CombatInv, CombatTypeOK, StageOK, Paired
<1>13. Opening'
  BY <1>3, <1>4, <1>5, <1>9, <1>10, <1>11, <1>12 DEF Opening, Idle
<1> QED BY <1>3, <1>8, <1>9, <1>10, <1>13, OpeningIsFreshNext DEF PairInv

LEMMA PairRests ==
  ASSUME PairInv, UNCHANGED <<given, vars, twin>>
  PROVE  PairInv'
<1>1. /\ UNCHANGED <<ship, clock, phase, agenda, slug, todo, hull, shield, tally>>
      /\ UNCHANGED <<mult, hp, dead, charge, shots, damage, pin, loop>>
      /\ Formed' /\ Staged'
      /\ \A z : Lot(z)' = Lot(z) /\ Deck(z)' = Deck(z) /\ Thread(z)' = Thread(z)
  BY Holds DEF PairInv
<1>2. /\ UNCHANGED <<twinShip, twinClock, twinPhase, twinAgenda, twinSlug, twinTodo>>
      /\ UNCHANGED <<twinHull, twinShield, twinTally, twinMult, twinHp, twinDead, twinCharge,
                     twinLoop>>
      /\ TwinFormed' /\ TwinStaged'
      /\ \A z : TwinDeck(z)' = TwinDeck(z)
  BY TwinHolds DEF PairInv
<1>3. \A z : Due(z)' = Due(z) /\ DueThread(z)' = DueThread(z)
  BY DueHolds
<1>4. CombatInv'
  BY CombatStep DEF PairInv
<1>5. Paired'
  BY <1>1, <1>2 DEF PairInv, Paired, Exchanged
<1>6. Alike => Alike'
  BY <1>1, <1>2 DEF Alike, Exchanged
<1>7. Idle => Idle'
  BY <1>1, <1>2 DEF Idle
<1>8. Powering' <=> Powering
  BY <1>1 DEF Powering
<1>9. Fresh => Fresh'
  BY <1>1, <1>2, <1>3 DEF Fresh, Exchanged
<1>10. Running => Running'
  BY <1>1, <1>3 DEF Running
<1> QED BY <1>1, <1>2, <1>4, <1>5, <1>6, <1>7, <1>8, <1>9, <1>10 DEF PairInv

LEMMA PairStep ==
  ASSUME PairInv, [PairNext]_<<given, vars, twin>>
  PROVE  PairInv'
BY FightPowerPairs, FightGoesPairs, TwinPowerPairs, TwinGoesPairs, BothEndPairs,
   BothBreakPairs, PairRests DEF PairNext

LEMMA PairInvariant == PairSpec => []PairInv
<1>1. PairInit => PairInv
  BY PairStarts
<1>2. PairInv /\ [PairNext]_<<given, vars, twin>> => PairInv'
  BY PairStep
<1> QED BY <1>1, <1>2, PTL DEF PairSpec

LEMMA FairNow == PairInv => SeatsAreFair
<1> SUFFICES ASSUME PairInv, phase # "second" \/ (SecondIsOver /\ Twin!SecondIsOver)
             PROVE  /\ twinHull = Exchanged(hull) /\ twinShield = Exchanged(shield)
                    /\ twinTally = Exchanged(tally) /\ twinMult = Exchanged(mult)
                    /\ twinHp = Exchanged(hp) /\ twinDead = Exchanged(dead)
                    /\ twinCharge = Exchanged(charge) /\ twinLoop = Exchanged(loop)
                    /\ twinPhase = phase
                    /\ \A x \in Seats : Twin!Verdict(x, clock) = Verdict(Other(x), clock)
  BY DEF SeatsAreFair
<1>1. Alike /\ Paired
  BY SecondsEndAlike DEF PairInv
<1>2. \A x \in Seats : Twin!Verdict(x, clock) = Verdict(Other(x), clock)
  BY <1>1, VerdictsAre
<1> QED BY <1>1, <1>2 DEF Alike, Paired

-----------------------------------------------------------------------------
(* The structure of a ship is a number.                                    *)

LEMMA Upward ==
  ASSUME NEW n \in Nat, NEW S, 0 \in S, \A i \in 1 .. n : i - 1 \in S => i \in S
  PROVE  n \in S
<1> DEFINE Missed == {i \in 0 .. n : i \notin S}
<1>1. ASSUME Missed # {} PROVE FALSE
  <2>1. Missed \subseteq Nat
    OBVIOUS
  <2>2. PICK m \in Missed : \A k \in Missed : ~(<<k, m>> \in OpToRel(<, Nat))
    <3> HIDE DEF Missed
    <3> QED BY <1>1, <2>1, NatLessThanWellFounded, WFMin
  <2>3. m \in 1 .. n /\ m \notin S
    OBVIOUS
  <2>4. m - 1 \in 0 .. n /\ m - 1 < m /\ m - 1 \in Nat /\ m \in Nat
    BY <2>3
  <2>5. m - 1 \in Missed
    BY <2>3, <2>4
  <2> HIDE DEF Missed
  <2> QED BY <2>2, <2>4, <2>5 DEF OpToRel
<1> QED BY <1>1

\* A sum taken one member at a time, whichever CHOOSE takes first.
LEMMA SumType ==
  ASSUME NEW S, IsFiniteSet(S), NEW f \in [S -> Nat]
  PROVE  FoldFunction(+, 0, f) \in Nat
<1> DEFINE first(s) == CHOOSE x \in s : TRUE
           rest(s) == s \ {first(s)}
           Low(n) == {s \in SUBSET S : Cardinality(s) <= n}
           Along(g, D) == [s \in D |-> IF s = {} THEN 0 ELSE f[first(s)] + g[rest(s)]]
           N == Cardinality(S)
           iter == CHOOSE g : g = Along(g, SUBSET S)
<1>1. N \in Nat /\ \A s \in SUBSET S : IsFiniteSet(s) /\ Cardinality(s) \in Nat /\ Cardinality(s) <= N
  BY FS_Subset, FS_CardinalityType
<1>2. Low(N) = SUBSET S
  BY <1>1
<1>3. \A s \in SUBSET S : s # {} => first(s) \in s /\ Cardinality(rest(s)) = Cardinality(s) - 1
                                    /\ rest(s) \in SUBSET S
  BY <1>1, FS_RemoveElement
<1>4. \A s \in SUBSET S : Cardinality(s) <= 0 => s = {}
  BY <1>1, FS_EmptySet
<1>5. {} \in SUBSET S /\ Cardinality({}) = 0
  BY FS_EmptySet
<1> HIDE DEF N, first, rest
<1>6. ASSUME NEW n \in 1 .. N, NEW s \in Low(n), s # {}
      PROVE  rest(s) \in Low(n - 1) /\ f[first(s)] \in Nat
  <2>1. Cardinality(s) \in Nat /\ Cardinality(s) <= n /\ s \in SUBSET S
    BY <1>1
  <2>2. /\ first(s) \in s /\ Cardinality(rest(s)) = Cardinality(s) - 1
        /\ rest(s) \in SUBSET S
    BY <1>3, <1>6, <2>1
  <2>3. first(s) \in S
    BY <2>1, <2>2
  <2>4. n \in Int /\ Cardinality(rest(s)) <= n - 1
    BY <1>1, <2>1, <2>2
  <2> QED BY <2>2, <2>3, <2>4
<1> DEFINE Has == {n \in 0 .. N : \E g \in [Low(n) -> Nat] : g = Along(g, Low(n))}
<1>7. 0 \in Has
  <2> DEFINE g == [s \in Low(0) |-> 0]
  <2>1. \A s \in Low(0) : s = {}
    BY <1>4
  <2>2. g = Along(g, Low(0))
    <3> HIDE DEF Low
    <3> QED BY <2>1
  <2>3. g \in [Low(0) -> Nat]
    OBVIOUS
  <2> HIDE DEF g, Along, Low
  <2> QED BY <1>1, <2>2, <2>3
<1>8. ASSUME NEW n \in 1 .. N, n - 1 \in Has
      PROVE  n \in Has
  <2>1. PICK g \in [Low(n - 1) -> Nat] : g = Along(g, Low(n - 1))
    BY <1>8
  <2> DEFINE h == Along(g, Low(n))
  <2>2. h \in [Low(n) -> Nat]
    <3>1. ASSUME NEW s \in Low(n), s # {}
          PROVE  f[first(s)] + g[rest(s)] \in Nat
      <4>1. rest(s) \in Low(n - 1) /\ f[first(s)] \in Nat
        BY <1>6, <3>1
      <4>2. g[rest(s)] \in Nat
        <5> HIDE DEF Low
        <5> QED BY <2>1, <4>1
      <4> QED BY <4>1, <4>2
    <3> HIDE DEF Low
    <3> QED BY <3>1
  <2>3. \A s \in Low(n - 1) : s \in Low(n)
    BY <1>1
  <2>4. \A s \in Low(n - 1) : h[s] = g[s]
    <3>1. \A s \in Low(n - 1) : g[s] = IF s = {} THEN 0 ELSE f[first(s)] + g[rest(s)]
      <4> HIDE DEF Low
      <4> QED BY <2>1
    <3>2. \A s \in Low(n) : h[s] = IF s = {} THEN 0 ELSE f[first(s)] + g[rest(s)]
      <4> HIDE DEF Low
      <4> QED OBVIOUS
    <3> HIDE DEF h, Low
    <3> QED BY <2>3, <3>1, <3>2
  <2>5. h = Along(h, Low(n))
    <3>1. \A s \in Low(n) : s # {} => h[rest(s)] = g[rest(s)]
      <4> HIDE DEF h
      <4> QED BY <1>6, <2>4
    <3>2. \A s \in Low(n) : h[s] = IF s = {} THEN 0 ELSE f[first(s)] + h[rest(s)]
      <4>1. \A s \in Low(n) : h[s] = IF s = {} THEN 0 ELSE f[first(s)] + g[rest(s)]
        <5> HIDE DEF Low
        <5> QED OBVIOUS
      <4> HIDE DEF h, Low
      <4> QED BY <3>1, <4>1
    <3> HIDE DEF h, Low
    <3> QED BY <2>2, <3>2
  <2> HIDE DEF h, Along, Low
  <2> QED BY <1>1, <2>2, <2>5
<1>9. N \in Has
  <2> HIDE DEF Has
  <2> QED BY <1>1, <1>7, <1>8, Upward
<1>10. iter = Along(iter, SUBSET S)
  <2>1. \E g : g = Along(g, SUBSET S)
    BY <1>2, <1>9
  <2> HIDE DEF Along
  <2> QED BY <2>1
<1> DEFINE Sums == {n \in 0 .. N : \A s \in Low(n) : iter[s] \in Nat}
<1>11. \A s \in SUBSET S : iter[s] = IF s = {} THEN 0 ELSE f[first(s)] + iter[rest(s)]
  BY <1>10
<1>12. FoldFunction(+, 0, f) = iter[S]
  BY DEF FoldFunction, FoldFunctionOnSet, MapThenFoldSet, first, rest
<1> HIDE DEF iter
<1>13. N \in Sums
  <2>1. 0 \in Sums
    BY <1>1, <1>4, <1>11
  <2>2. ASSUME NEW n \in 1 .. N, n - 1 \in Sums
        PROVE  n \in Sums
    <3>1. ASSUME NEW s \in Low(n)
          PROVE  iter[s] \in Nat
      <4>1. CASE s = {}
        BY <1>11, <4>1
      <4>2. CASE s # {}
        <5>1. rest(s) \in Low(n - 1) /\ f[first(s)] \in Nat
          BY <1>6, <4>2
        <5>2. iter[rest(s)] \in Nat
          BY <2>2, <5>1
        <5>3. iter[s] = f[first(s)] + iter[rest(s)]
          BY <1>11, <4>2
        <5> QED BY <5>1, <5>2, <5>3
      <4> QED BY <4>1, <4>2
    <3> QED BY <1>1, <3>1
  <2> HIDE DEF Sums
  <2> QED BY <1>1, <2>1, <2>2, Upward
<1> QED BY <1>2, <1>12, <1>13

LEMMA ScoreType ==
  ASSUME CombatInv, NEW x \in Seats
  PROVE  Structure(x) \in Nat /\ Score(x) \in Nat
<1>1. IsFiniteSet(Cells)
  <2>1. GridH - 1 \in Int /\ GridW - 1 \in Int /\ 0 \in Int
    BY GridAssumption
  <2>2. IsFiniteSet(0 .. GridH - 1) /\ IsFiniteSet(0 .. GridW - 1)
    BY <2>1, FS_Interval
  <2> QED BY <2>2, FS_Product DEF Cells
<1>2. hp[x] \in [Cells -> Nat] /\ hull[x] \in Nat /\ shield[x] \in Nat
  <2>1. WholeHull \in Nat
    BY DEF WholeHull
  <2>2. hp[x] \in [Cells -> Nat] /\ hull[x] \in 0 .. WholeHull /\ shield[x] \in Nat
    BY Here
  <2> QED BY <2>1, <2>2
<1>3. Structure(x) \in Nat
  BY <1>1, <1>2, SumType DEF Structure
<1> QED BY <1>2, <1>3 DEF Score

-----------------------------------------------------------------------------
(* A break does not widen a lead.                                          *)

\* What the same call, graded the same, does to the ship that is behind and to
\* the one that is ahead.
LEMMA LeversCompare ==
  ASSUME NEW call, NEW grade
  PROVE  LET e == Effect(call, grade, "behind")
             d == Effect(call, grade, "ahead")
         IN /\ e.mult >= d.mult /\ e.armor >= d.armor /\ e.backfire <= d.backfire
<1> DEFINE e == Effect(call, grade, "behind")
           d == Effect(call, grade, "ahead")
<1>1. WinShare("behind") = 16 /\ WinShare("ahead") = 4
      /\ MissShare("behind") = 14 /\ MissShare("ahead") = 16
  BY DEF WinShare, MissShare
<1>2. CASE call = "overcharge" /\ grade = "perfect"
  BY <1>1, <1>2 DEF Effect
<1>3. CASE call = "overcharge" /\ grade = "good"
  BY <1>1, <1>3 DEF Effect
<1>4. CASE call = "overcharge" /\ grade = "miss"
  BY <1>1, <1>4 DEF Effect, BackfireHull
<1>5. CASE call = "brace" /\ grade = "perfect"
  BY <1>1, <1>5 DEF Effect
<1>6. CASE call = "brace" /\ grade = "good"
  BY <1>1, <1>6 DEF Effect
<1>7. CASE /\ ~(call = "overcharge" /\ grade \in {"perfect", "good", "miss"})
           /\ ~(call = "brace" /\ grade \in {"perfect", "good"})
  BY <1>7 DEF Effect
<1> QED BY <1>2, <1>3, <1>4, <1>5, <1>6, <1>7

LEMMA CatchesUp ==
  ASSUME CombatInv, NEW answer, NEW target, NEW x \in Seats, Break(answer, target),
         answer[x] = answer[Other(x)], Score(x) < Score(Other(x)), hull'[Other(x)] > 0
  PROVE  /\ mult'[x] >= mult'[Other(x)]
         /\ Score(Other(x))' - Score(x)' <= Score(Other(x)) - Score(x)
<1> DEFINE y == Other(x)
           call == answer[x].call
           grade == GradeOf(call, answer[x].at, target)
           e == Effect(call, grade, "behind")
           d == Effect(call, grade, "ahead")
<1>1. y \in Seats /\ Other(y) = x
  BY SeatsAre
<1>2. /\ Structure(x) \in Nat /\ Score(x) \in Nat
      /\ Structure(y) \in Nat /\ Score(y) \in Nat
  BY <1>1, ScoreType
<1>3. WholeHull \in Nat
  BY DEF WholeHull
<1>4. /\ hull[x] \in Nat /\ shield[x] \in Nat /\ hull[y] \in Nat /\ shield[y] \in Nat
  BY <1>1, <1>3, Here
<1> HIDE DEF y, grade
<1>5. EffectOf(x, answer, target) = e /\ EffectOf(y, answer, target) = d
  <2>1. StandingOf(Score(x), Score(y)) = "behind" /\ StandingOf(Score(y), Score(x)) = "ahead"
    BY <1>2 DEF StandingOf, y
  <2> QED BY <1>1, <2>1 DEF EffectOf, y, grade
<1>6. e.mult >= d.mult /\ e.armor >= d.armor /\ e.backfire <= d.backfire
  BY LeversCompare
<1>7. /\ e.mult \in Nat /\ e.armor \in Nat /\ e.backfire \in Nat
      /\ d.mult \in Nat /\ d.armor \in Nat /\ d.backfire \in Nat
  BY EffectType
<1> HIDE DEF e, d
<1>8. /\ mult'[x] = e.mult /\ mult'[y] = d.mult
      /\ shield'[x] = shield[x] + e.armor /\ shield'[y] = shield[y] + d.armor
      /\ hull'[x] = hull[x] - AtMost(e.backfire, hull[x])
      /\ hull'[y] = hull[y] - AtMost(d.backfire, hull[y])
      /\ hp' = hp
  BY <1>1, <1>5 DEF Break, Backfired
<1>9. hull'[y] > 0
  BY DEF y
<1>10. PICK cut \in Nat : cut <= e.backfire /\ cut <= hull[x] /\ hull'[x] = hull[x] - cut
  BY <1>4, <1>7, <1>8, AtMostBounds
<1>11. hull'[y] = hull[y] - d.backfire
  <2>1. AtMost(d.backfire, hull[y]) = IF d.backfire > hull[y] THEN hull[y] ELSE d.backfire
    BY DEF AtMost
  <2> QED BY <1>4, <1>7, <1>8, <1>9, <2>1
<1>12. /\ Score(x)' = 8 * (hull'[x] + shield'[x]) + Structure(x)
       /\ Score(y)' = 8 * (hull'[y] + shield'[y]) + Structure(y)
       /\ Score(x) = 8 * (hull[x] + shield[x]) + Structure(x)
       /\ Score(y) = 8 * (hull[y] + shield[y]) + Structure(y)
  <2>1. Structure(x)' = Structure(x) /\ Structure(y)' = Structure(y)
    BY <1>8 DEF Structure, y, FoldFunction, FoldFunctionOnSet, MapThenFoldSet
  <2> QED BY <2>1 DEF Score, y
<1>13. Score(y)' - Score(x)' <= Score(y) - Score(x)
  <2> DEFINE a == hull[x]
             b == hull[y]
             s == shield[x]
             t == shield[y]
             p == Structure(x)
             q == Structure(y)
  <2>1. /\ Score(x)' = 8 * ((a - cut) + (s + e.armor)) + p
        /\ Score(y)' = 8 * ((b - d.backfire) + (t + d.armor)) + q
        /\ Score(x) = 8 * (a + s) + p /\ Score(y) = 8 * (b + t) + q
    BY <1>8, <1>10, <1>11, <1>12
  <2>2. a \in Nat /\ b \in Nat /\ s \in Nat /\ t \in Nat /\ p \in Nat /\ q \in Nat
    BY <1>2, <1>4
  <2>3. cut <= d.backfire
    BY <1>6, <1>7, <1>10
  <2> HIDE DEF a, b, s, t, p, q
  <2> QED BY <1>6, <1>7, <2>1, <2>2, <2>3
<1> QED BY <1>6, <1>8, <1>13 DEF y

LEMMA BreakCatchesUp == Spec => BreaksCatchUp
<1> DEFINE Catch ==
      \A answer \in [Seats -> Answers], target \in Targets, x \in Seats :
        LET y == Other(x)
        IN /\ Break(answer, target) /\ answer[x] = answer[y] /\ Score(x) < Score(y)
           /\ hull'[y] > 0
           => /\ mult'[x] >= mult'[y]
              /\ Score(y)' - Score(x)' <= Score(y) - Score(x)
<1>1. CombatInv => Catch
  BY CatchesUp
<1>2. CombatInv /\ [Next]_vars => [Catch]_vars
  BY <1>1
<1> QED BY <1>2, CombatInvariant, PTL DEF Spec, BreaksCatchUp

-----------------------------------------------------------------------------
(* What the players are told.                                              *)

\* A fight that is over has been decided.
Decided == phase = "over" => clock >= TimeoutTicks \/ \E x \in Seats : hull[x] = 0

LEMMA DecidedKept ==
  ASSUME CombatInv, Decided, [Next]_vars
  PROVE  Decided'
<1>1. CASE PowerUp \/ Goes
  BY <1>1, StepsInside DEF Inside, Decided
<1>2. CASE EndSecond
  <2>1. clock' = clock + 1 /\ hull' = hull
        /\ (phase' = "over" => Verdict(0, clock') # "ongoing")
    BY <1>2 DEF EndSecond, body
  <2>2. clock \in Nat /\ clock' \in Nat /\ TimeoutTicks \in Nat
    BY <2>1, CombatAssumption DEF CombatInv, CombatTypeOK, StageOK
  <2>3. ASSUME phase' = "over"
        PROVE  clock' >= TimeoutTicks \/ \E x \in Seats : hull[x] = 0
    BY <2>1, <2>2, <2>3, OngoingIs
  <2> QED BY <2>1, <2>3 DEF Decided
<1>3. CASE CallsMade
  BY <1>3 DEF CallsMade, Break, Decided
<1>4. CASE UNCHANGED vars
  BY <1>4 DEF vars, body, Decided
<1> QED BY <1>1, <1>2, <1>3, <1>4 DEF Next

LEMMA HullByteIs ==
  ASSUME NEW h \in 0 .. WholeHull
  PROVE  /\ HullByte(h) \in Nat /\ (HullByte(h) = 0 <=> h = 0)
         /\ \A g \in 0 .. WholeHull : g >= h => HullByte(g) >= HullByte(h)
<1>1. ASSUME NEW g \in 0 .. WholeHull
      PROVE  HullByte(g) = IF g = 0 THEN 0 ELSE IF g < 100 THEN 1 ELSE (g + 50) \div 100
  BY DEF HullByte, AtMost, WholeHull
<1>2. \A g \in 0 .. WholeHull : g \in Nat
  BY DEF WholeHull
<1>3. \A g \in Nat : g >= 100 => (g + 50) \div 100 \in Nat /\ (g + 50) \div 100 >= 1
  OBVIOUS
<1>4. \A g, k \in Nat : g >= k => (g + 50) \div 100 >= (k + 50) \div 100
  OBVIOUS
<1>5. HullByte(h) \in Nat /\ (HullByte(h) = 0 <=> h = 0)
  BY <1>1, <1>2, <1>3
<1>6. ASSUME NEW g \in 0 .. WholeHull, g >= h
      PROVE  HullByte(g) >= HullByte(h)
  BY <1>1, <1>2, <1>3, <1>4, <1>6
<1> QED BY <1>5, <1>6

LEMMA EffectBytesDiffer ==
  ASSUME NEW call \in Calls, NEW grade \in {"miss", "good", "perfect"},
         NEW s \in Standings, NEW t \in Standings,
         Effect(call, grade, s) # Effect(call, grade, t)
  PROVE  EffectByte(call, Effect(call, grade, s)) # EffectByte(call, Effect(call, grade, t))
<1>1. WinShare("behind") = 16 /\ WinShare("level") = 10 /\ WinShare("ahead") = 4
      /\ MissShare("behind") = 14 /\ MissShare("level") = 10 /\ MissShare("ahead") = 16
  BY DEF WinShare, MissShare
<1>2. s \in {"behind", "level", "ahead"} /\ t \in {"behind", "level", "ahead"} /\ s # t
  BY DEF Standings
<1>3. ASSUME NEW u \in {"behind", "level", "ahead"}
      PROVE  LET e == Effect(call, grade, u)
             IN /\ call = "overcharge" /\ grade = "perfect" =>
                     e.mult = 100 + 5 * WinShare(u) /\ e.backfire = 0
                /\ call = "overcharge" /\ grade = "good" =>
                     e.mult = 100 + (5 * WinShare(u)) \div 2 /\ e.backfire = 0
                /\ call = "overcharge" /\ grade = "miss" =>
                     e.backfire = (800 * MissShare(u)) \div 10
                /\ call = "brace" /\ grade = "perfect" => e.armor = 250 * WinShare(u)
                /\ call = "brace" /\ grade = "good" => e.armor = 120 * WinShare(u)
                /\ call = "brace" /\ grade = "miss" =>
                     e = [mult |-> 100, armor |-> 0, backfire |-> 0]
  BY DEF Effect, BackfireHull
<1>4. ASSUME NEW u \in {"behind", "level", "ahead"}
      PROVE  LET b == EffectByte(call, Effect(call, grade, u))
             IN /\ call = "overcharge" /\ grade = "perfect" =>
                     b = IF u = "behind" THEN 90 ELSE IF u = "level" THEN 75 ELSE 60
                /\ call = "overcharge" /\ grade = "good" =>
                     b = IF u = "behind" THEN 70 ELSE IF u = "level" THEN 62 ELSE 55
                /\ call = "overcharge" /\ grade = "miss" =>
                     b = IF u = "behind" THEN 11 ELSE IF u = "level" THEN 8 ELSE 12
                /\ call = "brace" /\ grade = "perfect" =>
                     b = IF u = "behind" THEN 40 ELSE IF u = "level" THEN 25 ELSE 10
                /\ call = "brace" /\ grade = "good" =>
                     b = IF u = "behind" THEN 19 ELSE IF u = "level" THEN 12 ELSE 4
  <2> DEFINE e == Effect(call, grade, u)
  <2>1. u = "behind" \/ u = "level" \/ u = "ahead"
    OBVIOUS
  <2>2. CASE call = "overcharge" /\ grade = "perfect"
    <3>1. e.mult = 100 + 5 * WinShare(u) /\ e.backfire = 0
      BY <1>3, <2>2
    <3> HIDE DEF e
    <3>2. EffectByte(call, e) = AtMost(e.mult \div 2, 255)
      BY <2>2, <3>1 DEF EffectByte
    <3> QED BY <1>1, <2>1, <2>2, <3>1, <3>2 DEF AtMost, e
  <2>3. CASE call = "overcharge" /\ grade = "good"
    <3>1. e.mult = 100 + (5 * WinShare(u)) \div 2 /\ e.backfire = 0
      BY <1>3, <2>3
    <3> HIDE DEF e
    <3>2. EffectByte(call, e) = AtMost(e.mult \div 2, 255)
      BY <2>3, <3>1 DEF EffectByte
    <3> QED BY <1>1, <2>1, <2>3, <3>1, <3>2 DEF AtMost, e
  <2>4. CASE call = "overcharge" /\ grade = "miss"
    <3>1. e.backfire = (800 * MissShare(u)) \div 10
      BY <1>3, <2>4
    <3> HIDE DEF e
    <3>2. e.backfire = IF u = "behind" THEN 1120 ELSE IF u = "level" THEN 800 ELSE 1280
      BY <1>1, <2>1, <3>1
    <3>3. e.backfire > 0
      BY <2>1, <3>2
    <3> HIDE DEF e
    <3>4. call = "overcharge" /\ call # "brace"
      BY <2>4
    <3>5. EffectByte(call, e) = AtMost(e.backfire \div 100, 255)
      BY <3>3, <3>4 DEF EffectByte
    <3> QED BY <2>1, <2>4, <3>2, <3>5 DEF AtMost, e
  <2>5. CASE call = "brace" /\ grade \in {"perfect", "good"}
    <3>1. e.armor = IF grade = "perfect" THEN 250 * WinShare(u) ELSE 120 * WinShare(u)
      BY <1>3, <2>5
    <3> HIDE DEF e
    <3>2. EffectByte(call, e) = AtMost(e.armor \div 100, 255)
      BY <2>5 DEF EffectByte
    <3> QED BY <1>1, <2>1, <2>5, <3>1, <3>2 DEF AtMost, e
  <2> QED BY <2>2, <2>3, <2>4, <2>5
<1>5. ~(call = "brace" /\ grade = "miss")
  BY <1>2, <1>3
<1>6. call = "overcharge" \/ call = "brace"
  BY DEF Calls
<1>7. CASE grade = "perfect"
  BY <1>2, <1>4, <1>6, <1>7
<1>8. CASE grade = "good"
  BY <1>2, <1>4, <1>6, <1>8
<1>9. CASE grade = "miss"
  BY <1>2, <1>4, <1>5, <1>6, <1>9
<1> QED BY <1>7, <1>8, <1>9

LEMMA ToldNow ==
  ASSUME CombatInv, Decided
  PROVE  ToldTruly
<1>1. ASSUME NEW x \in Seats
      PROVE  LET tick == TickFor(x)
             IN /\ tick.hull_you = 0 <=> hull[x] = 0
                /\ tick.hull_you > tick.hull_opp =>
                     hull[x] > hull[Other(x)] /\ Verdict(x, clock) \in {"win", "ongoing"}
                /\ phase = "over" /\ tick.hull_you > tick.hull_opp => Verdict(x, clock) = "win"
  <2> DEFINE y == Other(x)
  <2>1. y \in Seats /\ Other(y) = x /\ \A u \in Seats : u = x \/ u = y
    BY SeatsAre
  <2>2. hull[x] \in 0 .. WholeHull /\ hull[y] \in 0 .. WholeHull
    BY <2>1, Here
  <2>3. hull[x] \in Nat /\ hull[y] \in Nat /\ clock \in Nat /\ TimeoutTicks \in Nat
    <3>1. WholeHull \in Nat
      BY DEF WholeHull
    <3>2. hull[x] \in Nat /\ hull[y] \in Nat
      BY <2>2, <3>1
    <3>3. clock \in Nat /\ TimeoutTicks \in Nat
      BY CombatAssumption DEF CombatInv, CombatTypeOK, StageOK
    <3> QED BY <3>2, <3>3
  <2>4. TickFor(x).hull_you = HullByte(hull[x]) /\ TickFor(x).hull_opp = HullByte(hull[y])
    BY DEF TickFor
  <2> HIDE DEF y
  <2>5. HullByte(hull[x]) = 0 <=> hull[x] = 0
    BY <2>2, HullByteIs
  <2>6. ASSUME HullByte(hull[x]) > HullByte(hull[y])
        PROVE  hull[x] > hull[y]
    <3>1. HullByte(hull[x]) \in Nat /\ HullByte(hull[y]) \in Nat
          /\ (hull[y] >= hull[x] => HullByte(hull[y]) >= HullByte(hull[x]))
      BY <2>2, HullByteIs
    <3> QED BY <2>3, <2>6, <3>1
  <2>7. ASSUME hull[x] > hull[y]
        PROVE  Verdict(x, clock) = IF hull[y] = 0 \/ clock >= TimeoutTicks THEN "win"
                                   ELSE "ongoing"
    BY <2>3, <2>7 DEF Verdict, y
  <2>8. ASSUME hull[x] > hull[y], phase = "over"
        PROVE  hull[y] = 0 \/ clock >= TimeoutTicks
    BY <2>1, <2>3, <2>8 DEF Decided
  <2> QED BY <2>4, <2>5, <2>6, <2>7, <2>8 DEF y
<1>2. \A h \in 1 .. 100 : HullByte(h) > 0
  <2>1. ASSUME NEW h \in 1 .. 100
        PROVE  HullByte(h) > 0
    <3>1. h \in 0 .. WholeHull /\ h # 0
      BY DEF WholeHull
    <3>2. HullByte(h) \in Nat /\ HullByte(h) # 0
      BY <3>1, HullByteIs
    <3> QED BY <3>2
  <2> QED BY <2>1
<1> QED BY <1>1, <1>2, EffectBytesDiffer DEF ToldTruly

-----------------------------------------------------------------------------

LEMMA PairIsFight == PairSpec => Spec
<1>1. PairInit => Init
  BY DEF PairInit
<1>2. [PairNext]_<<given, vars, twin>> => [Next]_vars
  BY DEF PairNext, FightPower, FightGoes, TwinPower, TwinGoes, BothEnd, BothBreak, Next,
         PowerUp, CallsMade
<1> QED BY <1>1, <1>2, PTL DEF PairSpec, Spec

\* The server seats two players in the order they joined, and it makes no
\* difference to the fight: the same ships with the seats exchanged, fed the same
\* power and given the same answers, stand the same after every second and every
\* break, although dw2_match_tick takes them in another order.  What both are told
\* of it is true, and a break never widens a lead.
THEOREM FightsAreFair == PairSpec => FightIsFair
<1>1. PairSpec => []SeatsAreFair
  BY PairInvariant, FairNow, PTL
<1>2. Spec => []Decided
  <2>1. Init => Decided
    BY DEF Init, StartCombat, Decided
  <2> QED BY <2>1, DecidedKept, CombatInvariant, PTL DEF Spec
<1>3. CombatInv /\ Decided => ToldTruly
  BY ToldNow
<1>4. Spec => []ToldTruly
  BY <1>2, <1>3, CombatInvariant, PTL
<1> QED BY <1>1, <1>4, PairIsFight, BreakCatchesUp, PTL DEF FightIsFair
=============================================================================
