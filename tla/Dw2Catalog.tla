------------------------------ MODULE Dw2Catalog ------------------------------
(***************************************************************************)
(* dw2_catalog, core/items.c: every part of the game.  Damage multipliers  *)
(* and boosts are in hundredths, sides replace port bits.                  *)
(***************************************************************************)
EXTENDS Integers, Sequences

At(dx, dy, ports, role) == [off |-> <<dx, dy>>, ports |-> ports, role |-> role]

\* A part that takes every weapon in full and has no further talent.
Part(cost, weight, points, base) ==
  [cost |-> cost, weight |-> weight, hp |-> points, base |-> base,
   mult |-> [laser |-> 100, rail |-> 100, cannon |-> 100],
   family |-> "none", boost |-> 0, heat |-> 0,
   splitItem |-> "none", splitN |-> 0, splitOf |-> <<>>]

\* One cell with an input in the west, and the wire that goes on in the east.
Sink(role) == <<At(0, 0, {"W"}, role)>>
Wire(role) == <<At(0, 0, {"W", "E"}, role)>>
Bar(n, role) == [k \in 1 .. n |-> At(k - 1, 0, {}, role)]
Block == <<At(0, 0, {}, "none"), At(1, 0, {}, "none"),
           At(0, 1, {}, "none"), At(1, 1, {}, "none")>>

Titanium(part, boost) ==
  [part EXCEPT !.mult.rail = 50, !.family = "titanium", !.boost = boost]
Aether(part, boost) ==
  [part EXCEPT !.mult.laser = 20, !.mult.cannon = 150,
               !.family = "aether", !.boost = boost]
Splits(part, piece, n, of) ==
  [part EXCEPT !.splitItem = piece, !.splitN = n, !.splitOf = of]

Dw2Parts ==
  [Generator     |-> Part(100, 4, 20, <<At(0, 0, {"E"}, "generator")>>),
   Conductor     |-> Part(10, 1, 10, Wire("conductor")),
   Splitter      |-> Part(25, 1, 10, <<At(0, 0, {"W", "N", "S"}, "splitter")>>),
   Railgun       |-> Part(240, 9, 30, Sink("weapon")),
   Bulwark       |-> [Part(55, 5, 45, Bar(1, "armor")) EXCEPT !.mult.laser = 50],
   TitaniumBeam  |-> Splits(Titanium(Part(90, 8, 20, Bar(4, "none")), 150),
                            "TitaniumShard", 2, <<1, 1, 2, 2>>),
   AetherOre     |-> Splits(Aether(Part(100, 6, 15, Block), 150),
                            "OreChip", 4, <<1, 2, 3, 4>>),
   PulseLaser    |-> Part(120, 3, 35, Sink("weapon")),
   SiegeCannon   |-> Part(230, 10, 30,
                          <<At(0, 0, {"W"}, "weapon"), At(1, 0, {}, "none")>>),
   Amplifier     |-> Part(90, 2, 10, Wire("amplifier")),
   Mender        |-> Part(130, 3, 15, Sink("mender")),
   Aegis         |-> Part(140, 3, 15, Sink("aegis")),
   Resistor1     |-> Part(20, 1, 10, Wire("resistor")),
   Resistor2     |-> Part(20, 1, 10, Wire("resistor")),
   Resistor4     |-> Part(20, 1, 10, Wire("resistor")),
   Capacitor     |-> Part(70, 2, 15, Wire("capacitor")),
   Battery       |-> Part(110, 4, 20, Wire("battery")),
   Transistor    |-> Part(80, 1, 10, <<At(0, 0, {"W", "E", "N"}, "transistor")>>),
   Delayer       |-> Part(60, 1, 10, Wire("delayer")),
   QuantumCore   |-> [Part(320, 10, 25,
                           <<At(0, 0, {"N", "W"}, "generator"),
                             At(1, 0, {"N", "E"}, "generator"),
                             At(0, 1, {"S", "W"}, "generator"),
                             At(1, 1, {"S", "E"}, "generator")>>)
                       EXCEPT !.heat = 2],
   CryoVent      |-> Part(60, 3, 20, Bar(2, "coolant")),
   Biomass       |-> Part(90, 4, 15,
                          <<At(0, 0, {}, "biomass"), At(0, 1, {}, "biomass"),
                            At(0, 2, {}, "biomass"), At(1, 2, {}, "biomass")>>),
   TitaniumShard |-> Titanium(Part(55, 5, 20, Bar(2, "none")), 125),
   OreChip       |-> Aether(Part(30, 2, 15, Bar(1, "none")), 125)]
=============================================================================
