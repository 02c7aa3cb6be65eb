------------------------------- MODULE Dw2Ships -------------------------------
(***************************************************************************)
(* The ships that TLC is given: the parts of each, as PLACE asks for them, *)
(* item, row, column, rotation; and the ships packed of them.              *)
(***************************************************************************)
EXTENDS Dw2Fleet, Dw2Catalog, TLC

PartOn(ask) ==
  [item |-> ask[1], row |-> ask[2], col |-> ask[3], rotation |-> ask[4],
   cells |-> ShapeCells(ask[1], ask[4], ask[2], ask[3])]

Packed(parts) ==
  [parts |-> parts,
   cost |-> Total(parts, Costs),
   weight |-> Total(parts, Weights),
   occupied |-> UNION {Extent(parts[p].cells) : p \in DOMAIN parts}]

WithMaps(s) == s @@ Maps(s)

\* Ships for fights, on a grid of three by three at least.
FightAsks ==
  [\* a laser, a Railgun behind a Bulwark, and a Mender
   gunship  |-> <<<<"PulseLaser", 0, 0, 0>>, <<"Bulwark", 0, 1, 0>>,
                  <<"Railgun", 1, 1, 0>>, <<"Mender", 1, 0, 0>>>>,
   \* a Siege Cannon whose breech touches a Titanium Shard, and a Mender
   bombard  |-> <<<<"SiegeCannon", 1, 0, 0>>, <<"TitaniumShard", 0, 0, 0>>,
                  <<"Mender", 2, 0, 0>>>>,
   \* a closed loop of Splitters, and a laser that two of them block
   looped   |-> <<<<"Splitter", 0, 0, 0>>, <<"Splitter", 0, 1, 0>>,
                  <<"Splitter", 1, 0, 0>>, <<"Splitter", 1, 1, 0>>,
                  <<"PulseLaser", 2, 0, 0>>>>,
   \* a Xeno-Biomass around an Aegis and a laser
   grower   |-> <<<<"Biomass", 0, 0, 0>>, <<"PulseLaser", 0, 1, 0>>,
                  <<"Aegis", 1, 1, 0>>>>,
   \* a Quantum Core that cooks the Ore Chip an Aegis draws on; a Vent spares
   \* the Aegis and the Railgun
   reactor  |-> <<<<"QuantumCore", 1, 0, 0>>, <<"OreChip", 0, 0, 0>>,
                  <<"Aegis", 0, 1, 0>>, <<"CryoVent", 0, 2, 1>>,
                  <<"Railgun", 2, 2, 0>>>>,
   \* one Railgun each, that shoot past each other at the bare hull
   raider   |-> <<<<"Railgun", 0, 0, 0>>>>,
   ranger   |-> <<<<"Railgun", 0, 1, 0>>>>,
   \* a laser, and a Mender beside the lanes that are shot at
   hospital |-> <<<<"PulseLaser", 0, 1, 0>>, <<"Mender", 0, 2, 0>>>>]

\* Ships for circuits, on a grid of three rows and four columns.
CircuitAsks ==
  [\* a Generator through an Amplifier and a Resistor, shared by a laser and a Mender
   series  |-> <<<<"Generator", 1, 0, 0>>, <<"Amplifier", 1, 1, 0>>,
                 <<"Resistor1", 1, 2, 0>>, <<"Splitter", 1, 3, 0>>,
                 <<"PulseLaser", 0, 3, 3>>, <<"Mender", 2, 3, 1>>>>,
   \* a ring of four Splitters that also feeds a Railgun
   ring    |-> <<<<"Generator", 0, 0, 0>>, <<"Splitter", 0, 1, 3>>,
                 <<"Splitter", 0, 2, 0>>, <<"Splitter", 1, 1, 1>>,
                 <<"Splitter", 1, 2, 0>>, <<"Railgun", 2, 2, 1>>>>,
   \* stores in a row, above a Battery that charges a Capacitor
   stores  |-> <<<<"Generator", 0, 0, 0>>, <<"Delayer", 0, 1, 0>>,
                 <<"Battery", 0, 2, 0>>, <<"PulseLaser", 0, 3, 0>>,
                 <<"Battery", 2, 0, 0>>, <<"Amplifier", 2, 1, 0>>,
                 <<"Capacitor", 2, 2, 0>>, <<"Railgun", 2, 3, 0>>>>,
   \* a Transistor that one Generator feeds and another opens
   gated   |-> <<<<"Generator", 1, 0, 0>>, <<"Generator", 0, 1, 1>>,
                 <<"Transistor", 1, 1, 0>>, <<"Resistor4", 1, 2, 0>>,
                 <<"Mender", 1, 3, 0>>>>,
   \* a ring of Amplifiers
   amped   |-> <<<<"Splitter", 0, 0, 3>>, <<"Amplifier", 0, 1, 0>>,
                 <<"Splitter", 0, 2, 3>>, <<"Generator", 0, 3, 2>>,
                 <<"Amplifier", 1, 0, 1>>, <<"Amplifier", 1, 2, 1>>,
                 <<"Splitter", 2, 0, 1>>, <<"Amplifier", 2, 1, 0>>,
                 <<"Splitter", 2, 2, 0>>>>,
   \* a ring that a Battery breaks, and whose power it takes back
   pumped  |-> <<<<"Splitter", 0, 0, 3>>, <<"Battery", 0, 1, 0>>,
                 <<"Splitter", 0, 2, 3>>, <<"Splitter", 1, 0, 1>>,
                 <<"Amplifier", 1, 1, 0>>, <<"Splitter", 1, 2, 1>>>>,
   \* two Generators that feed one Conductor
   twofold |-> <<<<"Generator", 0, 0, 0>>, <<"Conductor", 0, 1, 0>>,
                 <<"Generator", 0, 2, 2>>>>,
   \* a Quantum Core around two Splitters and an Aegis
   core    |-> <<<<"QuantumCore", 0, 0, 0>>, <<"Splitter", 0, 2, 0>>,
                 <<"Splitter", 1, 2, 3>>, <<"Aegis", 1, 3, 0>>>>]

ShipOf(ask) == WithMaps(Packed([p \in DOMAIN ask |-> PartOn(ask[p])]))

FightShip    == [n \in DOMAIN FightAsks |-> ShipOf(FightAsks[n])]
McShips      == {FightShip[n] : n \in DOMAIN FightShip}
CircuitShips == {ShipOf(CircuitAsks[n]) : n \in DOMAIN CircuitAsks}

-----------------------------------------------------------------------------
(* The same ship turned by half a turn.                                    *)

Opposite(c) == <<GridH - 1 - c[1], GridW - 1 - c[2]>>

TurnedPart(part) ==
  [part EXCEPT !.rotation = (@ + 2) % 4,
     !.cells = [k \in DOMAIN part.cells |->
                  [part.cells[k] EXCEPT !.at = Opposite(@), !.ports = {Turned(s, 2) : s \in @}]]]

HalfTurn(s) == WithMaps(Packed([p \in DOMAIN s.parts |-> TurnedPart(s.parts[p])]))
=============================================================================
