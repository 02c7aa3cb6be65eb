------------------------------ MODULE Dw2Fleet --------------------------------
(***************************************************************************)
(* Packed ships as the fight reads them, core/combat.c: which part holds a *)
(* cell and what is there, which parts are guns, how well the ship dodges. *)
(* None of it changes during a fight.                                      *)
(***************************************************************************)
EXTENDS Dw2Grid

CONSTANTS
  Ships,          \* the packed ships that fight, as the fight reads them
  EvadeRefWeight  \* DW2_EVADE_REF_WEIGHT

\* dw2_weapon_stats
WeaponStats ==
  [Railgun     |-> [threshold |-> 30, damage |-> 3000, kind |-> "rail"],
   PulseLaser  |-> [threshold |-> 10, damage |-> 700,  kind |-> "laser"],
   SiegeCannon |-> [threshold |-> 30, damage |-> 4500, kind |-> "cannon"]]

EvadePerTon == 15     \* DW2_EVADE_PER_TON, in tenths of a percent
EvadeMax    == 500    \* DW2_EVADE_MAX

AtMost(n, most) == IF n > most THEN most ELSE n

-----------------------------------------------------------------------------

\* dw2_owner_map
Owner(s) ==
  [c \in s.occupied |-> CHOOSE p \in DOMAIN s.parts : c \in Extent(s.parts[p].cells)]

\* dw2_is_role
RoleOf(s) ==
  [c \in s.occupied |->
     LET cells == s.parts[Owner(s)[c]].cells
     IN cells[CHOOSE k \in DOMAIN cells : cells[k].at = c].role]

\* dw2_cell_def
PartDef(s) == [c \in s.occupied |-> Catalog[s.parts[Owner(s)[c]].item]]

\* cell_max
MaxHp(s) == [c \in Cells |-> IF c \in s.occupied THEN 100 * PartDef(s)[c].hp ELSE 0]

\* The four maps of a ship.  None of them changes during a fight, so a ship that
\* fights carries them.
Maps(s) == [owner |-> Owner(s), role |-> RoleOf(s), part |-> PartDef(s), full |-> MaxHp(s)]

AsRead(s) ==
  /\ s.owner = Owner(s) /\ s.role = RoleOf(s)
  /\ s.part = PartDef(s) /\ s.full = MaxHp(s)

ASSUME FleetAssumption ==
  /\ \A s \in Ships : Fits(s) /\ Tallied(s) /\ AsRead(s)
  /\ EvadeRefWeight \in Nat

\* No part of a family boosts by more than half.
ASSUME BoostAssumption == \A i \in Items : Catalog[i].boost <= 150

\* What can shoot has a cell to feed.
ASSUME GunAssumption ==
  \A i \in Items \cap DOMAIN WeaponStats :
    \E k \in DOMAIN Catalog[i].base : Catalog[i].base[k].role = "weapon"

-----------------------------------------------------------------------------

Guns(s)     == {p \in DOMAIN s.parts : s.parts[p].item \in DOMAIN WeaponStats}
Stats(s, p) == WeaponStats[s.parts[p].item]

\* dw2_weapon_cell
GunCell(s, p) ==
  LET cells == s.parts[p].cells
  IN cells[CHOOSE k \in DOMAIN cells : cells[k].role = "weapon"].at

\* dw2_ship_start_combat: the lighter the ship, the more it dodges.
Evade(s) ==
  IF s.weight >= EvadeRefWeight THEN 0
  ELSE AtMost((EvadeRefWeight - s.weight) * EvadePerTon, EvadeMax)
=============================================================================
