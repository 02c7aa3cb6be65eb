------------------------------- MODULE Dw2Pack -------------------------------
(***************************************************************************)
(* Packing a ship: dw2_ship_init and dw2_ship_place, core/combat.c, as the *)
(* PLACE messages of a player drive them.  A PLACE may name any item of    *)
(* the wire, any anchor and any rotation.  The practice game (Dw2Local)    *)
(* lays its parts on the same ship.                                        *)
(***************************************************************************)
EXTENDS Dw2Grid

CONSTANTS
  MaxPlacements,   \* DW2_MAX_PLACEMENTS
  Wanted,      \* the items a player asks for, of which some do not exist
  Anchors,     \* the anchors a player asks for, some of them off the grid
  Rotations    \* the rotations a player asks for

VARIABLES
  ship,    \* the ship of the seat
  answer   \* what the last PLACE was answered

vars == <<ship, answer>>

ASSUME PackAssumption ==
  MaxPlacements \in Nat /\ Anchors \subseteq Nat \X Nat /\ Rotations \subseteq Nat

\* The cells of a part that can be split are apart, and those of each piece are
\* the piece's own, moved to where one of them lies (the table of core/items.c).
ASSUME SplitAssumption ==
  \A i \in Items :
    LET d    == Catalog[i]
        into == Catalog[d.splitItem].base
    IN /\ d.splitN \in Nat
       /\ d.splitN > 0 =>
            /\ d.splitItem \in Items
            /\ \A j, k \in DOMAIN d.base : d.base[j].off = d.base[k].off => j = k
            /\ \A k \in DOMAIN d.base : d.splitOf[k] \in 1 .. d.splitN
            /\ \A n \in 1 .. d.splitN :
                 \E m \in DOMAIN d.base :
                   {d.base[k].off : k \in {j \in DOMAIN d.base : d.splitOf[j] = n}} =
                   {<<into[h].off[1] - into[1].off[1] + d.base[m].off[1],
                      into[h].off[2] - into[1].off[2] + d.base[m].off[2]>> : h \in DOMAIN into}

Init == ship = EmptyShip /\ answer = "none"

\* Mutant: only the first cell has to be free.
LegalAnchor(s, cells) == Extent(cells) \subseteq Cells /\ cells[1].at \notin s.occupied

\* Every cell is on the grid and none is taken (dw2_grid_legal).
Legal(s, cells) ==
  /\ Extent(cells) \subseteq Cells
  /\ Extent(cells) \cap s.occupied = {}

Affordable(s, d) ==
  s.cost + d.cost <= BudgetCredits /\ s.weight + d.weight <= BudgetWeight

\* dw2_grid_place and what dw2_ship_place adds up.
Laid(s, part) ==
  LET d == Catalog[part.item]
  IN [parts    |-> Append(s.parts, part),
      cost     |-> s.cost + d.cost,
      weight   |-> s.weight + d.weight,
      occupied |-> s.occupied \cup Extent(part.cells)]

PartAt(item, row, col, rotation) ==
  [item |-> item, row |-> row, col |-> col, rotation |-> rotation,
   cells |-> ShapeCells(item, rotation, row, col)]

Takes(s, part) ==
  /\ Len(s.parts) < MaxPlacements
  /\ Affordable(s, Catalog[part.item])
  /\ Legal(s, part.cells)

-----------------------------------------------------------------------------

\* A PLACE that the ship takes.
Place(item, anchor, rotation) ==
  /\ item \in Items
  /\ LET part == PartAt(item, anchor[1], anchor[2], rotation)
     IN Takes(ship, part) /\ ship' = Laid(ship, part)
  /\ answer' = "ack"

\* A PLACE that it does not, and the reason handle_place gives.
Refuse(item, anchor, rotation) ==
  /\ item \in Items => ~Takes(ship, PartAt(item, anchor[1], anchor[2], rotation))
  /\ answer' = IF item \in Items /\ ~Affordable(ship, Catalog[item])
               THEN "budget" ELSE "illegal"
  /\ UNCHANGED ship

Next ==
  \E item \in Wanted, anchor \in Anchors, rotation \in Rotations :
    Place(item, anchor, rotation) \/ Refuse(item, anchor, rotation)

Spec == Init /\ [][Next]_vars

-----------------------------------------------------------------------------
(* What a packed ship promises the fight.                                  *)

\* The ship is always one the fight can start from, whatever was asked for:
\* parts whole, on the grid and apart, within both budgets.
PackTypeOK ==
  /\ Fits(ship)
  /\ answer \in {"none", "ack", "budget", "illegal"}

\* The running cost and weight, which the budgets are checked against and the
\* dodging is computed from, are those of the parts that lie on the grid.
TalliesHold == Tallied(ship)

\* The cell of an offset on a side of it.
OffBeside(off, side) ==
  CASE side = "N" -> <<off[1], off[2] - 1>>
    [] side = "E" -> <<off[1] + 1, off[2]>>
    [] side = "S" -> <<off[1], off[2] + 1>>
    [] OTHER      -> <<off[1] - 1, off[2]>>

\* A part turns as a rigid body: what lay on a side of one of its cells lies,
\* after the rotation, on that side turned, and the ports turn with it; so a
\* port that opened out of the part still does.
RotationIsRigid ==
  \A p \in DOMAIN ship.parts :
    LET part == ship.parts[p]
        base == Catalog[part.item].base
        r    == part.rotation % 4
    IN \A k \in DOMAIN base, side \in Sides :
         /\ side \in base[k].ports <=> Turned(side, r) \in part.cells[k].ports
         /\ \A j \in DOMAIN base :
              OffBeside(base[k].off, side) = base[j].off <=>
                Beside(part.cells[k].at, Turned(side, r)) = part.cells[j].at

\* The members of a family lie apart, and between them are S.
Partitions(family, S) ==
  /\ UNION {family[n] : n \in DOMAIN family} = S
  /\ \A m, n \in DOMAIN family : m # n => family[m] \cap family[n] = {}

\* The pieces of a part that can be split lie apart, on exactly its cells,
\* however it is turned: taking it off and laying them is always legal on the
\* grid (core/items.h:8-10).
SplitIsExact ==
  \A p \in DOMAIN ship.parts :
    LET part   == ship.parts[p]
        pieces == SplitPieces(part.item, part.rotation, part.row, part.col)
    IN Catalog[part.item].splitN > 0 =>
         Partitions([n \in DOMAIN pieces |-> Extent(PieceCells(pieces[n]))],
                    Extent(part.cells))

\* What is on the grid can be taken off and laid again as its pieces, on exactly
\* its cells, and the two budgets have been charged for it once.
PiecesAndTotals == SplitIsExact /\ TalliesHold
=============================================================================
