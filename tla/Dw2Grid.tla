------------------------------- MODULE Dw2Grid -------------------------------
(***************************************************************************)
(* The grid a ship is packed on, core/grid.h, and what laying a part on it *)
(* means, core/items.c: rotation, the cells a part takes, the pieces it    *)
(* splits into, and what makes a packed ship legal.                        *)
(*                                                                         *)
(* A cell is <<row, column>>; row 0 is the bow, a column is a lane.  A     *)
(* dw2_mask is a set of cells, a nibble of port bits a set of sides.       *)
(***************************************************************************)
EXTENDS Integers, Sequences, FiniteSets, Functions

CONSTANTS
  GridW, GridH,    \* DW2_GRID_W, DW2_GRID_H
  Catalog,         \* dw2_catalog: what each item is
  BudgetCredits,   \* DW2_BUDGET_CREDITS
  BudgetWeight     \* DW2_BUDGET_WEIGHT

Items == DOMAIN Catalog
Sides == {"N", "E", "S", "W"}
Kinds == {"laser", "rail", "cannon"}
Roles == {"none", "generator", "conductor", "splitter", "weapon", "armor",
          "amplifier", "mender", "aegis", "resistor", "capacitor", "battery",
          "transistor", "delayer", "coolant", "biomass"}

\* An offset of a part's shape: <<dx, dy>>.
BaseCell == [off : Int \X Int, ports : SUBSET Sides, role : Roles]

ASSUME GridAssumption ==
  /\ GridW \in Nat \ {0} /\ GridH \in Nat \ {0}
  /\ BudgetCredits \in Nat /\ BudgetWeight \in Nat

\* Multipliers and boosts are in hundredths.
ASSUME CatalogAssumption ==
  \A i \in Items :
    /\ Catalog[i].cost \in Nat /\ Catalog[i].weight \in Nat
    /\ Catalog[i].hp \in Nat \ {0} /\ Catalog[i].heat \in Nat
    /\ Catalog[i].mult \in [Kinds -> Nat \ {0}]
    /\ Catalog[i].boost \in Nat
    /\ DOMAIN Catalog[i].base = 1 .. Len(Catalog[i].base)
    /\ Len(Catalog[i].base) \in Nat \ {0}
    /\ \A k \in DOMAIN Catalog[i].base : Catalog[i].base[k] \in BaseCell

Cells == (0 .. GridH - 1) \X (0 .. GridW - 1)

-----------------------------------------------------------------------------
(* Rotation.                                                               *)

\* Mutant: wiring turns the other way round.
TurnedBack(side, r) ==
  LET sides == <<"N", "E", "S", "W">>
      i == CHOOSE k \in 1 .. 4 : sides[k] = side
  IN sides[((i - 1 + 3 * r) % 4) + 1]

\* dw2_rotate_port_cw, r times.
Turned(side, r) ==
  LET sides == <<"N", "E", "S", "W">>
      i == CHOOSE k \in 1 .. 4 : sides[k] = side
  IN sides[((i - 1 + r) % 4) + 1]

\* r quarter turns of an offset: (x, y) becomes (-y, x).
Quarters(off, r) ==
  LET x == off[1]
      y == off[2]
  IN CASE r = 0 -> <<x, y>>
       [] r = 1 -> <<-y, x>>
       [] r = 2 -> <<-x, -y>>
       [] OTHER -> <<y, -x>>

\* An item's cells turned r times and moved so that the least dx and the least
\* dy are 0.
Shape(item, r) ==
  LET base   == Catalog[item].base
      off(k) == Quarters(base[k].off, r)
      left   == CHOOSE x \in {off(k)[1] : k \in DOMAIN base} :
                  \A k \in DOMAIN base : x <= off(k)[1]
      top    == CHOOSE y \in {off(k)[2] : k \in DOMAIN base} :
                  \A k \in DOMAIN base : y <= off(k)[2]
  IN [k \in DOMAIN base |->
       [off   |-> <<off(k)[1] - left, off(k)[2] - top>>,
        ports |-> {Turned(p, r) : p \in base[k].ports},
        role  |-> base[k].role]]

Shapes == [item \in Items |-> [r \in 0 .. 3 |-> Shape(item, r)]]

\* dw2_shape_cells: the turned shape laid on the anchor.  A cell may fall
\* outside the grid.
ShapeCells(item, rotation, row, col) ==
  LET shape == Shapes[item][rotation % 4]
  IN [k \in DOMAIN shape |->
       [at    |-> <<row + shape[k].off[2], col + shape[k].off[1]>>,
        ports |-> shape[k].ports,
        role  |-> shape[k].role]]

Extent(cells) == {cells[k].at : k \in DOMAIN cells}

\* The cell on a side of `at` (dw2_nb); it may lie outside the grid.
Beside(at, side) ==
  CASE side = "N" -> <<at[1] - 1, at[2]>>
    [] side = "E" -> <<at[1], at[2] + 1>>
    [] side = "S" -> <<at[1] + 1, at[2]>>
    [] OTHER      -> <<at[1], at[2] - 1>>

-----------------------------------------------------------------------------
(* Splitting a part in place.                                              *)

\* Mutant: pieces are laid where their first cell is.
SplitAtFirst(item, rotation, row, col) ==
  LET d == Catalog[item]
      whole == ShapeCells(item, rotation, row, col)
  IN [n \in 1 .. d.splitN |->
       LET k == CHOOSE j \in DOMAIN whole :
                  d.splitOf[j] = n /\ \A h \in 1 .. j - 1 : d.splitOf[h] # n
       IN [item |-> d.splitItem, row |-> whole[k].at[1], col |-> whole[k].at[2],
           rotation |-> rotation]]

PieceOn(item, rotation, S) ==
  LET least(T) == CHOOSE v \in T : \A w \in T : v <= w
  IN [item |-> item, rotation |-> rotation,
      row |-> least({c[1] : c \in S}), col |-> least({c[2] : c \in S})]

\* dw2_split_pieces: each piece is anchored at the least row and the least
\* column of the cells it takes over.
SplitPieces(item, rotation, row, col) ==
  LET d == Catalog[item]
      whole == ShapeCells(item, rotation, row, col)
  IN [n \in 1 .. d.splitN |->
       PieceOn(d.splitItem, rotation,
               {whole[k].at : k \in {j \in DOMAIN whole : d.splitOf[j] = n}})]

PieceCells(piece) ==
  ShapeCells(piece.item, piece.rotation, piece.row, piece.col)

-----------------------------------------------------------------------------
(* A ship on the packing screen: its parts, what they cost and weigh, and  *)
(* the cells they take.                                                    *)

EmptyShip == [parts |-> <<>>, cost |-> 0, weight |-> 0, occupied |-> {}]

\* What the parts of a ship come to, one by one.
Total(parts, amount) ==
  LET upTo[p \in 0 .. Len(parts)] ==
        IF p = 0 THEN 0 ELSE upTo[p - 1] + amount[parts[p].item]
  IN upTo[Len(parts)]

Costs   == [i \in Items |-> Catalog[i].cost]
Weights == [i \in Items |-> Catalog[i].weight]

\* The parts of a ship lie on the grid, apart from each other, on exactly the
\* cells it calls occupied, and within both budgets.
Fits(s) ==
  /\ DOMAIN s.parts = 1 .. Len(s.parts) /\ Len(s.parts) \in Nat
  /\ \A p \in DOMAIN s.parts :
       /\ s.parts[p].item \in Items
       /\ DOMAIN s.parts[p].cells = DOMAIN Catalog[s.parts[p].item].base
       /\ \A k \in DOMAIN s.parts[p].cells :
            /\ s.parts[p].cells[k].at \in Cells
            /\ s.parts[p].cells[k].role = Catalog[s.parts[p].item].base[k].role
            /\ s.parts[p].cells[k].ports \subseteq Sides
  /\ \A p, q \in DOMAIN s.parts :
       p # q => Extent(s.parts[p].cells) \cap Extent(s.parts[q].cells) = {}
  /\ s.occupied = UNION {Extent(s.parts[p].cells) : p \in DOMAIN s.parts}
  /\ s.cost \in 0 .. BudgetCredits /\ s.weight \in 0 .. BudgetWeight

\* The running totals are those of the parts.
Tallied(s) ==
  /\ s.cost = Total(s.parts, Costs)
  /\ s.weight = Total(s.parts, Weights)
=============================================================================
