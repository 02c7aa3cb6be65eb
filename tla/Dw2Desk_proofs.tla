---------------------------- MODULE Dw2Desk_proofs ----------------------------
(***************************************************************************)
(* Proofs about the parts of the system that do not meet the match loop.   *)
(*                                                                         *)
(* Placement (Dw2Pack), for any catalog, grid, budgets and asks: whatever  *)
(* a player asks for, the ship stays one the fight can start from, its     *)
(* parts turn as rigid bodies and split into pieces on exactly their       *)
(* cells, and its totals are those of its parts.                           *)
(*                                                                         *)
(* Accounts, results and practice (Dw2DeskMC), for any accounts, matches,  *)
(* players, files and eras of tokens, any grid and catalog and any clock:  *)
(* what a guest keeps lets it in again, what the IDUNA client says is what *)
(* IDUNA did, and the practice game implements the duel of Dw2Duel.        *)
(***************************************************************************)
EXTENDS Dw2DeskMC, TLAPS, FiniteSetTheorems, WellFoundedInduction

-----------------------------------------------------------------------------
(* Placement.                                                              *)

\* What a cell of a part that lies on the grid is.
LaidCell == [at : Cells, ports : SUBSET Sides, role : Roles]

LaidCells == UNION {[DOMAIN Catalog[i].base -> LaidCell] : i \in Items}

PartRec == [item : Items, row : Nat, col : Nat, rotation : Nat, cells : LaidCells]

ShipRec == [parts : Seq(PartRec), cost : Nat, weight : Nat, occupied : SUBSET Cells]

-----------------------------------------------------------------------------

\* A turned port is a port: dw2_rotate_port_cw stays within the nibble.
LEMMA TurnedPort ==
  ASSUME NEW side \in Sides, NEW r \in Nat
  PROVE  Turned(side, r) \in Sides
<1> DEFINE sides == <<"N", "E", "S", "W">>
           i == CHOOSE k \in 1 .. 4 : sides[k] = side
<1>1. \E k \in 1 .. 4 : sides[k] = side
  <2>1. sides[1] = "N" /\ sides[2] = "E" /\ sides[3] = "S" /\ sides[4] = "W"
    OBVIOUS
  <2>2. 1 \in 1 .. 4 /\ 2 \in 1 .. 4 /\ 3 \in 1 .. 4 /\ 4 \in 1 .. 4
    OBVIOUS
  <2> QED BY <2>1, <2>2, Zenon DEF Sides
<1>2. i \in 1 .. 4
  BY <1>1
<1>3. ((i - 1 + r) % 4) + 1 \in 1 .. 4
  <2> HIDE DEF i
  <2> QED BY <1>2
<1>4. \A k \in 1 .. 4 : sides[k] \in Sides
  BY DEF Sides
<1>5. sides[((i - 1 + r) % 4) + 1] \in Sides
  <2> HIDE DEF i, sides
  <2> QED BY <1>3, <1>4
<1> QED BY <1>5 DEF Turned

\* A part that lies on the grid is made of cells of the grid, with ports and
\* roles of the wire, one for each cell of the item.
LEMMA LaidPart ==
  ASSUME NEW item \in Items, NEW row \in Nat, NEW col \in Nat, NEW rotation \in Nat,
         Extent(PartAt(item, row, col, rotation).cells) \subseteq Cells
  PROVE  /\ PartAt(item, row, col, rotation) \in PartRec
         /\ PartAt(item, row, col, rotation).cells
              \in [DOMAIN Catalog[item].base -> LaidCell]
         /\ \A k \in DOMAIN Catalog[item].base :
              PartAt(item, row, col, rotation).cells[k].role = Catalog[item].base[k].role
<1> DEFINE unit  == PartAt(item, row, col, rotation)
           cells == ShapeCells(item, rotation, row, col)
           base  == Catalog[item].base
           r     == rotation % 4
           shape == Shape(item, r)
<1>1. r \in 0 .. 3
  OBVIOUS
<1>2. Shapes[item][r] = shape
  <2> HIDE DEF r
  <2> QED BY <1>1 DEF Shapes
<1>3. /\ DOMAIN shape = DOMAIN base
      /\ \A k \in DOMAIN base :
           /\ shape[k].ports = {Turned(p, r) : p \in base[k].ports}
           /\ shape[k].role = base[k].role
  <2> HIDE DEF r
  <2> QED BY DEF Shape
<1>4. /\ cells = [k \in DOMAIN shape |->
                    [at    |-> <<row + shape[k].off[2], col + shape[k].off[1]>>,
                     ports |-> shape[k].ports, role |-> shape[k].role]]
  <2> HIDE DEF shape
  <2> QED BY <1>2 DEF ShapeCells
<1>5. unit.cells = cells
  BY DEF PartAt
<1>6. \A k \in DOMAIN base : cells[k] \in LaidCell
  <2> SUFFICES ASSUME NEW k \in DOMAIN base
               PROVE  cells[k] \in LaidCell
    OBVIOUS
  <2> HIDE DEF shape, cells, r
  <2>1. cells[k] = [at    |-> <<row + shape[k].off[2], col + shape[k].off[1]>>,
                    ports |-> shape[k].ports, role |-> shape[k].role]
    BY <1>3, <1>4
  <2>2. DOMAIN cells = DOMAIN base
    BY <1>3, <1>4
  <2>3. cells[k].at \in Cells
    BY <1>5, <2>2 DEF Extent
  <2>4. base[k].ports \subseteq Sides /\ base[k].role \in Roles
    BY CatalogAssumption DEF BaseCell
  <2>5. cells[k].ports \in SUBSET Sides
    BY <1>1, <1>3, <2>1, <2>4, TurnedPort
  <2>6. cells[k].role \in Roles
    BY <1>3, <2>1, <2>4
  <2>7. cells[k] = [at |-> cells[k].at, ports |-> cells[k].ports, role |-> cells[k].role]
    BY <2>1
  <2> QED BY <2>3, <2>5, <2>6, <2>7 DEF LaidCell
<1>7. cells \in [DOMAIN base -> LaidCell]
  <2> HIDE DEF shape
  <2> QED BY <1>3, <1>4, <1>6
<1>8. cells \in LaidCells
  <2> HIDE DEF cells
  <2> QED BY <1>7 DEF LaidCells
<1>9. unit \in PartRec
  <2> HIDE DEF cells
  <2>1. unit = [item |-> item, row |-> row, col |-> col, rotation |-> rotation,
                cells |-> unit.cells]
    BY DEF PartAt
  <2> QED BY <1>5, <1>8, <2>1 DEF PartRec
<1>10. \A k \in DOMAIN base : cells[k].role = base[k].role
  <2> HIDE DEF shape
  <2> QED BY <1>3, <1>4
<1> QED BY <1>5, <1>7, <1>9, <1>10

\* dw2_ship_place keeps a ship legal.
LEMMA LaidFits ==
  ASSUME NEW s \in ShipRec, Fits(s),
         NEW item \in Items, NEW row \in Nat, NEW col \in Nat, NEW rotation \in Nat,
         Legal(s, PartAt(item, row, col, rotation).cells),
         Affordable(s, Catalog[item])
  PROVE  /\ Laid(s, PartAt(item, row, col, rotation)) \in ShipRec
         /\ Fits(Laid(s, PartAt(item, row, col, rotation)))
<1> DEFINE unit == PartAt(item, row, col, rotation)
           t    == Laid(s, unit)
           n    == Len(s.parts)
<1>1. /\ unit \in PartRec /\ unit.cells \in [DOMAIN Catalog[item].base -> LaidCell]
      /\ \A k \in DOMAIN Catalog[item].base :
           unit.cells[k].role = Catalog[item].base[k].role
  BY LaidPart DEF Legal
<1>2. unit.item = item
  BY DEF PartAt
<1>3. Extent(unit.cells) \subseteq Cells /\ Extent(unit.cells) \cap s.occupied = {}
  BY DEF Legal
<1> HIDE DEF unit
<1>4. Catalog[item].cost \in Nat /\ Catalog[item].weight \in Nat
  BY CatalogAssumption
<1>5. /\ s.parts \in Seq(PartRec) /\ s.cost \in Nat /\ s.weight \in Nat
      /\ s.occupied \in SUBSET Cells
  BY DEF ShipRec
<1>6. /\ t.parts = Append(s.parts, unit)
      /\ t.cost = s.cost + Catalog[item].cost
      /\ t.weight = s.weight + Catalog[item].weight
      /\ t.occupied = s.occupied \cup Extent(unit.cells)
      /\ t = [parts |-> t.parts, cost |-> t.cost, weight |-> t.weight,
              occupied |-> t.occupied]
  BY <1>2 DEF Laid
<1> HIDE DEF t
<1>7. /\ t.parts \in Seq(PartRec)
      /\ n \in Nat /\ Len(t.parts) = n + 1
      /\ DOMAIN t.parts = 1 .. n + 1
      /\ \A p \in 1 .. n : t.parts[p] = s.parts[p]
      /\ t.parts[n + 1] = unit
  BY <1>1, <1>5, <1>6
<1>8. DOMAIN s.parts = 1 .. n
  BY <1>5
<1>9. t \in ShipRec
  <2>1. t.parts \in Seq(PartRec)
    BY <1>7
  <2>2. t.cost \in Nat /\ t.weight \in Nat
    BY <1>4, <1>5, <1>6
  <2>3. t.occupied \in SUBSET Cells
    BY <1>3, <1>5, <1>6
  <2> QED BY <1>6, <2>1, <2>2, <2>3 DEF ShipRec
<1>10. DOMAIN t.parts = 1 .. Len(t.parts) /\ Len(t.parts) \in Nat
  BY <1>7
<1>11. ASSUME NEW p \in DOMAIN t.parts
       PROVE  /\ t.parts[p].item \in Items
              /\ DOMAIN t.parts[p].cells = DOMAIN Catalog[t.parts[p].item].base
              /\ \A k \in DOMAIN t.parts[p].cells :
                   /\ t.parts[p].cells[k].at \in Cells
                   /\ t.parts[p].cells[k].role = Catalog[t.parts[p].item].base[k].role
                   /\ t.parts[p].cells[k].ports \subseteq Sides
  <2>1. CASE p \in 1 .. n
    <3>1. t.parts[p] = s.parts[p] /\ p \in DOMAIN s.parts
      BY <1>7, <1>8, <2>1
    <3>2. /\ s.parts[p].item \in Items
          /\ DOMAIN s.parts[p].cells = DOMAIN Catalog[s.parts[p].item].base
          /\ \A k \in DOMAIN s.parts[p].cells :
               /\ s.parts[p].cells[k].at \in Cells
               /\ s.parts[p].cells[k].role = Catalog[s.parts[p].item].base[k].role
               /\ s.parts[p].cells[k].ports \subseteq Sides
      BY <3>1 DEF Fits
    <3> QED BY <3>1, <3>2
  <2>2. CASE p = n + 1
    BY <1>1, <1>2, <1>7, <2>2 DEF LaidCell
  <2> QED BY <1>7, <2>1, <2>2
<1>12. \A p \in 1 .. n : Extent(s.parts[p].cells) \subseteq s.occupied
  BY <1>8 DEF Fits
<1>13. ASSUME NEW p \in DOMAIN t.parts, NEW q \in DOMAIN t.parts, p # q
       PROVE  Extent(t.parts[p].cells) \cap Extent(t.parts[q].cells) = {}
  <2>1. CASE p \in 1 .. n /\ q \in 1 .. n
    BY <1>7, <1>8, <1>13, <2>1 DEF Fits
  <2>2. CASE p \in 1 .. n /\ q = n + 1
    BY <1>3, <1>7, <1>12, <2>2
  <2>3. CASE p = n + 1 /\ q \in 1 .. n
    BY <1>3, <1>7, <1>12, <2>3
  <2> QED BY <1>7, <1>13, <2>1, <2>2, <2>3
<1>14. t.occupied = UNION {Extent(t.parts[p].cells) : p \in DOMAIN t.parts}
  <2>1. s.occupied = UNION {Extent(s.parts[p].cells) : p \in 1 .. n}
    BY <1>8 DEF Fits
  <2>2. \A p \in 1 .. n : Extent(t.parts[p].cells) = Extent(s.parts[p].cells)
    BY <1>7
  <2>3. Extent(t.parts[n + 1].cells) = Extent(unit.cells)
    BY <1>7
  <2>4. DOMAIN t.parts = (1 .. n) \cup {n + 1}
    BY <1>7
  <2>5. ASSUME NEW c
        PROVE  c \in t.occupied <=> \E p \in DOMAIN t.parts : c \in Extent(t.parts[p].cells)
    <3>1. c \in t.occupied <=> c \in s.occupied \/ c \in Extent(unit.cells)
      BY <1>6
    <3>2. c \in s.occupied <=> \E p \in 1 .. n : c \in Extent(s.parts[p].cells)
      BY <2>1
    <3>3. c \in s.occupied <=> \E p \in 1 .. n : c \in Extent(t.parts[p].cells)
      BY <2>2, <3>2
    <3>4. (\E p \in DOMAIN t.parts : c \in Extent(t.parts[p].cells))
            <=> \/ \E p \in 1 .. n : c \in Extent(t.parts[p].cells)
                \/ c \in Extent(t.parts[n + 1].cells)
      BY <2>4
    <3> QED BY <2>3, <3>1, <3>3, <3>4
  <2> QED BY <2>5, Zenon
<1>15. t.cost \in 0 .. BudgetCredits /\ t.weight \in 0 .. BudgetWeight
  <2>1. BudgetCredits \in Nat /\ BudgetWeight \in Nat
    BY GridAssumption
  <2>2. t.cost \in Nat /\ t.weight \in Nat
    BY <1>9 DEF ShipRec
  <2>3. t.cost <= BudgetCredits /\ t.weight <= BudgetWeight
    BY <1>6 DEF Affordable
  <2> QED BY <2>1, <2>2, <2>3
<1>16. Fits(t)
  BY <1>10, <1>11, <1>13, <1>14, <1>15 DEF Fits
<1> QED BY <1>9, <1>16 DEF t, unit

\* A ship begins empty, and that is legal (dw2_ship_init).
LEMMA EmptyFits == EmptyShip \in ShipRec /\ Fits(EmptyShip)
<1>1. EmptyShip.parts = <<>> /\ EmptyShip.cost = 0 /\ EmptyShip.weight = 0
      /\ EmptyShip.occupied = {}
  BY DEF EmptyShip
<1>2. <<>> \in Seq(PartRec) /\ Len(<<>>) = 0 /\ DOMAIN <<>> = 1 .. 0
  OBVIOUS
<1>3. EmptyShip \in ShipRec
  BY <1>2 DEF EmptyShip, ShipRec
<1>4. DOMAIN EmptyShip.parts = {}
  BY <1>1
<1>5. Fits(EmptyShip)
  BY <1>1, <1>2, <1>4, GridAssumption DEF Fits
<1> QED BY <1>3, <1>5

-----------------------------------------------------------------------------

\* PackTypeOK speaks of the values of a ship's parts, never of their being
\* sequences and records: the inductive invariant adds that.
PackInv == ship \in ShipRec /\ PackTypeOK

-----------------------------------------------------------------------------

\* Every ship starts empty, and an empty ship fits.
LEMMA PackInit == Init => PackInv
BY EmptyFits DEF Init, PackInv, PackTypeOK

\* A PLACE lays the whole part where it is legal and affordable, or nothing.
LEMMA PackStep == PackInv /\ [Next]_vars => PackInv'
<1> SUFFICES ASSUME PackInv, [Next]_vars
             PROVE  PackInv'
  OBVIOUS
<1> USE DEF PackInv, PackTypeOK
<1>1. ASSUME NEW item \in Wanted, NEW anchor \in Anchors, NEW rotation \in Rotations,
             Place(item, anchor, rotation)
      PROVE  PackInv'
  <2>1. anchor[1] \in Nat /\ anchor[2] \in Nat /\ rotation \in Nat
    BY PackAssumption
  <2> DEFINE unit == PartAt(item, anchor[1], anchor[2], rotation)
  <2>2. item \in Items /\ Takes(ship, unit) /\ ship' = Laid(ship, unit) /\ answer' = "ack"
    BY <1>1 DEF Place
  <2>3. unit.item = item
    BY DEF PartAt
  <2>4. Affordable(ship, Catalog[item]) /\ Legal(ship, unit.cells)
    BY <2>2, <2>3 DEF Takes
  <2>5. ship' \in ShipRec /\ Fits(ship)'
    BY <2>1, <2>2, <2>4, LaidFits
  <2> QED BY <2>2, <2>5
<1>2. ASSUME NEW item \in Wanted, NEW anchor \in Anchors, NEW rotation \in Rotations,
             Refuse(item, anchor, rotation)
      PROVE  PackInv'
  <2>1. ship' = ship /\ answer' \in {"budget", "illegal"}
    BY <1>2 DEF Refuse
  <2> QED BY <2>1 DEF Fits
<1>3. CASE UNCHANGED vars
  BY <1>3 DEF vars, Fits
<1> QED BY <1>1, <1>2, <1>3 DEF Next

\* Whatever PLACEs a player sends, the ship stays legal: whole parts on the
\* grid, apart from each other, within both budgets, for any grid, any catalog
\* and any budgets.
THEOREM PackTypeCorrect == Spec => []PackTypeOK
<1>1. PackInv => PackTypeOK
  BY DEF PackInv
<1> QED BY <1>1, PackInit, PackStep, PTL DEF Spec

-----------------------------------------------------------------------------
(* A part turns as one piece, its ports with it.                           *)

\* The values of a shape's cells have a least one.
LEMMA LeastOf ==
  ASSUME NEW n \in Nat \ {0}, NEW f \in [1 .. n -> Int]
  PROVE  \E x \in {f[k] : k \in 1 .. n} : \A k \in 1 .. n : x <= f[k]
<1> DEFINE below(k) == {j \in 1 .. n : f[j] < f[k]}
           counts == {Cardinality(below(k)) : k \in 1 .. n}
<1>1. IsFiniteSet(1 .. n)
  BY FS_Interval
<1>2. \A k \in 1 .. n : IsFiniteSet(below(k)) /\ Cardinality(below(k)) \in Nat
  BY <1>1, FS_Subset, FS_CardinalityType
<1>3. counts \subseteq Nat /\ counts # {}
  <2>1. counts \subseteq Nat
    BY <1>2
  <2>2. 1 \in 1 .. n
    OBVIOUS
  <2>3. PICK k \in 1 .. n : k = 1
    BY <2>2
  <2>4. Cardinality(below(k)) \in counts
    OBVIOUS
  <2> QED BY <2>1, <2>4
<1>4. PICK c \in counts : \A d \in counts : ~(<<d, c>> \in OpToRel(<, Nat))
  <2> HIDE DEF counts
  <2> QED BY <1>3, NatLessThanWellFounded, WFMin
<1>5. PICK k \in 1 .. n : c = Cardinality(below(k))
  OBVIOUS
<1>6. ASSUME NEW j \in 1 .. n, f[j] < f[k]
      PROVE  FALSE
  <2> DEFINE B == below(k)
             D == below(j)
  <2>1. D \subseteq B /\ j \in B /\ j \notin D
    BY <1>6
  <2>2. IsFiniteSet(B) /\ D \in SUBSET B /\ D # B
    BY <1>2, <2>1
  <2>3. Cardinality(B) \in Nat /\ Cardinality(D) \in Nat
    BY <1>2
  <2>4. Cardinality(D) < Cardinality(B)
    <3> HIDE DEF B, D
    <3> QED BY <2>2, <2>3, FS_Subset
  <2>5. Cardinality(D) \in counts /\ c = Cardinality(B)
    BY <1>5
  <2> HIDE DEF B, D, counts
  <2> QED BY <1>4, <2>3, <2>4, <2>5 DEF OpToRel
<1>7. \A j \in 1 .. n : f[k] <= f[j]
  BY <1>6
<1> QED BY <1>7

\* left and top are the least dx and dy of an item's turned cells.
Corner(item, r, left, top) ==
  LET base   == Catalog[item].base
      off(k) == Quarters(base[k].off, r)
  IN /\ left \in {off(k)[1] : k \in DOMAIN base} /\ \A k \in DOMAIN base : left <= off(k)[1]
     /\ top \in {off(k)[2] : k \in DOMAIN base} /\ \A k \in DOMAIN base : top <= off(k)[2]

\* A turned shape is its base, turned, and moved so that its corner is at 0, 0.
LEMMA ShapeIs ==
  ASSUME NEW item \in Items, NEW r \in 0 .. 3
  PROVE  \E left \in Int, top \in Int :
           /\ Corner(item, r, left, top)
           /\ Shape(item, r) =
                [k \in DOMAIN Catalog[item].base |->
                  [off   |-> <<Quarters(Catalog[item].base[k].off, r)[1] - left,
                               Quarters(Catalog[item].base[k].off, r)[2] - top>>,
                   ports |-> {Turned(p, r) : p \in Catalog[item].base[k].ports},
                   role  |-> Catalog[item].base[k].role]]
<1> DEFINE base   == Catalog[item].base
           n      == Len(base)
           off(k) == Quarters(base[k].off, r)
           left   == CHOOSE x \in {off(k)[1] : k \in DOMAIN base} :
                       \A k \in DOMAIN base : x <= off(k)[1]
           top    == CHOOSE y \in {off(k)[2] : k \in DOMAIN base} :
                       \A k \in DOMAIN base : y <= off(k)[2]
           fx     == [k \in 1 .. n |-> off(k)[1]]
           fy     == [k \in 1 .. n |-> off(k)[2]]
<1>1. DOMAIN base = 1 .. n /\ n \in Nat \ {0}
  BY CatalogAssumption
<1>2. \A k \in 1 .. n : base[k].off \in Int \X Int
  BY <1>1, CatalogAssumption DEF BaseCell
<1>3. \A k \in 1 .. n : off(k)[1] \in Int /\ off(k)[2] \in Int
  <2> SUFFICES ASSUME NEW k \in 1 .. n
               PROVE  off(k)[1] \in Int /\ off(k)[2] \in Int
    OBVIOUS
  <2>1. PICK x \in Int, y \in Int : base[k].off = <<x, y>>
    BY <1>2
  <2>2. off(k) \in {<<x, y>>, <<-y, x>>, <<-x, -y>>, <<y, -x>>}
    BY <2>1 DEF Quarters
  <2> QED BY <2>2
<1>4. left \in Int /\ left \in {off(k)[1] : k \in DOMAIN base} /\ \A k \in DOMAIN base : left <= off(k)[1]
  <2>1. fx \in [1 .. n -> Int]
    BY <1>3
  <2>2. PICK x \in {fx[k] : k \in 1 .. n} : \A k \in 1 .. n : x <= fx[k]
    <3> HIDE DEF fx, n
    <3> QED BY <1>1, <2>1, LeastOf
  <2>3. x \in {off(k)[1] : k \in DOMAIN base} /\ \A k \in DOMAIN base : x <= off(k)[1]
    <3> HIDE DEF off, base, n
    <3> QED BY <1>1, <2>2
  <2>4. left \in {off(k)[1] : k \in DOMAIN base} /\ \A k \in DOMAIN base : left <= off(k)[1]
    <3> HIDE DEF off, base, n
    <3> QED BY <2>3
  <2> QED BY <1>1, <1>3, <2>4
<1>5. top \in Int /\ top \in {off(k)[2] : k \in DOMAIN base} /\ \A k \in DOMAIN base : top <= off(k)[2]
  <2>1. fy \in [1 .. n -> Int]
    BY <1>3
  <2>2. PICK y \in {fy[k] : k \in 1 .. n} : \A k \in 1 .. n : y <= fy[k]
    <3> HIDE DEF fy, n
    <3> QED BY <1>1, <2>1, LeastOf
  <2>3. y \in {off(k)[2] : k \in DOMAIN base} /\ \A k \in DOMAIN base : y <= off(k)[2]
    <3> HIDE DEF off, base, n
    <3> QED BY <1>1, <2>2
  <2>4. top \in {off(k)[2] : k \in DOMAIN base} /\ \A k \in DOMAIN base : top <= off(k)[2]
    <3> HIDE DEF off, base, n
    <3> QED BY <2>3
  <2> QED BY <1>1, <1>3, <2>4
<1>6. Shape(item, r) =
        [k \in DOMAIN base |->
          [off   |-> <<off(k)[1] - left, off(k)[2] - top>>,
           ports |-> {Turned(p, r) : p \in base[k].ports},
           role  |-> base[k].role]]
  BY DEF Shape
<1> HIDE DEF left, top
<1>7. Corner(item, r, left, top)
  BY <1>4, <1>5 DEF Corner
<1> QED BY <1>4, <1>5, <1>6, <1>7

\* The sixteen turned sides.
LEMMA TurnedTable ==
  /\ Turned("N", 0) = "N" /\ Turned("N", 1) = "E" /\ Turned("N", 2) = "S" /\ Turned("N", 3) = "W"
  /\ Turned("E", 0) = "E" /\ Turned("E", 1) = "S" /\ Turned("E", 2) = "W" /\ Turned("E", 3) = "N"
  /\ Turned("S", 0) = "S" /\ Turned("S", 1) = "W" /\ Turned("S", 2) = "N" /\ Turned("S", 3) = "E"
  /\ Turned("W", 0) = "W" /\ Turned("W", 1) = "N" /\ Turned("W", 2) = "E" /\ Turned("W", 3) = "S"
<1> DEFINE sides == <<"N", "E", "S", "W">>
<1>1. sides[1] = "N" /\ sides[2] = "E" /\ sides[3] = "S" /\ sides[4] = "W"
  OBVIOUS
<1>2. ASSUME NEW i \in 1 .. 4, NEW r \in 0 .. 3
      PROVE  Turned(sides[i], r) = sides[((i - 1 + r) % 4) + 1]
  <2> DEFINE place == CHOOSE k \in 1 .. 4 : sides[k] = sides[i]
  <2>1. \A k \in 1 .. 4 : sides[k] = sides[i] => k = i
    BY <1>1
  <2>2. place = i
    <3> HIDE DEF sides
    <3> QED BY <2>1
  <2>3. Turned(sides[i], r) = sides[((place - 1 + r) % 4) + 1]
    BY DEF Turned
  <2> HIDE DEF place, sides
  <2> QED BY <2>2, <2>3
<1> HIDE DEF sides
<1>3. \A r \in 0 .. 3 :
        /\ Turned("N", r) = sides[(r % 4) + 1]
        /\ Turned("E", r) = sides[((1 + r) % 4) + 1]
        /\ Turned("S", r) = sides[((2 + r) % 4) + 1]
        /\ Turned("W", r) = sides[((3 + r) % 4) + 1]
  <2> SUFFICES ASSUME NEW r \in 0 .. 3
               PROVE  /\ Turned("N", r) = sides[(r % 4) + 1]
                      /\ Turned("E", r) = sides[((1 + r) % 4) + 1]
                      /\ Turned("S", r) = sides[((2 + r) % 4) + 1]
                      /\ Turned("W", r) = sides[((3 + r) % 4) + 1]
    OBVIOUS
  <2>1. 1 - 1 + r = r /\ 2 - 1 + r = 1 + r /\ 3 - 1 + r = 2 + r /\ 4 - 1 + r = 3 + r
    OBVIOUS
  <2>2. /\ Turned(sides[1], r) = sides[((1 - 1 + r) % 4) + 1]
        /\ Turned(sides[2], r) = sides[((2 - 1 + r) % 4) + 1]
        /\ Turned(sides[3], r) = sides[((3 - 1 + r) % 4) + 1]
        /\ Turned(sides[4], r) = sides[((4 - 1 + r) % 4) + 1]
    BY <1>2
  <2> QED BY <1>1, <2>1, <2>2
<1>4. /\ 0 % 4 = 0 /\ 1 % 4 = 1 /\ 2 % 4 = 2 /\ 3 % 4 = 3
      /\ 4 % 4 = 0 /\ 5 % 4 = 1 /\ 6 % 4 = 2
  OBVIOUS
<1> QED BY <1>1, <1>3, <1>4

\* A side as a step: its dx and its dy.
StepX(side) == IF side = "E" THEN 1 ELSE IF side = "W" THEN -1 ELSE 0
StepY(side) == IF side = "S" THEN 1 ELSE IF side = "N" THEN -1 ELSE 0

\* The cell beside an offset, and beside a cell, is one step away.
LEMMA SideSteps ==
  ASSUME NEW side \in Sides, NEW a \in Int, NEW b \in Int
  PROVE  /\ StepX(side) \in Int /\ StepY(side) \in Int
         /\ OffBeside(<<a, b>>, side) = <<a + StepX(side), b + StepY(side)>>
         /\ Beside(<<a, b>>, side) = <<a + StepY(side), b + StepX(side)>>
<1>1. CASE side = "N"
  BY <1>1 DEF StepX, StepY, OffBeside, Beside
<1>2. CASE side = "E"
  BY <1>2 DEF StepX, StepY, OffBeside, Beside
<1>3. CASE side = "S"
  BY <1>3 DEF StepX, StepY, OffBeside, Beside
<1>4. CASE side = "W"
  BY <1>4 DEF StepX, StepY, OffBeside, Beside
<1> QED BY <1>1, <1>2, <1>3, <1>4 DEF Sides

\* A quarter turn of a side is a quarter turn of its step.
LEMMA TurnedSteps ==
  ASSUME NEW side \in Sides
  PROVE  /\ StepX(Turned(side, 0)) = StepX(side) /\ StepY(Turned(side, 0)) = StepY(side)
         /\ StepX(Turned(side, 1)) = -StepY(side) /\ StepY(Turned(side, 1)) = StepX(side)
         /\ StepX(Turned(side, 2)) = -StepX(side) /\ StepY(Turned(side, 2)) = -StepY(side)
         /\ StepX(Turned(side, 3)) = StepY(side) /\ StepY(Turned(side, 3)) = -StepX(side)
<1>0. /\ StepX("N") = 0 /\ StepY("N") = -1 /\ StepX("E") = 1 /\ StepY("E") = 0
      /\ StepX("S") = 0 /\ StepY("S") = 1 /\ StepX("W") = -1 /\ StepY("W") = 0
  BY DEF StepX, StepY
<1>1. CASE side = "N"
  <2>1. /\ Turned(side, 0) = "N" /\ Turned(side, 1) = "E"
        /\ Turned(side, 2) = "S" /\ Turned(side, 3) = "W"
    BY <1>1, TurnedTable
  <2> QED BY <1>0, <1>1, <2>1
<1>2. CASE side = "E"
  <2>1. /\ Turned(side, 0) = "E" /\ Turned(side, 1) = "S"
        /\ Turned(side, 2) = "W" /\ Turned(side, 3) = "N"
    BY <1>2, TurnedTable
  <2> QED BY <1>0, <1>2, <2>1
<1>3. CASE side = "S"
  <2>1. /\ Turned(side, 0) = "S" /\ Turned(side, 1) = "W"
        /\ Turned(side, 2) = "N" /\ Turned(side, 3) = "E"
    BY <1>3, TurnedTable
  <2> QED BY <1>0, <1>3, <2>1
<1>4. CASE side = "W"
  <2>1. /\ Turned(side, 0) = "W" /\ Turned(side, 1) = "N"
        /\ Turned(side, 2) = "E" /\ Turned(side, 3) = "S"
    BY <1>4, TurnedTable
  <2> QED BY <1>0, <1>4, <2>1
<1> QED BY <1>1, <1>2, <1>3, <1>4 DEF Sides

\* A turned side is a side.
LEMMA TurnedIsSide ==
  ASSUME NEW side \in Sides, NEW r \in 0 .. 3
  PROVE  Turned(side, r) \in Sides
BY TurnedPort

\* Two cells of a part lie side by side after the turn as before it.
KeptBeside(x, y, u, v, left, top, row, col, r, side) ==
  OffBeside(<<x, y>>, side) = <<u, v>> <=>
    Beside(<<row + (Quarters(<<x, y>>, r)[2] - top),
             col + (Quarters(<<x, y>>, r)[1] - left)>>, Turned(side, r)) =
      <<row + (Quarters(<<u, v>>, r)[2] - top),
        col + (Quarters(<<u, v>>, r)[1] - left)>>

\* Cells side by side stay side by side.
LEMMA StaysBeside ==
  ASSUME NEW x \in Int, NEW y \in Int, NEW u \in Int, NEW v \in Int,
         NEW left \in Int, NEW top \in Int, NEW row \in Int, NEW col \in Int,
         NEW r \in 0 .. 3, NEW side \in Sides
  PROVE  KeptBeside(x, y, u, v, left, top, row, col, r, side)
<1> DEFINE R == row + (Quarters(<<x, y>>, r)[2] - top)
           C == col + (Quarters(<<x, y>>, r)[1] - left)
           R2 == row + (Quarters(<<u, v>>, r)[2] - top)
           C2 == col + (Quarters(<<u, v>>, r)[1] - left)
           dx == StepX(side)
           dy == StepY(side)
           tx == StepX(Turned(side, r))
           ty == StepY(Turned(side, r))
<1>1. /\ dx \in Int /\ dy \in Int
      /\ OffBeside(<<x, y>>, side) = <<x + dx, y + dy>>
  BY SideSteps
<1>2. \/ tx = dx /\ ty = dy /\ R = row + (y - top) /\ C = col + (x - left)
           /\ R2 = row + (v - top) /\ C2 = col + (u - left)
      \/ tx = -dy /\ ty = dx /\ R = row + (x - top) /\ C = col + (-y - left)
           /\ R2 = row + (u - top) /\ C2 = col + (-v - left)
      \/ tx = -dx /\ ty = -dy /\ R = row + (-y - top) /\ C = col + (-x - left)
           /\ R2 = row + (-v - top) /\ C2 = col + (-u - left)
      \/ tx = dy /\ ty = -dx /\ R = row + (-x - top) /\ C = col + (y - left)
           /\ R2 = row + (-u - top) /\ C2 = col + (v - left)
  <2>1. CASE r = 0
    BY <2>1, TurnedSteps DEF Quarters
  <2>2. CASE r = 1
    BY <2>2, TurnedSteps DEF Quarters
  <2>3. CASE r = 2
    BY <2>3, TurnedSteps DEF Quarters
  <2>4. CASE r = 3
    BY <2>4, TurnedSteps DEF Quarters
  <2> QED BY <2>1, <2>2, <2>3, <2>4
<1> HIDE DEF R, C, R2, C2, dx, dy, tx, ty
<1>3. R \in Int /\ C \in Int /\ R2 \in Int /\ C2 \in Int
  BY <1>1, <1>2
<1>4. Beside(<<R, C>>, Turned(side, r)) = <<R + ty, C + tx>>
  BY <1>3, SideSteps, TurnedIsSide DEF tx, ty
<1>5. (x + dx = u /\ y + dy = v) <=> (R + ty = R2 /\ C + tx = C2)
  BY <1>1, <1>2, <1>3
<1>6. /\ <<x + dx, y + dy>> = <<u, v>> <=> (x + dx = u /\ y + dy = v)
      /\ <<R + ty, C + tx>> = <<R2, C2>> <=> (R + ty = R2 /\ C + tx = C2)
  OBVIOUS
<1>7. OffBeside(<<x, y>>, side) = <<u, v>> <=>
        Beside(<<R, C>>, Turned(side, r)) = <<R2, C2>>
  BY <1>1, <1>4, <1>5, <1>6
<1> QED BY <1>7 DEF KeptBeside, R, C, R2, C2

\* No two sides turn into the same one.
LEMMA TurnedApart ==
  ASSUME NEW r \in 0 .. 3, NEW p \in Sides, NEW q \in Sides, Turned(p, r) = Turned(q, r)
  PROVE  p = q
<1>1. CASE r = 0
  BY <1>1, TurnedTable DEF Sides
<1>2. CASE r = 1
  BY <1>2, TurnedTable DEF Sides
<1>3. CASE r = 2
  BY <1>3, TurnedTable DEF Sides
<1>4. CASE r = 3
  BY <1>4, TurnedTable DEF Sides
<1> QED BY <1>1, <1>2, <1>3, <1>4

\* The ports of cell k, and what lies beside it, turned with the part.
TurnedAlike(cells, item, rotation, k, side) ==
  LET base == Catalog[item].base
      r    == rotation % 4
  IN /\ side \in base[k].ports <=> Turned(side, r) \in cells[k].ports
     /\ \A j \in DOMAIN base :
          OffBeside(base[k].off, side) = base[j].off <=>
            Beside(cells[k].at, Turned(side, r)) = cells[j].at

\* What dw2_shape_cells makes of a part is the part, turned.
LEMMA PartIsRigid ==
  ASSUME NEW item \in Items, NEW row \in Nat, NEW col \in Nat, NEW rotation \in Nat,
         NEW k \in DOMAIN Catalog[item].base, NEW side \in Sides
  PROVE  TurnedAlike(ShapeCells(item, rotation, row, col), item, rotation, k, side)
<1> DEFINE base  == Catalog[item].base
           r     == rotation % 4
           shape == Shape(item, r)
           cells == ShapeCells(item, rotation, row, col)
<1>1. r \in 0 .. 3
  OBVIOUS
<1> HIDE DEF r
<1>2. PICK left \in Int, top \in Int :
        shape = [j \in DOMAIN base |->
                  [off   |-> <<Quarters(base[j].off, r)[1] - left,
                               Quarters(base[j].off, r)[2] - top>>,
                   ports |-> {Turned(p, r) : p \in base[j].ports},
                   role  |-> base[j].role]]
  BY <1>1, ShapeIs
<1> HIDE DEF shape
<1>3. Shapes[item][r] = shape
  BY <1>1 DEF Shapes, shape
<1>4. cells = [j \in DOMAIN shape |->
                [at    |-> <<row + shape[j].off[2], col + shape[j].off[1]>>,
                 ports |-> shape[j].ports, role |-> shape[j].role]]
  BY <1>3 DEF ShapeCells, r
<1> HIDE DEF cells
<1>5. DOMAIN shape = DOMAIN base
  BY <1>2
<1>6. ASSUME NEW j \in DOMAIN base
      PROVE  /\ cells[j].at = <<row + (Quarters(base[j].off, r)[2] - top),
                                col + (Quarters(base[j].off, r)[1] - left)>>
             /\ cells[j].ports = {Turned(p, r) : p \in base[j].ports}
  <2>1. /\ shape[j].off[1] = Quarters(base[j].off, r)[1] - left
        /\ shape[j].off[2] = Quarters(base[j].off, r)[2] - top
        /\ shape[j].ports = {Turned(p, r) : p \in base[j].ports}
    BY <1>2
  <2>2. /\ cells[j].at = <<row + shape[j].off[2], col + shape[j].off[1]>>
        /\ cells[j].ports = shape[j].ports
    BY <1>4, <1>5
  <2> QED BY <2>1, <2>2
<1>7. \A j \in DOMAIN base : base[j] \in BaseCell
  BY CatalogAssumption
<1>8. side \in base[k].ports <=> Turned(side, r) \in cells[k].ports
  <2>1. base[k].ports \subseteq Sides
    BY <1>7 DEF BaseCell
  <2> QED BY <1>1, <1>6, <2>1, TurnedApart
<1>9. ASSUME NEW j \in DOMAIN base
      PROVE  OffBeside(base[k].off, side) = base[j].off <=>
               Beside(cells[k].at, Turned(side, r)) = cells[j].at
  <2>1. base[k].off \in Int \X Int /\ base[j].off \in Int \X Int
    BY <1>7 DEF BaseCell
  <2>2. PICK x \in Int, y \in Int : base[k].off = <<x, y>>
    BY <2>1
  <2>3. PICK u \in Int, v \in Int : base[j].off = <<u, v>>
    BY <2>1
  <2>4. row \in Int /\ col \in Int
    OBVIOUS
  <2>5. KeptBeside(x, y, u, v, left, top, row, col, r, side)
    BY <1>1, <2>4, StaysBeside
  <2>6. cells[k].at = <<row + (Quarters(<<x, y>>, r)[2] - top),
                        col + (Quarters(<<x, y>>, r)[1] - left)>>
    BY <1>6, <2>2
  <2>7. cells[j].at = <<row + (Quarters(<<u, v>>, r)[2] - top),
                        col + (Quarters(<<u, v>>, r)[1] - left)>>
    BY <1>6, <2>3
  <2>8. OffBeside(<<x, y>>, side) = <<u, v>> <=>
          Beside(cells[k].at, Turned(side, r)) = cells[j].at
    BY <2>5, <2>6, <2>7 DEF KeptBeside
  <2> QED BY <2>2, <2>3, <2>8
<1> QED BY <1>8, <1>9 DEF TurnedAlike, cells, r

\* Every part lies as it was asked for.
AsAsked ==
  \A p \in DOMAIN ship.parts :
    LET unit == ship.parts[p]
    IN unit.cells = ShapeCells(unit.item, unit.rotation, unit.row, unit.col)

\* Parts that lie as they were asked for lie as rigid bodies.
LEMMA AskedIsRigid == PackInv /\ AsAsked => RotationIsRigid
<1> SUFFICES ASSUME PackInv, AsAsked, NEW p \in DOMAIN ship.parts
             PROVE  LET unit == ship.parts[p]
                        base == Catalog[unit.item].base
                        r    == unit.rotation % 4
                    IN \A k \in DOMAIN base, side \in Sides :
                         /\ side \in base[k].ports <=> Turned(side, r) \in unit.cells[k].ports
                         /\ \A j \in DOMAIN base :
                              OffBeside(base[k].off, side) = base[j].off <=>
                                Beside(unit.cells[k].at, Turned(side, r)) = unit.cells[j].at
  BY DEF RotationIsRigid
<1> DEFINE unit == ship.parts[p]
<1>1. unit \in PartRec
  BY DEF PackInv, ShipRec
<1>2. /\ unit.item \in Items /\ unit.row \in Nat /\ unit.col \in Nat
      /\ unit.rotation \in Nat
      /\ unit.cells = ShapeCells(unit.item, unit.rotation, unit.row, unit.col)
  BY <1>1 DEF PartRec, AsAsked
<1> HIDE DEF unit
<1>3. ASSUME NEW k \in DOMAIN Catalog[unit.item].base, NEW side \in Sides
      PROVE  TurnedAlike(unit.cells, unit.item, unit.rotation, k, side)
  BY <1>2, PartIsRigid
<1> QED BY <1>3 DEF TurnedAlike, unit

\* No PLACE moves a part that was laid before.
LEMMA AskedStep == PackInv /\ AsAsked /\ [Next]_vars => AsAsked'
<1> SUFFICES ASSUME PackInv, AsAsked, [Next]_vars
             PROVE  AsAsked'
  OBVIOUS
<1>1. ASSUME NEW item \in Wanted, NEW anchor \in Anchors, NEW rotation \in Rotations,
             Place(item, anchor, rotation)
      PROVE  AsAsked'
  <2> DEFINE unit == PartAt(item, anchor[1], anchor[2], rotation)
             n    == Len(ship.parts)
  <2>1. ship' = Laid(ship, unit)
    BY <1>1 DEF Place
  <2>2. ship'.parts = Append(ship.parts, unit)
    BY <2>1 DEF Laid
  <2>3. unit.cells = ShapeCells(unit.item, unit.rotation, unit.row, unit.col)
    BY DEF PartAt
  <2> HIDE DEF unit
  <2>4. ship.parts \in Seq(PartRec)
    BY DEF PackInv, ShipRec
  <2>5. /\ DOMAIN ship.parts = 1 .. n /\ DOMAIN ship'.parts = 1 .. n + 1 /\ n \in Nat
        /\ \A p \in 1 .. n : ship'.parts[p] = ship.parts[p]
        /\ ship'.parts[n + 1] = unit
    BY <2>2, <2>4
  <2> QED BY <2>3, <2>5 DEF AsAsked
<1>2. ASSUME NEW item \in Wanted, NEW anchor \in Anchors, NEW rotation \in Rotations,
             Refuse(item, anchor, rotation)
      PROVE  AsAsked'
  BY <1>2 DEF Refuse, AsAsked
<1>3. CASE UNCHANGED vars
  BY <1>3 DEF vars, AsAsked
<1> QED BY <1>1, <1>2, <1>3 DEF Next

\* A part turns as one piece, its ports with it, for any catalog, any grid and
\* any anchor and rotation asked for.
THEOREM PartsAreRigid == Spec => []RotationIsRigid
<1>1. Init => PackInv /\ AsAsked
  BY PackInit DEF Init, EmptyShip, AsAsked
<1>2. (PackInv /\ AsAsked) /\ [Next]_vars => (PackInv /\ AsAsked)'
  BY PackStep, AskedStep
<1>3. PackInv /\ AsAsked => RotationIsRigid
  BY AskedIsRigid
<1> QED BY <1>1, <1>2, <1>3, PTL DEF Spec

-----------------------------------------------------------------------------
(* Splitting in place: the pieces of a part take exactly its cells.        *)

\* Where the cell of offset o lies, in a part whose turned offset <<0, 0>> does
\* at <<a, b>>.
Lies(o, a, b, r) == <<a + Quarters(o, r)[2], b + Quarters(o, r)[1]>>

\* A turned offset, case by case.
LEMMA QuartersAre ==
  ASSUME NEW x \in Int, NEW y \in Int, NEW r \in 0 .. 3
  PROVE  \/ r = 0 /\ Quarters(<<x, y>>, r)[1] = x /\ Quarters(<<x, y>>, r)[2] = y
         \/ r = 1 /\ Quarters(<<x, y>>, r)[1] = -y /\ Quarters(<<x, y>>, r)[2] = x
         \/ r = 2 /\ Quarters(<<x, y>>, r)[1] = -x /\ Quarters(<<x, y>>, r)[2] = -y
         \/ r = 3 /\ Quarters(<<x, y>>, r)[1] = y /\ Quarters(<<x, y>>, r)[2] = -x
<1>1. CASE r = 0
  BY <1>1 DEF Quarters
<1>2. CASE r = 1
  BY <1>2 DEF Quarters
<1>3. CASE r = 2
  BY <1>3 DEF Quarters
<1>4. CASE r = 3
  BY <1>4 DEF Quarters
<1> QED BY <1>1, <1>2, <1>3, <1>4

\* A turned offset is an offset.
LEMMA QuartersInt ==
  ASSUME NEW o \in Int \X Int, NEW r \in 0 .. 3
  PROVE  Quarters(o, r)[1] \in Int /\ Quarters(o, r)[2] \in Int
<1>1. PICK x \in Int, y \in Int : o = <<x, y>>
  OBVIOUS
<1> QED BY <1>1, QuartersAre

\* Cells apart stay apart.
LEMMA LiesApart ==
  ASSUME NEW o \in Int \X Int, NEW p \in Int \X Int, NEW a \in Int, NEW b \in Int,
         NEW r \in 0 .. 3, Lies(o, a, b, r) = Lies(p, a, b, r)
  PROVE  o = p
<1>1. PICK x \in Int, y \in Int : o = <<x, y>>
  OBVIOUS
<1>2. PICK u \in Int, v \in Int : p = <<u, v>>
  OBVIOUS
<1> DEFINE X == Quarters(o, r)[1]
           Y == Quarters(o, r)[2]
           U == Quarters(p, r)[1]
           V == Quarters(p, r)[2]
<1>3. X \in Int /\ Y \in Int /\ U \in Int /\ V \in Int
  BY QuartersInt
<1>4. \/ r = 0 /\ X = x /\ Y = y
      \/ r = 1 /\ X = -y /\ Y = x
      \/ r = 2 /\ X = -x /\ Y = -y
      \/ r = 3 /\ X = y /\ Y = -x
  BY <1>1, QuartersAre
<1>5. \/ r = 0 /\ U = u /\ V = v
      \/ r = 1 /\ U = -v /\ V = u
      \/ r = 2 /\ U = -u /\ V = -v
      \/ r = 3 /\ U = v /\ V = -u
  BY <1>2, QuartersAre
<1>6. a + Y = a + V /\ b + X = b + U
  BY DEF Lies
<1> HIDE DEF X, Y, U, V
<1>7. X = U /\ Y = V
  BY <1>3, <1>6
<1>8. x = u /\ y = v
  BY <1>4, <1>5, <1>7
<1> QED BY <1>1, <1>2, <1>8

\* A cell that is moved before the turn is moved by the turned step after it.
LEMMA LiesMoved ==
  ASSUME NEW o \in Int \X Int, NEW p \in Int \X Int, NEW q \in Int \X Int,
         NEW a \in Int, NEW b \in Int, NEW r \in 0 .. 3
  PROVE  Lies(<<o[1] - p[1] + q[1], o[2] - p[2] + q[2]>>, a, b, r) =
           Lies(o, a - Quarters(p, r)[2] + Quarters(q, r)[2],
                   b - Quarters(p, r)[1] + Quarters(q, r)[1], r)
<1>1. PICK x \in Int, y \in Int : o = <<x, y>>
  OBVIOUS
<1>2. PICK u \in Int, v \in Int : p = <<u, v>>
  OBVIOUS
<1>3. PICK s \in Int, t \in Int : q = <<s, t>>
  OBVIOUS
<1> DEFINE m == <<x - u + s, y - v + t>>
           X == Quarters(o, r)[1]
           Y == Quarters(o, r)[2]
           U == Quarters(p, r)[1]
           V == Quarters(p, r)[2]
           S == Quarters(q, r)[1]
           T == Quarters(q, r)[2]
           M == Quarters(m, r)[1]
           N == Quarters(m, r)[2]
<1>4. \/ r = 0 /\ X = x /\ Y = y
      \/ r = 1 /\ X = -y /\ Y = x
      \/ r = 2 /\ X = -x /\ Y = -y
      \/ r = 3 /\ X = y /\ Y = -x
  BY <1>1, QuartersAre
<1>5. \/ r = 0 /\ U = u /\ V = v
      \/ r = 1 /\ U = -v /\ V = u
      \/ r = 2 /\ U = -u /\ V = -v
      \/ r = 3 /\ U = v /\ V = -u
  BY <1>2, QuartersAre
<1>6. \/ r = 0 /\ S = s /\ T = t
      \/ r = 1 /\ S = -t /\ T = s
      \/ r = 2 /\ S = -s /\ T = -t
      \/ r = 3 /\ S = t /\ T = -s
  BY <1>3, QuartersAre
<1>7. \/ r = 0 /\ M = x - u + s /\ N = y - v + t
      \/ r = 1 /\ M = -(y - v + t) /\ N = x - u + s
      \/ r = 2 /\ M = -(x - u + s) /\ N = -(y - v + t)
      \/ r = 3 /\ M = y - v + t /\ N = -(x - u + s)
  <2>1. x - u + s \in Int /\ y - v + t \in Int
    OBVIOUS
  <2> QED BY <2>1, QuartersAre
<1>8. Lies(m, a, b, r) = <<a + N, b + M>>
  BY DEF Lies
<1>9. Lies(o, a - V + T, b - U + S, r) = <<a - V + T + Y, b - U + S + X>>
  BY DEF Lies
<1> HIDE DEF X, Y, U, V, S, T, M, N
<1>10. a + N = a - V + T + Y /\ b + M = b - U + S + X
  BY <1>4, <1>5, <1>6, <1>7
<1>11. Lies(m, a, b, r) = Lies(o, a - V + T, b - U + S, r)
  BY <1>8, <1>9, <1>10
<1>12. m = <<o[1] - p[1] + q[1], o[2] - p[2] + q[2]>>
  BY <1>1, <1>2, <1>3
<1> QED BY <1>11, <1>12 DEF V, T, U, S

\* The cells of a part lie from its corner on.
LiesFrom(item, rotation, row, col, left, top) ==
  LET cells == ShapeCells(item, rotation, row, col)
      base  == Catalog[item].base
  IN /\ Corner(item, rotation % 4, left, top)
     /\ DOMAIN cells = DOMAIN base
     /\ \A k \in DOMAIN base :
          cells[k].at = Lies(base[k].off, row - top, col - left, rotation % 4)

\* Where the cells of a part lie.
LEMMA CellsLie ==
  ASSUME NEW item \in Items, NEW row \in Int, NEW col \in Int, NEW rotation \in Nat
  PROVE  \E left \in Int, top \in Int : LiesFrom(item, rotation, row, col, left, top)
<1> DEFINE base  == Catalog[item].base
           r     == rotation % 4
           shape == Shape(item, r)
           cells == ShapeCells(item, rotation, row, col)
<1>1. r \in 0 .. 3
  OBVIOUS
<1> HIDE DEF r
<1>2. PICK left \in Int, top \in Int :
        /\ Corner(item, r, left, top)
        /\ shape = [j \in DOMAIN base |->
                     [off   |-> <<Quarters(base[j].off, r)[1] - left,
                                  Quarters(base[j].off, r)[2] - top>>,
                      ports |-> {Turned(p, r) : p \in base[j].ports},
                      role  |-> base[j].role]]
  BY <1>1, ShapeIs
<1> HIDE DEF shape
<1>3. Shapes[item][r] = shape
  BY <1>1 DEF Shapes, shape
<1>4. cells = [j \in DOMAIN shape |->
                [at    |-> <<row + shape[j].off[2], col + shape[j].off[1]>>,
                 ports |-> shape[j].ports, role |-> shape[j].role]]
  BY <1>3 DEF ShapeCells, r
<1> HIDE DEF cells
<1>5. DOMAIN cells = DOMAIN base
  BY <1>2, <1>4
<1>6. ASSUME NEW k \in DOMAIN base
      PROVE  cells[k].at = Lies(base[k].off, row - top, col - left, r)
  <2>1. /\ shape[k].off[1] = Quarters(base[k].off, r)[1] - left
        /\ shape[k].off[2] = Quarters(base[k].off, r)[2] - top
    BY <1>2
  <2>2. cells[k].at = <<row + shape[k].off[2], col + shape[k].off[1]>>
    BY <1>2, <1>4
  <2>3. base[k].off \in Int \X Int
    BY CatalogAssumption DEF BaseCell
  <2> DEFINE X == Quarters(base[k].off, r)[1]
             Y == Quarters(base[k].off, r)[2]
  <2>4. X \in Int /\ Y \in Int
    BY <1>1, <2>3, QuartersInt
  <2>5. cells[k].at = <<row + (Y - top), col + (X - left)>>
    BY <2>1, <2>2
  <2>6. Lies(base[k].off, row - top, col - left, r) = <<row - top + Y, col - left + X>>
    BY DEF Lies
  <2> HIDE DEF X, Y
  <2>7. row + (Y - top) = row - top + Y /\ col + (X - left) = col - left + X
    BY <2>4
  <2> QED BY <2>5, <2>6, <2>7
<1> QED BY <1>2, <1>5, <1>6 DEF LiesFrom, cells, r

\* A least member of a set of integers is the one CHOOSE takes.
LEMMA LeastIs ==
  ASSUME NEW T \in SUBSET Int, NEW v \in T, \A w \in T : v <= w
  PROVE  (CHOOSE u \in T : \A w \in T : u <= w) = v
<1> DEFINE u == CHOOSE u \in T : \A w \in T : u <= w
<1>1. u \in T /\ \A w \in T : u <= w
  OBVIOUS
<1> HIDE DEF u
<1>2. u <= v /\ v <= u /\ u \in Int /\ v \in Int
  BY <1>1
<1>3. u = v
  BY <1>2
<1> QED BY <1>3 DEF u

\* The cells a piece takes over, when they are those of the item it is.
Room(piece, a, b, r) ==
  {Lies(Catalog[piece].base[h].off, a, b, r) : h \in DOMAIN Catalog[piece].base}

Anchored(piece, rotation, a, b, left, top) ==
  LET on == PieceOn(piece, rotation, Room(piece, a, b, rotation % 4))
  IN on.row = a + top /\ on.col = b + left

\* A piece is anchored at the corner of its cells.
LEMMA PieceAnchor ==
  ASSUME NEW piece \in Items, NEW rotation \in Nat, NEW a \in Int, NEW b \in Int,
         NEW left \in Int, NEW top \in Int, Corner(piece, rotation % 4, left, top)
  PROVE  Anchored(piece, rotation, a, b, left, top)
<1> DEFINE base == Catalog[piece].base
           r    == rotation % 4
           S    == Room(piece, a, b, r)
           rows == {c[1] : c \in S}
           cols == {c[2] : c \in S}
           X(k) == Quarters(base[k].off, r)[1]
           Y(k) == Quarters(base[k].off, r)[2]
<1>1. \A k \in DOMAIN base : X(k) \in Int /\ Y(k) \in Int
  <2>1. r \in 0 .. 3
    OBVIOUS
  <2>2. \A k \in DOMAIN base : base[k].off \in Int \X Int
    BY CatalogAssumption DEF BaseCell
  <2> QED BY <2>1, <2>2, QuartersInt
<1>2. /\ \E k \in DOMAIN base : left = X(k)
      /\ \A k \in DOMAIN base : left <= X(k)
      /\ \E k \in DOMAIN base : top = Y(k)
      /\ \A k \in DOMAIN base : top <= Y(k)
  BY DEF Corner
<1>3. rows = {a + Y(k) : k \in DOMAIN base} /\ cols = {b + X(k) : k \in DOMAIN base}
  <2>1. \A k \in DOMAIN base :
          /\ Lies(base[k].off, a, b, r)[1] = a + Y(k)
          /\ Lies(base[k].off, a, b, r)[2] = b + X(k)
    BY DEF Lies
  <2> HIDE DEF X, Y, base
  <2>2. S = {Lies(base[k].off, a, b, r) : k \in DOMAIN base}
    BY DEF Room, base
  <2> HIDE DEF S, r
  <2> QED BY <2>1, <2>2
<1>4. PieceOn(piece, rotation, S).row = CHOOSE u \in rows : \A w \in rows : u <= w
  BY DEF PieceOn
<1>5. PieceOn(piece, rotation, S).col = CHOOSE u \in cols : \A w \in cols : u <= w
  BY DEF PieceOn
<1> HIDE DEF rows, cols, X, Y, base, S, r
<1>6. rows \in SUBSET Int /\ a + top \in rows /\ \A w \in rows : a + top <= w
  <2>1. \A k \in DOMAIN base : a + Y(k) \in Int /\ a + top <= a + Y(k)
    BY <1>1, <1>2
  <2> QED BY <1>2, <1>3, <2>1
<1>7. cols \in SUBSET Int /\ b + left \in cols /\ \A w \in cols : b + left <= w
  <2>1. \A k \in DOMAIN base : b + X(k) \in Int /\ b + left <= b + X(k)
    BY <1>1, <1>2
  <2> QED BY <1>2, <1>3, <2>1
<1>8. PieceOn(piece, rotation, S).row = a + top
  BY <1>4, <1>6, LeastIs
<1>9. PieceOn(piece, rotation, S).col = b + left
  BY <1>5, <1>7, LeastIs
<1> QED BY <1>8, <1>9 DEF Anchored, S, r

\* So a piece, laid, takes exactly the cells it was anchored for.
LEMMA PieceFits ==
  ASSUME NEW piece \in Items, NEW rotation \in Nat, NEW a \in Int, NEW b \in Int
  PROVE  Extent(PieceCells(PieceOn(piece, rotation, Room(piece, a, b, rotation % 4)))) =
           Room(piece, a, b, rotation % 4)
<1> DEFINE base == Catalog[piece].base
           r    == rotation % 4
           S    == Room(piece, a, b, r)
           on   == PieceOn(piece, rotation, S)
           cells == ShapeCells(piece, rotation, on.row, on.col)
<1>1. PieceCells(on) = cells
  BY DEF PieceCells, PieceOn
<1>2. on.row \in Int /\ on.col \in Int
  <2>1. r \in 0 .. 3
    OBVIOUS
  <2>2. PICK left \in Int, top \in Int : Corner(piece, r, left, top)
    BY <2>1, ShapeIs
  <2>3. Anchored(piece, rotation, a, b, left, top)
    BY <2>2, PieceAnchor
  <2>4. on.row = a + top /\ on.col = b + left
    BY <2>3 DEF Anchored
  <2> HIDE DEF on
  <2> QED BY <2>4
<1>3. PICK left \in Int, top \in Int :
        /\ Corner(piece, r, left, top)
        /\ DOMAIN cells = DOMAIN base
        /\ \A k \in DOMAIN base :
             cells[k].at = Lies(base[k].off, on.row - top, on.col - left, r)
  <2>1. PICK left \in Int, top \in Int : LiesFrom(piece, rotation, on.row, on.col, left, top)
    <3> HIDE DEF on
    <3> QED BY <1>2, CellsLie
  <2> QED BY <2>1 DEF LiesFrom
<1>4. on.row = a + top /\ on.col = b + left
  <2>1. Anchored(piece, rotation, a, b, left, top)
    BY <1>3, PieceAnchor
  <2> QED BY <2>1 DEF Anchored
<1>5. on.row - top = a /\ on.col - left = b
  <2> HIDE DEF on
  <2> QED BY <1>4
<1>6. DOMAIN cells = DOMAIN base /\ \A k \in DOMAIN base : cells[k].at = Lies(base[k].off, a, b, r)
  <2> HIDE DEF on, cells, base, r
  <2> QED BY <1>3, <1>5
<1>7. Extent(cells) = S
  <2>1. S = {Lies(base[k].off, a, b, r) : k \in DOMAIN base}
    BY DEF Room
  <2> HIDE DEF cells, base, r, S
  <2> QED BY <1>6, <2>1 DEF Extent
<1> QED BY <1>1, <1>7

\* The pieces of a part are a partition of its cells.
LEMMA SplitsExactly ==
  ASSUME NEW item \in Items, NEW row \in Nat, NEW col \in Nat, NEW rotation \in Nat,
         Catalog[item].splitN > 0
  PROVE  LET pieces == SplitPieces(item, rotation, row, col)
         IN Partitions([n \in DOMAIN pieces |-> Extent(PieceCells(pieces[n]))],
                       Extent(ShapeCells(item, rotation, row, col)))
<1> DEFINE d      == Catalog[item]
           base   == d.base
           piece  == d.splitItem
           into   == Catalog[piece].base
           N      == d.splitN
           r      == rotation % 4
           whole  == ShapeCells(item, rotation, row, col)
           own(n) == {j \in DOMAIN base : d.splitOf[j] = n}
           S(n)   == {whole[k].at : k \in own(n)}
           pieces == SplitPieces(item, rotation, row, col)
<1>1. /\ piece \in Items
      /\ \A j, k \in DOMAIN base : base[j].off = base[k].off => j = k
      /\ \A k \in DOMAIN base : d.splitOf[k] \in 1 .. N
      /\ \A n \in 1 .. N :
           \E m \in DOMAIN base :
             {base[k].off : k \in own(n)} =
             {<<into[h].off[1] - into[1].off[1] + base[m].off[1],
                into[h].off[2] - into[1].off[2] + base[m].off[2]>> : h \in DOMAIN into}
  BY SplitAssumption
<1>2. r \in 0 .. 3
  OBVIOUS
<1>3. \A k \in DOMAIN base : base[k].off \in Int \X Int
  BY CatalogAssumption DEF BaseCell
<1>4. (\A h \in DOMAIN into : into[h].off \in Int \X Int) /\ 1 \in DOMAIN into
  <2>1. DOMAIN into = 1 .. Len(into) /\ Len(into) \in Nat \ {0}
    BY <1>1, CatalogAssumption
  <2>2. \A h \in DOMAIN into : into[h].off \in Int \X Int
    BY <1>1, CatalogAssumption DEF BaseCell
  <2> HIDE DEF into
  <2> QED BY <2>1, <2>2
<1>5. \E A \in Int, B \in Int :
        /\ DOMAIN whole = DOMAIN base
        /\ \A k \in DOMAIN base : whole[k].at = Lies(base[k].off, A, B, r)
  <2>1. row \in Int /\ col \in Int
    OBVIOUS
  <2>2. PICK left \in Int, top \in Int : LiesFrom(item, rotation, row, col, left, top)
    BY <2>1, CellsLie
  <2>3. row - top \in Int /\ col - left \in Int
    OBVIOUS
  <2>4. /\ DOMAIN whole = DOMAIN base
        /\ \A k \in DOMAIN base : whole[k].at = Lies(base[k].off, row - top, col - left, r)
    BY <2>2 DEF LiesFrom
  <2> HIDE DEF whole, base, r
  <2> QED BY <2>3, <2>4
<1>6. PICK A \in Int, B \in Int :
        /\ DOMAIN whole = DOMAIN base
        /\ \A k \in DOMAIN base : whole[k].at = Lies(base[k].off, A, B, r)
  BY <1>5
<1>7. /\ DOMAIN pieces = 1 .. N
      /\ \A n \in 1 .. N : pieces[n] = PieceOn(piece, rotation, S(n))
  <2>1. pieces = [n \in 1 .. N |->
                   PieceOn(piece, rotation,
                           {whole[k].at : k \in {j \in DOMAIN whole : d.splitOf[j] = n}})]
    BY DEF SplitPieces
  <2>2. DOMAIN whole = DOMAIN base
    BY <1>6
  <2> HIDE DEF whole, pieces, piece, N, d
  <2> QED BY <2>1, <2>2
<1>8. ASSUME NEW n \in 1 .. N
      PROVE  \E a \in Int, b \in Int : S(n) = Room(piece, a, b, r)
  <2>1. PICK m \in DOMAIN base :
          {base[k].off : k \in own(n)} =
          {<<into[h].off[1] - into[1].off[1] + base[m].off[1],
             into[h].off[2] - into[1].off[2] + base[m].off[2]>> : h \in DOMAIN into}
    BY <1>1
  <2> DEFINE p     == into[1].off
             q     == base[m].off
             of(h) == <<into[h].off[1] - p[1] + q[1], into[h].off[2] - p[2] + q[2]>>
             a     == A - Quarters(p, r)[2] + Quarters(q, r)[2]
             b     == B - Quarters(p, r)[1] + Quarters(q, r)[1]
  <2>2. p \in Int \X Int /\ q \in Int \X Int
    BY <1>3, <1>4
  <2>3. a \in Int /\ b \in Int
    <3>1. /\ Quarters(p, r)[1] \in Int /\ Quarters(p, r)[2] \in Int
          /\ Quarters(q, r)[1] \in Int /\ Quarters(q, r)[2] \in Int
      <4> HIDE DEF p, q, r
      <4> QED BY <1>2, <2>2, QuartersInt
    <3> HIDE DEF p, q, r
    <3> QED BY <3>1
  <2>4. {base[k].off : k \in own(n)} = {of(h) : h \in DOMAIN into}
    BY <2>1
  <2>5. \A h \in DOMAIN into : Lies(of(h), A, B, r) = Lies(into[h].off, a, b, r)
    <3> TAKE h \in DOMAIN into
    <3> DEFINE o == into[h].off
    <3>1. o \in Int \X Int
      BY <1>4
    <3> HIDE DEF p, q, r, o
    <3>2. Lies(<<o[1] - p[1] + q[1], o[2] - p[2] + q[2]>>, A, B, r) =
            Lies(o, A - Quarters(p, r)[2] + Quarters(q, r)[2],
                    B - Quarters(p, r)[1] + Quarters(q, r)[1], r)
      BY <1>2, <2>2, <3>1, LiesMoved
    <3> QED BY <3>2 DEF o
  <2>6. Room(piece, a, b, r) = {Lies(into[h].off, a, b, r) : h \in DOMAIN into}
    BY DEF Room
  <2> HIDE DEF of, a, b, p, q, into, whole, base, r, d
  <2>7. S(n) = {Lies(o, A, B, r) : o \in {base[k].off : k \in own(n)}}
    BY <1>6
  <2>8. S(n) = {Lies(of(h), A, B, r) : h \in DOMAIN into}
    BY <2>4, <2>7
  <2>9. S(n) = {Lies(into[h].off, a, b, r) : h \in DOMAIN into}
    BY <2>5, <2>8
  <2> QED BY <2>3, <2>6, <2>9
<1>9. \A n \in 1 .. N : Extent(PieceCells(pieces[n])) = S(n)
  <2> TAKE n \in 1 .. N
  <2>1. PICK a \in Int, b \in Int : S(n) = Room(piece, a, b, r)
    BY <1>8
  <2>2. pieces[n] = PieceOn(piece, rotation, Room(piece, a, b, r))
    <3> HIDE DEF pieces, piece, S, N
    <3> QED BY <1>7, <2>1
  <2>3. Extent(PieceCells(PieceOn(piece, rotation, Room(piece, a, b, r)))) = Room(piece, a, b, r)
    <3> HIDE DEF piece
    <3> QED BY <1>1, PieceFits
  <2> HIDE DEF pieces, piece, S, r
  <2> QED BY <2>1, <2>2, <2>3
<1> DEFINE family == [n \in DOMAIN pieces |-> Extent(PieceCells(pieces[n]))]
<1>10. DOMAIN family = 1 .. N /\ \A n \in 1 .. N : family[n] = S(n)
  <2> HIDE DEF pieces, S, N
  <2> QED BY <1>7, <1>9
<1>11. UNION {family[n] : n \in DOMAIN family} = Extent(whole)
  <2> HIDE DEF family, whole, base, d, N
  <2>1. Extent(whole) = {whole[k].at : k \in DOMAIN base}
    BY <1>6 DEF Extent
  <2>2. \A k \in DOMAIN base : d.splitOf[k] \in 1 .. N
    BY <1>1
  <2> QED BY <1>10, <2>1, <2>2
<1>12. ASSUME NEW m \in DOMAIN family, NEW n \in DOMAIN family, m # n
       PROVE  family[m] \cap family[n] = {}
  <2> SUFFICES ASSUME NEW c \in S(m), c \in S(n)
               PROVE  FALSE
    <3> HIDE DEF family, S, N
    <3> QED BY <1>10
  <2>1. PICK j \in own(m) : c = whole[j].at
    OBVIOUS
  <2>2. PICK k \in own(n) : c = whole[k].at
    OBVIOUS
  <2>3. j \in DOMAIN base /\ k \in DOMAIN base /\ j # k
    BY <1>12
  <2>4. Lies(base[j].off, A, B, r) = Lies(base[k].off, A, B, r)
    <3> HIDE DEF whole, base, r
    <3> QED BY <1>6, <2>1, <2>2, <2>3
  <2>5. base[j].off = base[k].off
    <3>1. base[j].off \in Int \X Int /\ base[k].off \in Int \X Int
      BY <1>3, <2>3
    <3> HIDE DEF base, r
    <3> QED BY <1>2, <2>4, <3>1, LiesApart
  <2> HIDE DEF base
  <2> QED BY <1>1, <2>3, <2>5
<1> HIDE DEF family
<1>13. Partitions(family, Extent(whole))
  BY <1>11, <1>12 DEF Partitions
<1> QED BY <1>13 DEF family

\* Whatever is on the grid can be split in place.
LEMMA AskedIsExact == PackInv /\ AsAsked => SplitIsExact
<1> SUFFICES ASSUME PackInv, AsAsked, NEW p \in DOMAIN ship.parts
             PROVE  LET unit   == ship.parts[p]
                        pieces == SplitPieces(unit.item, unit.rotation, unit.row, unit.col)
                    IN Catalog[unit.item].splitN > 0 =>
                         Partitions([n \in DOMAIN pieces |-> Extent(PieceCells(pieces[n]))],
                                    Extent(unit.cells))
  BY DEF SplitIsExact
<1> DEFINE unit == ship.parts[p]
<1>1. unit \in PartRec
  BY DEF PackInv, ShipRec
<1>2. /\ unit.item \in Items /\ unit.row \in Nat /\ unit.col \in Nat
      /\ unit.rotation \in Nat
      /\ unit.cells = ShapeCells(unit.item, unit.rotation, unit.row, unit.col)
  BY <1>1 DEF PartRec, AsAsked
<1> HIDE DEF unit
<1>3. ASSUME Catalog[unit.item].splitN > 0
      PROVE  LET pieces == SplitPieces(unit.item, unit.rotation, unit.row, unit.col)
             IN Partitions([n \in DOMAIN pieces |-> Extent(PieceCells(pieces[n]))],
                           Extent(unit.cells))
  BY <1>2, <1>3, SplitsExactly
<1> QED BY <1>3 DEF unit

-----------------------------------------------------------------------------
(* The running totals.                                                     *)

\* g runs up the amounts of the first n parts.
Adds(g, parts, amount, n) ==
  g[0] = 0 /\ \A p \in 1 .. n : g[p] = g[p - 1] + amount[parts[p].item]

Runs(g, parts, amount, n) == g \in [0 .. n -> Nat] /\ Adds(g, parts, amount, n)

\* A set of naturals has a least one.
LEMMA LeastNat ==
  ASSUME NEW S, S \subseteq Nat, S # {}
  PROVE  \E m \in S : \A k \in S : m <= k
<1>1. PICK m \in S : \A k \in S : ~(<<k, m>> \in OpToRel(<, Nat))
  BY NatLessThanWellFounded, WFMin
<1>2. \A k \in S : ~(k < m)
  BY <1>1 DEF OpToRel
<1> QED BY <1>2

\* Amounts can be run up, part by part: there is no first part to fail at.
LEMMA RunsExist ==
  ASSUME NEW parts, NEW amount, NEW n \in Nat, \A p \in 1 .. n : amount[parts[p].item] \in Nat
  PROVE  \E g : Runs(g, parts, amount, n)
<1> DEFINE Bad == {k \in 0 .. n : ~\E g : Runs(g, parts, amount, k)}
<1>1. CASE Bad = {}
  <2>1. n \in 0 .. n
    OBVIOUS
  <2> QED BY <1>1, <2>1
<1>2. CASE Bad # {}
  <2>1. PICK m \in Bad : \A k \in Bad : m <= k
    <3>1. Bad \subseteq Nat
      OBVIOUS
    <3> HIDE DEF Bad
    <3> QED BY <1>2, <3>1, LeastNat
  <2>2. m \in 0 .. n /\ ~\E g : Runs(g, parts, amount, m)
    OBVIOUS
  <2>3. m # 0
    <3>1. Runs([p \in 0 .. 0 |-> 0], parts, amount, 0)
      BY DEF Runs, Adds
    <3> QED BY <2>2, <3>1
  <2>4. m - 1 \in 0 .. n /\ ~(m <= m - 1) /\ m \in 1 .. n
    BY <2>2, <2>3
  <2>5. m - 1 \notin Bad
    <3> HIDE DEF Bad
    <3> QED BY <2>1, <2>4
  <2>6. PICK g : Runs(g, parts, amount, m - 1)
    BY <2>4, <2>5
  <2> DEFINE h == [p \in 0 .. m |-> IF p = m THEN g[m - 1] + amount[parts[m].item] ELSE g[p]]
  <2> HIDE DEF Bad
  <2>7. g \in [0 .. m - 1 -> Nat] /\ g[0] = 0
        /\ \A p \in 1 .. m - 1 : g[p] = g[p - 1] + amount[parts[p].item]
    BY <2>6 DEF Runs, Adds
  <2>8. g[m - 1] \in Nat /\ amount[parts[m].item] \in Nat
    BY <2>4, <2>7
  <2>9. h \in [0 .. m -> Nat]
    BY <2>4, <2>7, <2>8
  <2>10. h[0] = 0
    BY <2>4, <2>7
  <2>11. ASSUME NEW p \in 1 .. m PROVE h[p] = h[p - 1] + amount[parts[p].item]
    <3>1. p - 1 \in 0 .. m /\ p - 1 # m /\ p \in 0 .. m
      BY <2>4
    <3>2. CASE p = m
      BY <3>1, <3>2
    <3>3. CASE p # m
      <4>1. p \in 1 .. m - 1
        BY <2>4, <3>3
      <4> QED BY <2>7, <3>1, <3>3, <4>1
    <3> QED BY <3>2, <3>3
  <2> HIDE DEF h
  <2>12. Runs(h, parts, amount, m)
    BY <2>9, <2>10, <2>11 DEF Runs, Adds
  <2> QED BY <2>2, <2>12
<1> QED BY <1>1, <1>2

\* There is one only.
LEMMA RunsAgree ==
  ASSUME NEW parts, NEW amount, NEW n \in Nat, NEW g, Runs(g, parts, amount, n),
         NEW h, Adds(h, parts, amount, n)
  PROVE  \A p \in 0 .. n : h[p] = g[p]
<1> DEFINE Bad == {p \in 0 .. n : h[p] # g[p]}
<1>1. /\ g[0] = 0 /\ \A p \in 1 .. n : g[p] = g[p - 1] + amount[parts[p].item]
      /\ h[0] = 0 /\ \A p \in 1 .. n : h[p] = h[p - 1] + amount[parts[p].item]
  BY DEF Runs, Adds
<1>2. ASSUME Bad # {} PROVE FALSE
  <2>1. PICK m \in Bad : \A k \in Bad : m <= k
    <3>1. Bad \subseteq Nat
      OBVIOUS
    <3> HIDE DEF Bad
    <3> QED BY <1>2, <3>1, LeastNat
  <2>2. m \in 1 .. n /\ h[m] # g[m]
    BY <1>1
  <2>3. m - 1 \in 0 .. n /\ ~(m <= m - 1)
    BY <2>2
  <2>4. h[m - 1] = g[m - 1]
    BY <2>1, <2>3
  <2> QED BY <1>1, <2>2, <2>4
<1> QED BY <1>2

\* Total is where the running sum ends.
LEMMA TotalRuns ==
  ASSUME NEW parts, NEW amount, Len(parts) \in Nat,
         \A p \in 1 .. Len(parts) : amount[parts[p].item] \in Nat
  PROVE  \E g : Runs(g, parts, amount, Len(parts)) /\ Total(parts, amount) = g[Len(parts)]
<1> DEFINE n == Len(parts)
           F(f) == [p \in 0 .. n |-> IF p = 0 THEN 0 ELSE f[p - 1] + amount[parts[p].item]]
           f == CHOOSE f : f = F(f)
<1>1. PICK g : Runs(g, parts, amount, n)
  BY RunsExist
<1>2. g = F(g)
  <2>1. g = [p \in 0 .. n |-> g[p]]
    BY <1>1 DEF Runs, Adds
  <2>2. \A p \in 0 .. n : g[p] = IF p = 0 THEN 0 ELSE g[p - 1] + amount[parts[p].item]
    BY <1>1 DEF Runs, Adds
  <2> QED BY <2>1, <2>2
<1>3. f = F(f)
  <2> HIDE DEF F
  <2> QED BY <1>2
<1>4. Total(parts, amount) = f[n]
  BY DEF Total
<1> HIDE DEF f
<1>5. Adds(f, parts, amount, n)
  <2>1. f = [p \in 0 .. n |-> IF p = 0 THEN 0 ELSE f[p - 1] + amount[parts[p].item]]
    BY <1>3
  <2> HIDE DEF F
  <2>2. \A p \in 0 .. n : f[p] = IF p = 0 THEN 0 ELSE f[p - 1] + amount[parts[p].item]
    BY <2>1
  <2>3. 0 \in 0 .. n /\ \A p \in 1 .. n : p \in 0 .. n /\ p # 0
    OBVIOUS
  <2> QED BY <2>2, <2>3 DEF Adds
<1> HIDE DEF F
<1>6. f[n] = g[n]
  <2> HIDE DEF n
  <2>1. n \in Nat
    BY DEF n
  <2>2. \A p \in 0 .. n : f[p] = g[p]
    BY <1>1, <1>5, <2>1, RunsAgree
  <2> QED BY <2>1, <2>2
<1> QED BY <1>1, <1>4, <1>6

\* One part more adds what it costs.
LEMMA TotalOfAppend ==
  ASSUME NEW parts \in Seq(PartRec), NEW unit \in PartRec, NEW amount \in [Items -> Nat]
  PROVE  Total(Append(parts, unit), amount) = Total(parts, amount) + amount[unit.item]
<1> DEFINE n == Len(parts)
           more == Append(parts, unit)
<1>1. /\ n \in Nat /\ Len(more) = n + 1 /\ more[n + 1] = unit
      /\ \A p \in 1 .. n : more[p] = parts[p] /\ parts[p] \in PartRec
  OBVIOUS
<1>2. \A p \in 1 .. n + 1 : more[p].item \in Items
  BY <1>1 DEF PartRec
<1>3. \A p \in 1 .. n : parts[p].item \in Items
  BY <1>1 DEF PartRec
<1> HIDE DEF more
<1>4. PICK g : Runs(g, parts, amount, n) /\ Total(parts, amount) = g[n]
  BY <1>1, <1>3, TotalRuns
<1>5. PICK h : Runs(h, more, amount, n + 1) /\ Total(more, amount) = h[n + 1]
  <2>1. Len(more) \in Nat /\ \A p \in 1 .. Len(more) : amount[more[p].item] \in Nat
    BY <1>1, <1>2
  <2>2. \E h : Runs(h, more, amount, Len(more)) /\ Total(more, amount) = h[Len(more)]
    BY <2>1, TotalRuns
  <2> QED BY <1>1, <2>2
<1>6. Adds(h, parts, amount, n)
  BY <1>1, <1>5 DEF Runs, Adds
<1>7. h[n] = g[n]
  <2> HIDE DEF n
  <2>1. \A p \in 0 .. n : h[p] = g[p]
    BY <1>1, <1>4, <1>6, RunsAgree
  <2> QED BY <1>1, <2>1
<1>8. h[n + 1] = h[n] + amount[unit.item]
  <2>1. n + 1 \in 1 .. n + 1 /\ (n + 1) - 1 = n
    BY <1>1
  <2> QED BY <1>1, <1>5, <2>1 DEF Runs, Adds
<1> QED BY <1>4, <1>5, <1>7, <1>8 DEF more

\* A ship without parts costs and weighs nothing.
LEMMA EmptyTallied == Tallied(EmptyShip)
<1>1. \A amount : Total(<<>>, amount) = 0
  <2> SUFFICES ASSUME NEW amount PROVE Total(<<>>, amount) = 0
    OBVIOUS
  <2>1. PICK g : Runs(g, <<>>, amount, 0) /\ Total(<<>>, amount) = g[0]
    <3>1. Len(<<>>) = 0 /\ \A p \in 1 .. Len(<<>>) : amount[<<>>[p].item] \in Nat
      OBVIOUS
    <3>2. Len(<<>>) \in Nat
      BY <3>1
    <3>3. \E g : Runs(g, <<>>, amount, Len(<<>>)) /\ Total(<<>>, amount) = g[Len(<<>>)]
      BY <3>1, <3>2, TotalRuns
    <3> QED BY <3>1, <3>3
  <2> QED BY <2>1 DEF Runs, Adds
<1> QED BY <1>1 DEF Tallied, EmptyShip

\* A PLACE charges what it lays, and nothing else changes the totals.
LEMMA TalliedStep == PackInv /\ TalliesHold /\ [Next]_vars => TalliesHold'
<1> SUFFICES ASSUME PackInv, Tallied(ship), [Next]_vars
             PROVE  Tallied(ship)'
  BY DEF TalliesHold
<1>1. ASSUME NEW item \in Wanted, NEW anchor \in Anchors, NEW rotation \in Rotations,
             Place(item, anchor, rotation)
      PROVE  Tallied(ship)'
  <2> DEFINE unit == PartAt(item, anchor[1], anchor[2], rotation)
  <2>1. anchor[1] \in Nat /\ anchor[2] \in Nat /\ rotation \in Nat
    BY PackAssumption
  <2>2. item \in Items /\ Takes(ship, unit) /\ ship' = Laid(ship, unit)
    BY <1>1 DEF Place
  <2>3. unit.item = item
    BY DEF PartAt
  <2>4. Extent(unit.cells) \subseteq Cells
    BY <2>2 DEF Takes, Legal
  <2>5. unit \in PartRec
    BY <2>1, <2>2, <2>4, LaidPart
  <2> HIDE DEF unit
  <2>6. /\ ship'.parts = Append(ship.parts, unit)
        /\ ship'.cost = ship.cost + Catalog[item].cost
        /\ ship'.weight = ship.weight + Catalog[item].weight
    BY <2>2, <2>3 DEF Laid
  <2>7. ship.parts \in Seq(PartRec)
    BY DEF PackInv, ShipRec
  <2>8. /\ Costs \in [Items -> Nat] /\ Costs[item] = Catalog[item].cost
        /\ Weights \in [Items -> Nat] /\ Weights[item] = Catalog[item].weight
    BY <2>2, CatalogAssumption DEF Costs, Weights
  <2>9. Total(ship'.parts, Costs) = Total(ship.parts, Costs) + Costs[item]
    BY <2>3, <2>5, <2>6, <2>7, <2>8, TotalOfAppend
  <2>10. Total(ship'.parts, Weights) = Total(ship.parts, Weights) + Weights[item]
    BY <2>3, <2>5, <2>6, <2>7, <2>8, TotalOfAppend
  <2>11. ship.cost = Total(ship.parts, Costs) /\ ship.weight = Total(ship.parts, Weights)
    BY DEF Tallied
  <2> QED BY <2>6, <2>8, <2>9, <2>10, <2>11 DEF Tallied
<1>2. ASSUME ship' = ship PROVE Tallied(ship)'
  BY <1>2 DEF Tallied
<1>3. ASSUME NEW item \in Wanted, NEW anchor \in Anchors, NEW rotation \in Rotations,
             Refuse(item, anchor, rotation)
      PROVE  Tallied(ship)'
  BY <1>2, <1>3 DEF Refuse
<1> QED BY <1>1, <1>2, <1>3 DEF Next, vars

\* What lies on the grid can be taken off and laid again as its pieces, on
\* exactly its cells, and the budgets were charged for it once, for any grid, any
\* budgets and any catalog whose pieces cover their part before it is turned.
THEOREM SplitsAndTotals == Spec => []PiecesAndTotals
<1>1. Init => PackInv /\ AsAsked /\ TalliesHold
  BY PackInit, EmptyTallied DEF Init, EmptyShip, AsAsked, TalliesHold
<1>2. (PackInv /\ AsAsked /\ TalliesHold) /\ [Next]_vars => (PackInv /\ AsAsked /\ TalliesHold)'
  BY PackStep, AskedStep, TalliedStep
<1>3. PackInv /\ AsAsked /\ TalliesHold => PiecesAndTotals
  BY AskedIsExact DEF PiecesAndTotals
<1> QED BY <1>1, <1>2, <1>3, PTL DEF Spec
-----------------------------------------------------------------------------
(* Accounts, results and practice.                                         *)

\* A set of positions that is not empty has a last one.
LEMMA LastExists ==
  ASSUME NEW n \in Nat, NEW T, T \subseteq 1 .. n, T # {}
  PROVE  \E b \in T : \A g \in T : g <= b
<1> DEFINE Gaps == {n - b : b \in T}
<1>1. Gaps \subseteq Nat /\ Gaps # {}
  <2>1. \A b \in T : n - b \in Nat
    OBVIOUS
  <2> QED BY <2>1
<1>2. PICK m \in Gaps : \A k \in Gaps : ~(<<k, m>> \in OpToRel(<, Nat))
  <2> HIDE DEF Gaps
  <2> QED BY <1>1, NatLessThanWellFounded, WFMin
<1>3. PICK b \in T : m = n - b
  OBVIOUS
<1>4. ASSUME NEW g \in T
      PROVE  g <= b
  <2>1. n - g \in Gaps /\ n - g \in Nat /\ m \in Nat
    BY <1>1
  <2>2. ~(n - g < m)
    BY <1>2, <2>1 DEF OpToRel
  <2> QED BY <1>3, <2>2
<1> QED BY <1>4

-----------------------------------------------------------------------------
(* The guest account.                                                      *)

\* Whatever a cut reply gives was in the reply, and belongs to its status.
LEMMA GuestReads ==
  ASSUME NEW rep, NEW r \in Guest!dw2_http(rep)
  PROVE  /\ \A key : Guest!dw2_json_str(r, key) =>
              r.rc = 0 /\ r.status = rep.status /\ r.whole[key] = rep.body[key]
         /\ r.status \in {0, 40, rep.status}
<1>1. CASE r = Guest!Failed
  BY <1>1 DEF Guest!Failed, Guest!dw2_json_str
<1>2. CASE r = [rc |-> 0, status |-> Guest!CutStatus, whole |-> <<>>, torn |-> {}]
  BY <1>2 DEF Guest!CutStatus, Guest!dw2_json_str
<1>3. ASSUME NEW W \in SUBSET DOMAIN rep.body, NEW T,
             r = [rc |-> 0, status |-> rep.status, whole |-> [k \in W |-> rep.body[k]],
                  torn |-> T]
      PROVE  /\ \A key : Guest!dw2_json_str(r, key) =>
                  r.rc = 0 /\ r.status = rep.status /\ r.whole[key] = rep.body[key]
             /\ r.status \in {0, 40, rep.status}
  BY <1>3 DEF Guest!dw2_json_str
<1> QED BY <1>1, <1>2, <1>3 DEF Guest!dw2_http

\* The account that IDUNA may still tell the run of.
Told ==
  \/ reply = Absent
  \/ \E code \in {401, 503} : reply = Guest!Granted(code, <<>>)
  \/ /\ ~loaded
     /\ \E g \in 1 .. guests :
          reply = Guest!Granted(201, [player_id |-> g, guest_secret |-> g, token |-> g])
  \/ loaded /\ reply = Guest!Granted(200, [token |-> me.pid])

\* A run that was told who it is by the file is who the file names; one that was
\* not finds no file until it writes it; and what is left to write is an account.
GuestInv ==
  /\ Guest!GuestTypeOK /\ guests \in Nat /\ loaded \in BOOLEAN
  /\ Guest!KeptLetsIn
  /\ pc # "off" /\ loaded => file # Absent /\ me.pid = file.pid /\ me.secret = file.secret
  /\ pc \in {"ask", "save"} /\ ~loaded => file = Absent
  /\ pc = "save" => ~loaded
  /\ pc \in {"save", "play"} =>
       me.pid \in 1 .. guests /\ me.secret = me.pid /\ me.token = me.pid
  /\ pc = "ask" => Told

LEMMA GuestInit == DeskInit => GuestInv
<1>1. MaxGuests \in Nat
  BY DeskAssumption
<1>2. DeskInit => Guest!Init
  BY DEF DeskInit
<1>3. Guest!Init => Guest!GuestTypeOK
  BY <1>1 DEF Guest!Init, Guest!GuestTypeOK
<1>4. Guest!Init => guests \in Nat /\ Guest!KeptLetsIn /\ pc = "off"
  BY DEF Guest!Init, Guest!KeptLetsIn
<1>5. Guest!Init => loaded \in BOOLEAN
  BY Zenon DEF Guest!Init
<1> QED BY <1>2, <1>3, <1>4, <1>5 DEF GuestInv

\* What a call that succeeds leaves in the buffers is a whole account.
LEMMA HeardWhole ==
  ASSUME GuestInv, Guest!Hear, rc' = 0
  PROVE  /\ me'.pid \in 1 .. guests /\ me'.secret = me'.pid /\ me'.token = me'.pid
         /\ loaded => me'.pid = me.pid
<1>1. PICK r \in IF reply = Absent THEN {Guest!Failed} ELSE Guest!dw2_http(reply) :
        /\ rc' = Guest!ResultOf(r)
        /\ me' = [pid    |-> IF loaded THEN me.pid ELSE Guest!Left(r, "player_id", me.pid),
                  secret |-> IF loaded THEN me.secret
                             ELSE Guest!Left(r, "guest_secret", me.secret),
                  token  |-> Guest!Left(r, "token", me.token)]
  BY DEF Guest!Hear
<1>2. r.rc = 0 /\ r.status = (IF loaded THEN 200 ELSE 201) /\ Guest!Found(r)
  BY <1>1 DEF Guest!ResultOf
<1>3. reply # Absent /\ r \in Guest!dw2_http(reply)
  BY <1>1, <1>2 DEF Guest!Failed
<1>4. pc = "ask" /\ Told
  BY DEF GuestInv, Guest!Hear
<1>5. r.status \in {0, 40, reply.status}
  BY <1>3, GuestReads
<1>6. \A key : Guest!dw2_json_str(r, key) => r.whole[key] = reply.body[key]
  BY <1>3, GuestReads
<1>7. CASE loaded
  <2>1. reply = Guest!Granted(200, [token |-> me.pid])
    BY <1>2, <1>3, <1>4, <1>5, <1>7 DEF Told, Guest!Granted
  <2>2. reply.body.token = me.pid
    BY <2>1 DEF Guest!Granted
  <2>3. Guest!dw2_json_str(r, "token")
    BY <1>2, <1>7 DEF Guest!Found, Guest!Needed
  <2>4. me'.token = me.pid /\ me'.pid = me.pid /\ me'.secret = me.secret
    BY <1>1, <1>6, <1>7, <2>2, <2>3 DEF Guest!Left
  <2> QED BY <1>4, <1>7, <2>4 DEF GuestInv, Guest!KeptLetsIn, Guest!Secret
<1>8. CASE ~loaded
  <2>1. PICK g \in 1 .. guests :
          reply = Guest!Granted(201, [player_id |-> g, guest_secret |-> g, token |-> g])
    BY <1>2, <1>3, <1>4, <1>5, <1>8 DEF Told, Guest!Granted
  <2>2. reply.body.player_id = g /\ reply.body.guest_secret = g /\ reply.body.token = g
    BY <2>1 DEF Guest!Granted
  <2>3. \A key \in {"player_id", "guest_secret", "token"} : Guest!dw2_json_str(r, key)
    BY <1>2, <1>8 DEF Guest!Found, Guest!Needed
  <2>4. me'.token = g /\ me'.pid = g /\ me'.secret = g
    BY <1>1, <1>6, <1>8, <2>2, <2>3 DEF Guest!Left
  <2> QED BY <1>8, <2>4
<1> QED BY <1>7, <1>8

LEMMA GuestStep == GuestInv /\ Guest!Next => GuestInv'
<1> SUFFICES ASSUME GuestInv, Guest!Next
             PROVE  GuestInv'
  OBVIOUS
<1> USE DEF GuestInv, Guest!GuestTypeOK, Guest!KeptLetsIn
<1> USE DeskAssumption
<1>1. CASE Guest!Launch
  BY <1>1 DEF Guest!Launch, Guest!Empty, Told
<1>2. CASE Guest!Register
  <2>1. guests' = guests + 1 /\ guests' \in Nat /\ guests' \in 1 .. guests' /\ guests' <= MaxGuests
    BY <1>2 DEF Guest!Register
  <2>2. Told'
    BY <1>2, <2>1 DEF Guest!Register, Told, Guest!Secret
  <2>3. \A g \in 1 .. guests : g \in 1 .. guests'
    BY <2>1
  <2> QED BY <1>2, <2>1, <2>2, <2>3 DEF Guest!Register, Guest!Secret
<1>3. CASE Guest!Login
  <2>1. Told'
    BY <1>3 DEF Guest!Login, Told, Guest!Secret
  <2> QED BY <1>3, <2>1 DEF Guest!Login
<1>4. CASE Guest!Refuse
  <2>1. Told'
    BY <1>4 DEF Guest!Refuse, Told
  <2> QED BY <1>4, <2>1 DEF Guest!Refuse
<1>5. CASE Guest!Hear
  <2>1. rc' \in {0, -1, -2}
    BY <1>5 DEF Guest!Hear, Guest!ResultOf
  <2>2. CASE rc' # 0
    BY <1>5, <2>1, <2>2 DEF Guest!Hear
  <2>3. CASE rc' = 0
    <3>1. /\ me'.pid \in 1 .. guests /\ me'.secret = me'.pid /\ me'.token = me'.pid
          /\ loaded => me'.pid = me.pid
      BY <1>5, <2>3, HeardWhole
    <3>2. /\ pc = "ask" /\ pc' = IF loaded THEN "play" ELSE "save"
          /\ UNCHANGED <<file, loaded, reply, guests>>
          /\ first' = IF pc' = "play" /\ first = Absent THEN me'.pid ELSE first
      BY <1>5, <2>3 DEF Guest!Hear
    <3> QED BY <2>1, <3>1, <3>2 DEF Guest!Secret
  <2> QED BY <2>2, <2>3
<1>6. CASE Guest!Save
  BY <1>6 DEF Guest!Save, Guest!Secret
<1>7. CASE Guest!Kill
  BY <1>7 DEF Guest!Kill
<1> QED BY <1>1, <1>2, <1>3, <1>4, <1>5, <1>6, <1>7 DEF Guest!Next

LEMMA GuestStill == GuestInv /\ UNCHANGED guestVars => GuestInv'
BY DEF GuestInv, Guest!GuestTypeOK, Guest!KeptLetsIn, Told, guestVars

\* No run loses or changes the account that is kept.
LEMMA KeptStays ==
  ASSUME GuestInv, Guest!Next
  PROVE  file # Absent => file' = file /\ (pc' = "play" /\ loaded' => me'.pid = file.pid)
<1> SUFFICES ASSUME file # Absent
             PROVE  file' = file /\ (pc' = "play" /\ loaded' => me'.pid = file.pid)
  OBVIOUS
<1>1. CASE Guest!Hear
  BY <1>1, HeardWhole DEF Guest!Hear, GuestInv
<1>2. CASE ~Guest!Hear
  BY <1>2 DEF Guest!Next, Guest!Launch, Guest!Register, Guest!Login, Guest!Refuse, Guest!Save,
              Guest!Kill, GuestInv
<1> QED BY <1>1, <1>2

\* GuestStays: what a guest keeps is a whole account and stays that account, through
\* refusals, failures and kills at any point, and who plays does so with its token.
THEOREM GuestIsKept == DeskSpec => GuestStays
<1> DEFINE DeskNext == Practice(LNext) \/ AgentDoes(Agent!Next) \/ GuestDoes(Guest!Next)
<1>1. DeskInit => GuestInv
  BY GuestInit
<1>2. GuestInv /\ [DeskNext]_desk => GuestInv'
  BY GuestStep, GuestStill DEF Practice, AgentDoes, GuestDoes, desk, agentVars, guestVars
<1>3. GuestInv => Guest!GuestTypeOK /\ Guest!KeptLetsIn /\ Guest!PlaysWithOwnToken
  BY DEF GuestInv, Guest!PlaysWithOwnToken, Guest!Secret
<1>4. GuestInv /\ [DeskNext]_desk =>
        [file # Absent => file' = file /\ (pc' = "play" /\ loaded' => me'.pid = file.pid)]_(Guest!vars)
  BY KeptStays DEF Practice, AgentDoes, GuestDoes, desk, guestVars, Guest!vars
<1> QED BY <1>1, <1>2, <1>3, <1>4, PTL DEF DeskSpec, GuestStays, Guest!KeptForGood

-----------------------------------------------------------------------------
(* The IDUNA client.                                                       *)

LEMMA AgentReads ==
  ASSUME NEW rep, NEW r \in Agent!dw2_http(rep)
  PROVE  /\ \A key : Agent!dw2_json_str(r, key) =>
              r.rc = 0 /\ r.status = rep.status /\ r.whole[key] = rep.body[key]
         /\ r.rc = 0 => r.status \in {40, rep.status}
<1>1. CASE r = Agent!Failed
  BY <1>1 DEF Agent!Failed, Agent!dw2_json_str
<1>2. CASE r = [rc |-> 0, status |-> Agent!CutStatus, whole |-> <<>>, torn |-> {}]
  BY <1>2 DEF Agent!CutStatus, Agent!dw2_json_str
<1>3. ASSUME NEW W \in SUBSET DOMAIN rep.body, NEW T,
             r = [rc |-> 0, status |-> rep.status, whole |-> [k \in W |-> rep.body[k]],
                  torn |-> T]
      PROVE  /\ \A key : Agent!dw2_json_str(r, key) =>
                  r.rc = 0 /\ r.status = rep.status /\ r.whole[key] = rep.body[key]
             /\ r.rc = 0 => r.status \in {40, rep.status}
  BY <1>3 DEF Agent!dw2_json_str
<1> QED BY <1>1, <1>2, <1>3 DEF Agent!dw2_http

Refusals == {Agent!Says(401), Agent!Says(503)}
Key(e)   == [status |-> 200, body |-> [access_token |-> e]]
Done     == [status |-> 200, body |-> <<>>]
Who(p)   == [status |-> 200, body |-> [player_id |-> p, display_name |-> p]]

\* An answer is a value, and a refusal is not a grant.
LEMMA AnswersAre ==
  /\ Absent # 0 /\ Absent # -1 /\ Absent # Done
  /\ \A a \in Refusals : a # Absent /\ a.status \in {401, 503}
  /\ \A e \in 1 .. MaxEra : Absent # Key(e)
  /\ \A p \in Players : Absent # Who(p)
<1>1. /\ Absent \notin {0, -1}
      /\ \A code \in {401, 503} : Absent # [status |-> code, body |-> <<>>]
      /\ \A body \in {<<>>} \cup {[access_token |-> e] : e \in 1 .. MaxEra}
                       \cup {[player_id |-> p, display_name |-> p] : p \in Players} :
           Absent # [status |-> 200, body |-> body]
  BY DeskAssumption
<1>2. Absent # Done
  BY <1>1 DEF Done
<1>3. \A a \in Refusals : a # Absent /\ a.status \in {401, 503}
  BY <1>1 DEF Refusals, Agent!Says
<1>4. \A e \in 1 .. MaxEra : Absent # Key(e)
  BY <1>1 DEF Key
<1>5. \A p \in Players : Absent # Who(p)
  BY <1>1 DEF Who
<1> QED BY <1>1, <1>2, <1>3, <1>4, <1>5

Calling == {"attempt", "login", "report"}

\* What is asked is what the call is about, and so is what IDUNA has said.
AgentShape ==
  /\ Agent!IdunaTypeOK /\ era \in 1 .. MaxEra
  /\ at \in Calling => job \in Matches /\ returned[job] = Absent
  /\ at \in {"login", "report"} => attempt \in {0, 1}
  /\ at \in {"idle", "attempt"} => asked = Agent!Nothing
  /\ at = "login" =>
       /\ asked = [kind |-> "login", bearer |-> Agent!None, what |-> secret]
       /\ answered \in {Absent} \cup Refusals \cup {Key(e) : e \in 1 .. MaxEra}
  /\ at = "report" =>
       /\ asked = [kind |-> "report", bearer |-> token, what |-> job]
       /\ answered \in {Absent} \cup Refusals \cup {Done}
  /\ at = "verify" =>
       /\ asked = [kind |-> "verify", bearer |-> Agent!None, what |-> job]
       /\ answered \in {Absent} \cup Refusals \cup {Who(p) : p \in Players \cap {job}}

LateReports(m) == {q \in late : q.kind = "report" /\ q.what = m}

\* Of a report IDUNA has taken none, or has one to take, or has taken one.
Counted(m) ==
  /\ returned[m] = Absent /\ ~(at = "report" /\ job = m) =>
       recorded[m] = 0 /\ LateReports(m) = {}
  /\ returned[m] = Absent /\ at = "report" /\ job = m =>
       /\ LateReports(m) = {}
       /\ \/ recorded[m] = (IF answered = Done THEN 1 ELSE 0)
          \/ answered = Agent!Says(503) /\ recorded[m] = 1
  /\ returned[m] = 0 => recorded[m] = 1 /\ LateReports(m) = {}
  /\ returned[m] = -1 =>
       /\ recorded[m] \in {0, 1}
       /\ recorded[m] = 1 => LateReports(m) = {}
       /\ \A q, o \in LateReports(m) : q = o

\* While nothing has failed, a call refused once holds the token of the era.
OnItsWay ==
  ~trouble /\ secret = Right =>
    /\ at = "attempt" => attempt = 0 \/ (attempt = 1 /\ token \in {Agent!None, era})
    /\ at = "login" => answered \in {Absent, Key(era)}
    /\ at = "report" =>
         /\ attempt = 0 \/ (attempt = 1 /\ token = era)
         /\ answered \in {Absent, IF token = era THEN Done ELSE Agent!Says(401)}

AgentInv ==
  /\ AgentShape /\ (\A m \in Matches : Counted(m)) /\ OnItsWay
  /\ Agent!VerifiedIsWhole /\ Agent!OwnKeyOnly

-----------------------------------------------------------------------------
\* Of a file of several lines the last of one's own is found.
LEMMA ConfiguredKey ==
  ASSUME NEW f \in Files, Agent!dwi2_configure(f) # Absent
  PROVE  \E n \in DOMAIN f : f[n].key # "other" /\ f[n].val = Agent!dwi2_configure(f)
<1> DEFINE Mine == Agent!Own(f)
<1>1. Len(f) \in Nat /\ DOMAIN f = 1 .. Len(f)
  BY DeskAssumption
<1>2. CASE Mine # {}
  <2>1. Mine \subseteq 1 .. Len(f)
    BY <1>1 DEF Agent!Own
  <2>2. \E n \in Mine : \A o \in Mine : o <= n
    BY <1>1, <1>2, <2>1, LastExists
  <2>3. PICK n \in Mine : Agent!dwi2_configure(f) = f[n].val
    BY <1>2, <2>2 DEF Agent!dwi2_configure
  <2> QED BY <2>3 DEF Agent!Own
<1>3. CASE Mine = {}
  <2>1. Agent!Raw(f) /\ Agent!dwi2_configure(f) = f[1].val
    BY <1>3 DEF Agent!dwi2_configure
  <2>2. 1 \in DOMAIN f
    BY <1>1, <2>1 DEF Agent!Raw
  <2> QED BY <2>1, <2>2 DEF Agent!Raw
<1> QED BY <1>2, <1>3

LEMMA AgentInit == DeskInit => AgentInv
<1> SUFFICES ASSUME DeskInit PROVE AgentInv
  OBVIOUS
<1>1. Agent!Init
  BY DEF DeskInit
<1>2. MaxEra \in Nat \ {0}
  BY DeskAssumption
<1>3. Agent!IdunaTypeOK
  BY <1>1, <1>2 DEF Agent!Init, Agent!IdunaTypeOK, Agent!None, Agent!Nobody
<1>4. AgentShape
  BY <1>1, <1>2, <1>3 DEF Agent!Init, AgentShape, Calling
<1>5. ASSUME NEW m \in Matches
      PROVE  Counted(m)
  BY <1>1, AnswersAre DEF Agent!Init, Counted, LateReports
<1>6. OnItsWay /\ Agent!VerifiedIsWhole
  BY <1>1 DEF Agent!Init, OnItsWay, Agent!VerifiedIsWhole
<1>7. Agent!OwnKeyOnly
  <2>1. PICK f \in Files : secret = Agent!dwi2_configure(f) /\ secret # Absent
    BY <1>1 DEF Agent!Init
  <2>2. PICK n \in DOMAIN f : f[n].key # "other" /\ f[n].val = secret
    BY <2>1, ConfiguredKey
  <2>3. \A g \in Files : \A o \in DOMAIN g : g[o].key = "other" => g[o].val # f[n].val
    BY <2>2, DeskAssumption
  <2> QED BY <2>2, <2>3 DEF Agent!OwnKeyOnly
<1> QED BY <1>4, <1>5, <1>6, <1>7 DEF AgentInv

-----------------------------------------------------------------------------
(* What hearing an answer does.                                            *)

\* A report succeeds only if it was done, and is tried again only if it was refused.
LEMMA ReportHeardIs ==
  ASSUME AgentShape, Agent!Hear, at = "report"
  PROVE  /\ UNCHANGED <<job, verified, secret, era, recorded>>
         /\ \/ /\ at' = "attempt" /\ attempt' = attempt + 1 /\ token' = Agent!None
               /\ answered = Agent!Says(401) /\ UNCHANGED returned
            \/ /\ at' = "idle" /\ answered = Done /\ returned' = [returned EXCEPT ![job] = 0]
               /\ UNCHANGED <<token, attempt>>
            \/ /\ at' = "idle" /\ returned' = [returned EXCEPT ![job] = -1]
               /\ UNCHANGED <<token, attempt>>
               /\ trouble' \/ answered = Agent!Says(503)
         /\ answered # Absent => late' = late
         /\ answered = Absent => at' = "idle" /\ late' \in {late, late \cup {asked}}
                                 /\ returned' = [returned EXCEPT ![job] = -1]
<1>1. PICK r \in IF answered = Absent THEN {Agent!Failed} ELSE Agent!dw2_http(answered),
           arrives \in BOOLEAN :
        /\ Agent!LoginHeard(r) \/ Agent!ReportHeard(r) \/ Agent!VerifyHeard(r)
        /\ late' = IF arrives /\ answered = Absent THEN late \cup {asked} ELSE late
        /\ trouble' = (trouble \/ answered = Absent \/ r # Agent!Entire(answered))
  BY DEF Agent!Hear
<1>2. Agent!ReportHeard(r)
  BY <1>1 DEF Agent!LoginHeard, Agent!VerifyHeard
<1>3. UNCHANGED <<job, verified, secret, era, recorded>>
  BY <1>2 DEF Agent!Hear, Agent!ReportHeard
<1>4. answered = Absent => r.rc = -1
  BY <1>1 DEF Agent!Failed
<1>5. answered # Absent /\ r.rc = 0 => r.status \in {40, answered.status}
  BY <1>1, AgentReads
<1>6. /\ answered \in {Absent, Done, Agent!Says(401), Agent!Says(503)}
      /\ Done.status = 200 /\ Agent!Says(401).status = 401 /\ Agent!Says(503).status = 503
  BY DEF AgentShape, Refusals, Done, Agent!Says
<1>7. CASE r.rc = 0 /\ r.status = 401
  <2>1. answered = Agent!Says(401) /\ answered # Absent
    BY <1>4, <1>5, <1>6, <1>7
  <2> QED BY <1>1, <1>2, <1>3, <1>7, <2>1 DEF Agent!ReportHeard
<1>8. CASE r.rc = 0 /\ r.status = 200
  <2>1. answered = Done /\ answered # Absent
    BY <1>4, <1>5, <1>6, <1>8
  <2> QED BY <1>1, <1>2, <1>3, <1>8, <2>1 DEF Agent!ReportHeard, Agent!Return
<1>9. CASE ~(r.rc = 0 /\ r.status \in {200, 401})
  <2>1. at' = "idle" /\ returned' = [returned EXCEPT ![job] = -1] /\ UNCHANGED <<token, attempt>>
    BY <1>2, <1>9 DEF Agent!ReportHeard, Agent!Return
  <2>2. late' = late \/ (answered = Absent /\ late' = late \cup {asked})
    BY <1>1
  <2>3. trouble' \/ answered = Agent!Says(503)
    <3>1. CASE answered = Absent
      BY <1>1, <3>1
    <3>2. CASE r # Agent!Entire(answered)
      BY <1>1, <3>2
    <3>3. CASE answered # Absent /\ r = Agent!Entire(answered)
      <4>1. r.rc = 0 /\ r.status = answered.status
        BY <3>3 DEF Agent!Entire
      <4> QED BY <1>6, <1>9, <3>3, <4>1
    <3> QED BY <3>1, <3>2, <3>3
  <2> QED BY <1>3, <2>1, <2>2, <2>3
<1> QED BY <1>7, <1>8, <1>9

\* A login that succeeds leaves the token of the answer.
LEMMA LoginHeardIs ==
  ASSUME AgentShape, Agent!Hear, at = "login"
  PROVE  /\ UNCHANGED <<job, verified, secret, era, recorded, attempt>>
         /\ token' \in {token, Agent!None, Piece} \cup 1 .. MaxEra
         /\ \/ at' = "attempt" /\ UNCHANGED returned
            \/ at' = "idle" /\ returned' = [returned EXCEPT ![job] = -1]
         /\ ~trouble' =>
              /\ answered # Absent /\ ~trouble
              /\ \A e \in 1 .. MaxEra :
                   answered = Key(e) => at' = "attempt" /\ token' = e
         /\ late' \in {late, late \cup {asked}}
<1>1. PICK r \in IF answered = Absent THEN {Agent!Failed} ELSE Agent!dw2_http(answered),
           arrives \in BOOLEAN :
        /\ Agent!LoginHeard(r) \/ Agent!ReportHeard(r) \/ Agent!VerifyHeard(r)
        /\ late' = IF arrives /\ answered = Absent THEN late \cup {asked} ELSE late
        /\ trouble' = (trouble \/ answered = Absent \/ r # Agent!Entire(answered))
  BY DEF Agent!Hear
<1>2. Agent!LoginHeard(r)
  BY <1>1 DEF Agent!ReportHeard, Agent!VerifyHeard
<1>3. UNCHANGED <<job, verified, secret, era, recorded, attempt>>
  BY <1>2 DEF Agent!Hear, Agent!LoginHeard
<1>4. answered = Absent => r.rc = -1
  BY <1>1 DEF Agent!Failed
<1>5. \A key : answered # Absent /\ Agent!dw2_json_str(r, key) =>
        r.status = answered.status /\ r.whole[key] = answered.body[key]
  BY <1>1, AgentReads
<1>6. answered # Absent /\ r.rc = 0 => r.status \in {40, answered.status}
  BY <1>1, AgentReads
<1>7. /\ answered \in {Absent} \cup Refusals \cup {Key(e) : e \in 1 .. MaxEra}
      /\ \A a \in Refusals : a.status # 200
      /\ \A e \in 1 .. MaxEra : Key(e).status = 200 /\ Key(e).body = [access_token |-> e]
  BY AnswersAre DEF AgentShape, Key
<1>8. CASE ~(r.rc = 0 /\ r.status = 200)
  <2>1. token' = token /\ at' = "idle" /\ returned' = [returned EXCEPT ![job] = -1]
    BY <1>2, <1>8 DEF Agent!LoginHeard, Agent!Return
  <2>2. ~trouble' => answered # Absent /\ ~trouble /\ \A e \in 1 .. MaxEra : answered # Key(e)
    <3>1. ~trouble' => answered # Absent /\ ~trouble /\ r = Agent!Entire(answered)
      BY <1>1
    <3>2. r = Agent!Entire(answered) => answered.status # 200
      BY <1>8 DEF Agent!Entire
    <3>3. \A e \in 1 .. MaxEra : answered = Key(e) => answered.status = 200
      BY DEF Key
    <3> QED BY <3>1, <3>2, <3>3
  <2>3. late' \in {late, late \cup {asked}}
    BY <1>1
  <2>4. token' \in {token, Agent!None, Piece} \cup 1 .. MaxEra
    BY <2>1
  <2>5. at' = "idle" /\ returned' = [returned EXCEPT ![job] = -1]
    BY <2>1
  <2>6. ~trouble' =>
              /\ answered # Absent /\ ~trouble
              /\ \A e \in 1 .. MaxEra :
                   answered = Key(e) => at' = "attempt" /\ token' = e
    BY <2>2
  <2> QED BY <1>3, <2>3, <2>4, <2>5, <2>6
<1>9. CASE r.rc = 0 /\ r.status = 200
  <2>1. answered # Absent /\ answered.status = 200
    BY <1>4, <1>6, <1>9
  <2>2. PICK e \in 1 .. MaxEra : answered = Key(e)
    BY <1>7, <2>1
  <2>3. token' = Agent!Left(r, "access_token", token)
    BY <1>2, <1>9 DEF Agent!LoginHeard
  <2>4. token' \in {token, Piece, e}
    <3>1. answered.body.access_token = e
      BY <2>2 DEF Key
    <3>2. Agent!dw2_json_str(r, "access_token") =>
            r.whole["access_token"] = answered.body["access_token"]
      BY <1>5, <2>1
    <3>3. Agent!dw2_json_str(r, "access_token") => r.whole["access_token"] = e
      BY <3>1, <3>2
    <3> QED BY <2>3, <3>3 DEF Agent!Left
  <2>5. \/ at' = "attempt" /\ UNCHANGED returned
        \/ at' = "idle" /\ returned' = [returned EXCEPT ![job] = -1]
    BY <1>2, <1>9 DEF Agent!LoginHeard, Agent!Return
  <2>6. ~trouble' => /\ ~trouble
                     /\ \A d \in 1 .. MaxEra : answered = Key(d) => at' = "attempt" /\ token' = d
    <3> SUFFICES ASSUME ~trouble'
                 PROVE  ~trouble /\ \A d \in 1 .. MaxEra :
                          answered = Key(d) => at' = "attempt" /\ token' = d
      OBVIOUS
    <3>1. ~trouble /\ r = Agent!Entire(answered)
      BY <1>1
    <3>2. Agent!dw2_json_str(r, "access_token")
      <4>1. r.torn = {} /\ r.whole = [access_token |-> e]
        BY <1>7, <2>2, <3>1 DEF Agent!Entire
      <4> QED BY <4>1 DEF Agent!dw2_json_str
    <3>3. token' = answered.body["access_token"]
      BY <1>5, <2>1, <2>3, <3>2 DEF Agent!Left
    <3>4. \A d \in 1 .. MaxEra : answered = Key(d) => answered.body.access_token = d
      BY DEF Key
    <3>5. \A d \in 1 .. MaxEra : answered = Key(d) => token' = d
      BY <3>3, <3>4
    <3>6. at' = "attempt"
      BY <1>2, <1>9, <3>2 DEF Agent!LoginHeard
    <3> QED BY <3>1, <3>5, <3>6
  <2>7. late' \in {late, late \cup {asked}}
    BY <1>1
  <2> QED BY <1>3, <2>1, <2>4, <2>5, <2>6, <2>7
<1> QED BY <1>8, <1>9

\* Who is verified is who the answer names, and whole.
LEMMA VerifyHeardIs ==
  ASSUME AgentShape, Agent!Hear, at = "verify"
  PROVE  /\ UNCHANGED <<job, secret, era, recorded, attempt, token, returned>>
         /\ at' = "idle" /\ verified'.rc \in {0, -1, -2} /\ verified'.token = job
         /\ verified'.rc = 0 => job \in Players /\ verified'.player_id = job
         /\ late' \in {late, late \cup {asked}}
<1>1. PICK r \in IF answered = Absent THEN {Agent!Failed} ELSE Agent!dw2_http(answered),
           arrives \in BOOLEAN :
        /\ Agent!LoginHeard(r) \/ Agent!ReportHeard(r) \/ Agent!VerifyHeard(r)
        /\ late' = IF arrives /\ answered = Absent THEN late \cup {asked} ELSE late
  BY DEF Agent!Hear
<1>2. Agent!VerifyHeard(r)
  BY <1>1 DEF Agent!LoginHeard, Agent!ReportHeard
<1>3. /\ UNCHANGED <<job, secret, era, recorded, attempt, token, returned>>
      /\ at' = "idle"
  BY <1>2 DEF Agent!Hear, Agent!VerifyHeard
<1>4. /\ verified'.rc = Agent!VerifyResult(r) /\ verified'.token = job
      /\ verified'.player_id = Agent!Left(r, "player_id", Absent)
  BY <1>2 DEF Agent!VerifyHeard
<1>5. Agent!VerifyResult(r) \in {0, -1, -2}
  BY DEF Agent!VerifyResult
<1>6. ASSUME verified'.rc = 0
      PROVE  job \in Players /\ verified'.player_id = job
  <2>1. r.rc = 0 /\ r.status = 200 /\ Agent!dw2_json_str(r, "player_id")
    BY <1>4, <1>6 DEF Agent!VerifyResult
  <2>2. answered # Absent
    BY <1>1, <2>1 DEF Agent!Failed
  <2>3. answered.status = 200 /\ r.whole["player_id"] = answered.body["player_id"]
    BY <1>1, <2>1, <2>2, AgentReads
  <2>4. answered = Who(job) /\ job \in Players
    BY <2>2, <2>3, AnswersAre DEF AgentShape
  <2> QED BY <1>4, <2>1, <2>3, <2>4 DEF Who, Agent!Left
<1>7. late' \in {late, late \cup {asked}}
  BY <1>1
<1> QED BY <1>3, <1>4, <1>5, <1>6, <1>7

-----------------------------------------------------------------------------
(* The steps.                                                              *)

LEMMA ReturnTypes ==
  ASSUME AgentShape, NEW v \in {0, -1}, job \in Matches,
         returned' = [returned EXCEPT ![job] = v]
  PROVE  /\ returned' \in [Matches -> {Absent, 0, -1}]
         /\ returned'[job] = v /\ \A m \in Matches : m # job => returned'[m] = returned[m]
BY DEF AgentShape, Agent!IdunaTypeOK

LEMMA ShapeStep ==
  ASSUME AgentShape, Agent!Next
  PROVE  AgentShape'
<1> USE DEF Calling
<1>0. /\ MaxEra \in Nat \ {0} /\ Agent!None = 0
      /\ Agent!IdunaTypeOK
  BY DeskAssumption DEF AgentShape, Agent!None
<1>1. ASSUME NEW m \in Matches, Agent!Report(m)
      PROVE  AgentShape'
  <2>1. /\ at = "idle" /\ returned[m] = Absent /\ at' = "attempt" /\ job' = m /\ attempt' = 0
        /\ UNCHANGED <<secret, token, asked, answered, returned, verified, era, late, recorded>>
    BY <1>1 DEF Agent!Report, Agent!iduna
  <2>2. Agent!IdunaTypeOK'
    BY <1>0, <2>1 DEF Agent!IdunaTypeOK
  <2> QED BY <2>1, <2>2 DEF AgentShape
<1>2. ASSUME NEW t, Agent!Verify(t)
      PROVE  AgentShape'
  <2>1. /\ at = "idle" /\ at' = "verify" /\ job' = t /\ answered' = Absent
        /\ asked' = [kind |-> "verify", bearer |-> Agent!None, what |-> t]
        /\ UNCHANGED <<secret, token, attempt, returned, verified, era, late, recorded>>
    BY <1>2 DEF Agent!Verify, Agent!Ask, Agent!iduna
  <2>2. Agent!IdunaTypeOK'
    BY <1>0, <2>1 DEF Agent!IdunaTypeOK
  <2> QED BY <2>1, <2>2 DEF AgentShape
<1>3. CASE Agent!Attempt
  <2>1. /\ at = "attempt" /\ attempt < 2 /\ answered' = Absent
        /\ \/ /\ at' = "login"
              /\ asked' = [kind |-> "login", bearer |-> Agent!None, what |-> secret]
           \/ /\ at' = "report"
              /\ asked' = [kind |-> "report", bearer |-> token, what |-> job]
        /\ UNCHANGED <<secret, token, job, attempt, returned, verified, era, late, recorded>>
    BY <1>3 DEF Agent!Attempt, Agent!Ask, Agent!iduna
  <2>2. Agent!IdunaTypeOK'
    BY <1>0, <2>1 DEF Agent!IdunaTypeOK
  <2>3. attempt \in {0, 1}
    BY <1>0, <2>1 DEF Agent!IdunaTypeOK
  <2> QED BY <2>1, <2>2, <2>3 DEF AgentShape
<1>4. CASE Agent!GiveUp
  <2>1. /\ at = "attempt" /\ at' = "idle" /\ returned' = [returned EXCEPT ![job] = -1]
        /\ UNCHANGED <<secret, token, job, attempt, asked, answered, verified, era, late, recorded>>
    BY <1>4 DEF Agent!GiveUp, Agent!Return, Agent!iduna
  <2>2. job \in Matches /\ asked = Agent!Nothing
    BY <2>1 DEF AgentShape
  <2>3. Agent!IdunaTypeOK'
    BY <1>0, <2>1, <2>2, ReturnTypes DEF Agent!IdunaTypeOK
  <2> QED BY <2>1, <2>2, <2>3 DEF AgentShape
<1>5. CASE Agent!Hear
  <2>1. asked' = Agent!Nothing /\ answered' = Absent /\ UNCHANGED <<secret, job, era, recorded>>
        /\ at \in {"login", "report", "verify"} /\ late' \in {late, late \cup {asked}}
    BY <1>5 DEF Agent!Hear
  <2>2. asked.kind # "none"
    BY <2>1 DEF AgentShape
  <2>3. \A q \in late' : q.kind # "none"
    BY <1>0, <2>1, <2>2 DEF Agent!IdunaTypeOK
  <2>4. CASE at = "login"
    <3>1. job \in Matches /\ returned[job] = Absent
      BY <2>4 DEF AgentShape
    <3>2. /\ UNCHANGED <<job, verified, attempt>>
          /\ token' \in {token, Agent!None, Piece} \cup 1 .. MaxEra
          /\ \/ at' = "attempt" /\ UNCHANGED returned
             \/ at' = "idle" /\ returned' = [returned EXCEPT ![job] = -1]
      BY <1>5, <2>4, LoginHeardIs
    <3>3. returned' \in [Matches -> {Absent, 0, -1}]
      BY <1>0, <3>1, <3>2, ReturnTypes DEF Agent!IdunaTypeOK
    <3>4. token' \in {Piece} \cup (0 .. MaxEra)
      BY <1>0, <3>2 DEF Agent!IdunaTypeOK, Agent!None
    <3>5. Agent!IdunaTypeOK'
      BY <1>0, <2>1, <2>3, <3>2, <3>3, <3>4 DEF Agent!IdunaTypeOK, Agent!None
    <3> QED BY <2>1, <3>1, <3>2, <3>5 DEF AgentShape
  <2>5. CASE at = "report"
    <3>1. job \in Matches /\ returned[job] = Absent /\ attempt \in {0, 1}
      BY <2>5 DEF AgentShape
    <3>2. /\ UNCHANGED <<job, verified>>
          /\ \/ at' = "attempt" /\ attempt' = attempt + 1 /\ token' = Agent!None /\ UNCHANGED returned
             \/ /\ at' = "idle" /\ UNCHANGED <<token, attempt>>
                /\ \E v \in {0, -1} : returned' = [returned EXCEPT ![job] = v]
      BY <1>5, <2>5, ReportHeardIs
    <3>3. returned' \in [Matches -> {Absent, 0, -1}]
      BY <1>0, <3>1, <3>2, ReturnTypes DEF Agent!IdunaTypeOK
    <3>4. token' \in {Piece} \cup (0 .. MaxEra) /\ attempt' \in 0 .. 2
      BY <1>0, <3>1, <3>2 DEF Agent!IdunaTypeOK, Agent!None
    <3>5. Agent!IdunaTypeOK'
      BY <1>0, <2>1, <2>3, <3>2, <3>3, <3>4 DEF Agent!IdunaTypeOK, Agent!None
    <3> QED BY <2>1, <3>1, <3>2, <3>5 DEF AgentShape
  <2>6. CASE at = "verify"
    <3>1. /\ UNCHANGED <<job, attempt, token, returned>>
          /\ at' = "idle" /\ verified'.rc \in {0, -1, -2}
      BY <1>5, <2>6, VerifyHeardIs
    <3>2. Agent!IdunaTypeOK'
      BY <1>0, <2>1, <2>3, <3>1 DEF Agent!IdunaTypeOK
    <3> QED BY <2>1, <3>1, <3>2 DEF AgentShape
  <2> QED BY <2>1, <2>4, <2>5, <2>6
<1>6. CASE Agent!Grant
  <2>1. /\ asked # Agent!Nothing /\ answered = Absent /\ Agent!Accepts(asked)
        /\ recorded' = IF asked.kind = "report"
                       THEN [recorded EXCEPT ![asked.what] = @ + 1] ELSE recorded
        /\ answered' \in {Agent!Granted(asked), Agent!Says(503)}
        /\ UNCHANGED <<secret, token, at, job, attempt, asked, returned, verified, era, late>>
    BY <1>6 DEF Agent!Grant, Agent!Does
  <2>2. recorded' \in [Matches -> Nat]
    <3>1. recorded' \in {recorded, [recorded EXCEPT ![asked.what] = @ + 1]}
      BY <2>1
    <3>2. recorded \in [Matches -> Nat]
      BY <1>0 DEF Agent!IdunaTypeOK
    <3> QED BY <3>1, <3>2
  <2>3. Agent!IdunaTypeOK'
    BY <1>0, <2>1, <2>2 DEF Agent!IdunaTypeOK
  <2>4. at = "login" => Agent!Granted(asked) = Key(era)
    BY DEF AgentShape, Agent!Granted, Key
  <2>5. at = "report" => Agent!Granted(asked) = Done
    BY DEF AgentShape, Agent!Granted, Done
  <2>6. at = "verify" => Agent!Granted(asked) = Who(job) /\ job \in Players
    BY <2>1 DEF AgentShape, Agent!Granted, Agent!Accepts, Who
  <2> QED BY <2>1, <2>3, <2>4, <2>5, <2>6 DEF AgentShape, Refusals
<1>7. CASE Agent!Refuse
  <2>1. /\ answered' \in Refusals
        /\ UNCHANGED <<secret, token, at, job, attempt, asked, returned, verified, era, late, recorded>>
    BY <1>7 DEF Agent!Refuse, Agent!iduna, Refusals
  <2>2. Agent!IdunaTypeOK'
    BY <1>0, <2>1 DEF Agent!IdunaTypeOK
  <2> QED BY <2>1, <2>2 DEF AgentShape
<1>8. CASE Agent!Belated
  <2>1. PICK q \in late :
          /\ late' = late \ {q}
          /\ recorded' \in {recorded, [recorded EXCEPT ![q.what] = @ + 1]}
          /\ UNCHANGED <<secret, token, at, job, attempt, asked, answered, returned, verified, era>>
    BY <1>8 DEF Agent!Belated, Agent!Does
  <2>2. Agent!IdunaTypeOK'
    BY <1>0, <2>1 DEF Agent!IdunaTypeOK
  <2> QED BY <2>1, <2>2 DEF AgentShape
<1>9. CASE Agent!Expire
  <2>1. /\ era < MaxEra /\ era' = era + 1
        /\ UNCHANGED <<secret, token, at, job, attempt, asked, answered, returned, verified, late,
                       recorded>>
    BY <1>9 DEF Agent!Expire
  <2>2. Agent!IdunaTypeOK'
    BY <1>0, <2>1 DEF Agent!IdunaTypeOK
  <2> QED BY <1>0, <2>1, <2>2 DEF AgentShape
<1> QED BY <1>1, <1>2, <1>3, <1>4, <1>5, <1>6, <1>7, <1>8, <1>9 DEF Agent!Next

\* What is recorded, and what may still be, is known of every report, and no step
\* records one twice.
LEMMA CountStep ==
  ASSUME AgentShape, Agent!Next, NEW m \in Matches, Counted(m)
  PROVE  Counted(m)'
<1>0. /\ returned \in [Matches -> {Absent, 0, -1}] /\ recorded \in [Matches -> Nat]
      /\ Absent # 0 /\ Absent # -1
  BY AnswersAre DEF AgentShape, Agent!IdunaTypeOK
<1>a. ASSUME UNCHANGED <<returned, recorded, late>>, at' # "report",
             at = "report" => job # m
      PROVE  Counted(m)'
  BY <1>a DEF Counted, LateReports
<1>b. ASSUME NEW v \in {0, -1}, returned' = [returned EXCEPT ![job] = v], job \in Matches,
             job # m, recorded' = recorded, late' \in {late, late \cup {asked}},
             asked.kind = "report" => asked.what = job, at' = "idle"
      PROVE  Counted(m)'
  <2>1. returned'[m] = returned[m]
    BY <1>0, <1>b
  <2>2. LateReports(m)' = LateReports(m)
    BY <1>b DEF LateReports
  <2> QED BY <1>b, <2>1, <2>2 DEF Counted
<1>1. ASSUME NEW n \in Matches, Agent!Report(n)
      PROVE  Counted(m)'
  BY <1>1, <1>a DEF Agent!Report, Agent!iduna
<1>2. ASSUME NEW t, Agent!Verify(t)
      PROVE  Counted(m)'
  BY <1>2, <1>a DEF Agent!Verify, Agent!iduna
<1>3. CASE Agent!Attempt
  <2>1. /\ at = "attempt" /\ answered' = Absent /\ at' \in {"login", "report"}
        /\ UNCHANGED <<job, returned, late, recorded>>
    BY <1>3 DEF Agent!Attempt, Agent!Ask, Agent!iduna
  <2>2. returned[m] = Absent => recorded[m] = 0 /\ LateReports(m) = {}
    BY <2>1 DEF Counted
  <2>3. LateReports(m)' = LateReports(m) /\ answered' # Done
    BY <2>1, AnswersAre DEF LateReports
  <2> QED BY <1>0, <2>1, <2>2, <2>3 DEF Counted
<1>4. CASE Agent!GiveUp
  <2>1. /\ at = "attempt" /\ at' = "idle" /\ returned' = [returned EXCEPT ![job] = -1]
        /\ UNCHANGED <<asked, late, recorded>>
    BY <1>4 DEF Agent!GiveUp, Agent!Return, Agent!iduna
  <2>2. job \in Matches /\ returned[job] = Absent /\ asked = Agent!Nothing
    BY <2>1 DEF AgentShape, Calling
  <2>3. CASE job = m
    <3>1. returned'[m] = -1 /\ recorded'[m] = 0 /\ LateReports(m)' = {}
      BY <1>0, <2>1, <2>2, <2>3 DEF Counted, LateReports
    <3> QED BY <1>0, <3>1 DEF Counted
  <2>4. CASE job # m
    BY <1>b, <2>1, <2>2, <2>4 DEF Agent!Nothing
  <2> QED BY <2>3, <2>4
<1>5. CASE Agent!Hear
  <2>1. /\ answered' = Absent /\ UNCHANGED <<job, recorded>>
        /\ at \in {"login", "report", "verify"}
    BY <1>5 DEF Agent!Hear
  <2>2. CASE at = "login"
    <3>1. job \in Matches /\ returned[job] = Absent /\ asked.kind = "login"
      BY <2>2 DEF AgentShape, Calling
    <3>2. /\ \/ at' = "attempt" /\ UNCHANGED returned
             \/ at' = "idle" /\ returned' = [returned EXCEPT ![job] = -1]
          /\ late' \in {late, late \cup {asked}}
      BY <1>5, <2>2, LoginHeardIs
    <3>3. LateReports(m)' = LateReports(m)
      BY <3>1, <3>2 DEF LateReports
    <3>4. returned'[m] = returned[m] \/ (job = m /\ returned'[m] = -1)
      BY <1>0, <3>1, <3>2
    <3> QED BY <1>0, <2>1, <2>2, <3>1, <3>2, <3>3, <3>4 DEF Counted
  <2>3. CASE at = "verify"
    <3>1. /\ UNCHANGED returned /\ at' = "idle" /\ late' \in {late, late \cup {asked}}
      BY <1>5, <2>3, VerifyHeardIs
    <3>2. asked.kind = "verify"
      BY <2>3 DEF AgentShape
    <3>3. LateReports(m)' = LateReports(m)
      BY <3>1, <3>2 DEF LateReports
    <3> QED BY <2>1, <2>3, <3>1, <3>3 DEF Counted
  <2>4. CASE at = "report"
    <3>1. /\ job \in Matches /\ returned[job] = Absent
          /\ asked = [kind |-> "report", bearer |-> token, what |-> job]
      BY <2>4 DEF AgentShape, Calling
    <3>2. /\ \/ at' = "attempt" /\ answered = Agent!Says(401) /\ UNCHANGED returned
             \/ at' = "idle" /\ answered = Done /\ returned' = [returned EXCEPT ![job] = 0]
             \/ at' = "idle" /\ returned' = [returned EXCEPT ![job] = -1]
          /\ answered # Absent => late' = late
          /\ answered = Absent => at' = "idle" /\ late' \in {late, late \cup {asked}}
                                  /\ returned' = [returned EXCEPT ![job] = -1]
      BY <1>5, <2>4, ReportHeardIs
    <3>3. /\ answered = Agent!Says(401) => answered # Done /\ answered # Agent!Says(503)
          /\ answered = Done => answered # Absent /\ answered # Agent!Says(503)
          /\ answered = Absent => answered # Done /\ answered # Agent!Says(503)
          /\ Agent!Says(401) # Absent
      <4>1. Agent!Says(401).status = 401 /\ Agent!Says(503).status = 503 /\ Done.status = 200
        BY DEF Agent!Says, Done
      <4>2. Agent!Says(401) # Absent /\ Agent!Says(503) # Absent /\ Done # Absent
        BY AnswersAre DEF Refusals
      <4> QED BY <4>1, <4>2
    <3>4. CASE job # m
      <4>1. CASE at' = "attempt"
        <5>1. returned' = returned /\ late' = late
          BY <3>2, <3>3, <4>1
        <5> QED BY <1>a, <2>1, <3>4, <4>1, <5>1
      <4>2. CASE at' # "attempt"
        BY <1>b, <2>1, <3>1, <3>2, <3>4, <4>2
      <4> QED BY <4>1, <4>2
    <3>5. CASE job = m
      <4>1. /\ LateReports(m) = {}
            /\ \/ recorded[m] = (IF answered = Done THEN 1 ELSE 0)
               \/ answered = Agent!Says(503) /\ recorded[m] = 1
        BY <2>4, <3>1, <3>5 DEF Counted
      <4>2. CASE at' = "attempt"
        <5>1. /\ returned'[m] = Absent /\ LateReports(m)' = {} /\ recorded'[m] = 0
          BY <2>1, <3>1, <3>2, <3>3, <3>5, <4>1, <4>2 DEF LateReports
        <5> QED BY <1>0, <4>2, <5>1 DEF Counted
      <4>3. CASE answered = Done /\ returned' = [returned EXCEPT ![job] = 0]
        <5>1. returned'[m] = 0 /\ LateReports(m)' = {} /\ recorded'[m] = 1
          BY <1>0, <2>1, <3>2, <3>3, <3>5, <4>1, <4>3 DEF LateReports
        <5> QED BY <1>0, <5>1 DEF Counted
      <4>4. CASE returned' = [returned EXCEPT ![job] = -1]
        <5>1. returned'[m] = -1 /\ recorded'[m] \in {0, 1}
          BY <1>0, <2>1, <3>5, <4>1, <4>4
        <5>2. \A q \in LateReports(m)' : q = asked
          BY <3>2, <4>1 DEF LateReports
        <5>3. answered # Absent => LateReports(m)' = {}
          BY <3>2, <4>1 DEF LateReports
        <5>4. answered = Absent => recorded'[m] = 0
          BY <2>1, <3>3, <4>1
        <5> QED BY <1>0, <5>1, <5>2, <5>3, <5>4 DEF Counted
      <4> QED BY <3>2, <4>2, <4>3, <4>4
    <3> QED BY <3>4, <3>5
  <2> QED BY <2>1, <2>2, <2>3, <2>4
<1>6. CASE Agent!Grant
  <2>1. /\ asked # Agent!Nothing /\ answered = Absent
        /\ recorded' = IF asked.kind = "report"
                       THEN [recorded EXCEPT ![asked.what] = @ + 1] ELSE recorded
        /\ answered' \in {Agent!Granted(asked), Agent!Says(503)}
        /\ UNCHANGED <<at, job, returned, late>>
    BY <1>6 DEF Agent!Grant, Agent!Does
  <2>2. LateReports(m)' = LateReports(m)
    BY <2>1 DEF LateReports
  <2>3. CASE at = "report" /\ job = m
    <3>1. asked.kind = "report" /\ asked.what = m /\ returned[m] = Absent
      BY <2>3 DEF AgentShape, Calling
    <3>2. Agent!Granted(asked) = Done
      BY <3>1 DEF Agent!Granted, Done
    <3>3. recorded[m] = 0 /\ LateReports(m) = {}
      BY <2>1, <2>3, <3>1, AnswersAre DEF Counted, Refusals
    <3>4. recorded'[m] = 1
      BY <1>0, <2>1, <3>1, <3>3
    <3> QED BY <1>0, <2>1, <2>2, <2>3, <3>1, <3>2, <3>3, <3>4 DEF Counted
  <2>4. CASE ~(at = "report" /\ job = m)
    <3>1. at = "report" \/ asked.kind # "report"
      BY <2>1 DEF AgentShape, Agent!IdunaTypeOK
    <3>2. recorded'[m] = recorded[m]
      <4>1. CASE at = "report"
        BY <1>0, <2>1, <2>4, <4>1 DEF AgentShape
      <4> QED BY <2>1, <3>1, <4>1
    <3> QED BY <2>1, <2>2, <2>4, <3>2 DEF Counted
  <2> QED BY <2>3, <2>4
<1>7. CASE Agent!Refuse
  <2>1. /\ answered = Absent /\ answered' \in Refusals
        /\ UNCHANGED <<at, job, returned, late, recorded>>
    BY <1>7 DEF Agent!Refuse, Agent!iduna, Refusals
  <2>2. LateReports(m)' = LateReports(m)
    BY <2>1 DEF LateReports
  <2>3. answered # Done /\ answered' # Done
    <3>1. Done.status = 200
      BY DEF Done
    <3> QED BY <2>1, <3>1, AnswersAre
  <2>4. answered # Agent!Says(503)
    BY <2>1, AnswersAre DEF Refusals
  <2> QED BY <2>1, <2>2, <2>3, <2>4 DEF Counted
<1>8. CASE Agent!Belated
  <2>0. PICK q \in late :
          /\ late' = late \ {q}
          /\ IF Agent!Accepts(q) THEN Agent!Does(q) ELSE UNCHANGED recorded
          /\ UNCHANGED <<at, job, answered, returned>>
    BY <1>8 DEF Agent!Belated
  <2>1. /\ late' = late \ {q} /\ UNCHANGED <<at, job, answered, returned>>
        /\ \/ recorded' = recorded
           \/ q.kind = "report" /\ recorded' = [recorded EXCEPT ![q.what] = @ + 1]
    BY <2>0 DEF Agent!Does
  <2>2. LateReports(m)' = LateReports(m) \ {q}
    BY <2>1 DEF LateReports
  <2>3. CASE q \in LateReports(m)
    <3>1. returned[m] = -1 /\ recorded[m] = 0 /\ \A o \in LateReports(m) : o = q
      BY <1>0, <2>3 DEF Counted
    <3>2. LateReports(m)' = {} /\ recorded'[m] \in {0, 1}
      BY <1>0, <2>1, <2>2, <2>3, <3>1 DEF LateReports
    <3> QED BY <1>0, <2>1, <3>1, <3>2 DEF Counted
  <2>4. CASE q \notin LateReports(m)
    <3>1. recorded'[m] = recorded[m] /\ LateReports(m)' = LateReports(m)
      BY <1>0, <2>1, <2>2, <2>4 DEF LateReports
    <3> QED BY <2>1, <3>1 DEF Counted
  <2> QED BY <2>3, <2>4
<1>9. CASE Agent!Expire
  BY <1>9 DEF Agent!Expire, Counted, LateReports
<1> QED BY <1>1, <1>2, <1>3, <1>4, <1>5, <1>6, <1>7, <1>8, <1>9 DEF Agent!Next

\* As long as nothing has failed, a refused report is on its way to succeed.
LEMMA WayStep ==
  ASSUME AgentShape, Agent!Next, OnItsWay
  PROVE  OnItsWay'
<1>0. /\ era \in 1 .. MaxEra /\ MaxEra \in Nat \ {0} /\ Agent!None = 0
      /\ attempt \in 0 .. 2
  BY DeskAssumption DEF AgentShape, Agent!IdunaTypeOK, Agent!None
<1>1. ASSUME NEW m \in Matches, Agent!Report(m)
      PROVE  OnItsWay'
  BY <1>1 DEF Agent!Report, OnItsWay
<1>2. ASSUME NEW t, Agent!Verify(t)
      PROVE  OnItsWay'
  BY <1>2 DEF Agent!Verify, OnItsWay
<1>3. CASE Agent!Attempt
  <2>1. /\ at = "attempt" /\ answered' = Absent
        /\ at' = IF token = Agent!None THEN "login" ELSE "report"
        /\ UNCHANGED <<secret, token, attempt, trouble, era>>
    BY <1>3 DEF Agent!Attempt, Agent!Ask, Agent!iduna
  <2> QED BY <2>1 DEF OnItsWay
<1>4. CASE Agent!GiveUp
  BY <1>4 DEF Agent!GiveUp, Agent!Return, OnItsWay
<1>5. CASE Agent!Hear
  <2> SUFFICES ASSUME ~trouble', secret' = Right
               PROVE  /\ at' = "attempt" =>
                           attempt' = 0 \/ (attempt' = 1 /\ token' \in {Agent!None, era'})
                      /\ at' \notin {"login", "report"}
    BY DEF OnItsWay
  <2>1. at \in {"login", "report", "verify"} /\ secret' = secret /\ era' = era
    BY <1>5 DEF Agent!Hear
  <2>2. CASE at = "verify"
    BY <1>5, <2>2, VerifyHeardIs
  <2>3. CASE at = "login"
    <3>1. /\ attempt' = attempt /\ at' \in {"attempt", "idle"}
          /\ answered # Absent /\ ~trouble
          /\ \A e \in 1 .. MaxEra : answered = Key(e) => at' = "attempt" /\ token' = e
      BY <1>5, <2>3, LoginHeardIs
    <3>2. answered = Key(era) /\ attempt \in {0, 1}
      BY <2>1, <2>3, <3>1 DEF OnItsWay, AgentShape
    <3> QED BY <1>0, <2>1, <3>1, <3>2
  <2>4. CASE at = "report"
    <3>1. ~trouble
      <4>1. trouble' = TRUE \/ ~trouble
        BY <1>5 DEF Agent!Hear
      <4> QED BY <4>1
    <3>2. /\ attempt = 0 \/ (attempt = 1 /\ token = era)
          /\ answered \in {Absent, IF token = era THEN Done ELSE Agent!Says(401)}
      BY <2>1, <2>4, <3>1 DEF OnItsWay
    <3>3. \/ /\ at' = "attempt" /\ attempt' = attempt + 1 /\ token' = Agent!None
             /\ answered = Agent!Says(401)
          \/ at' = "idle"
      BY <1>5, <2>4, ReportHeardIs
    <3>4. Agent!Says(401) \notin {Absent, Done}
      <4>1. Agent!Says(401).status = 401 /\ Done.status = 200
        BY DEF Agent!Says, Done
      <4>2. Agent!Says(401) # Absent
        BY AnswersAre DEF Refusals
      <4> QED BY <4>1, <4>2
    <3>5. at' = "attempt" => attempt = 0
      BY <3>2, <3>3, <3>4
    <3> QED BY <3>3, <3>5
  <2> QED BY <2>1, <2>2, <2>3, <2>4
<1>6. CASE Agent!Grant
  <2>1. /\ asked # Agent!Nothing /\ answered = Absent /\ Agent!Accepts(asked)
        /\ answered' \in {Agent!Granted(asked), Agent!Says(503)}
        /\ trouble' = (trouble \/ answered'.status # 200)
        /\ UNCHANGED <<secret, token, at, attempt, asked, era>>
    BY <1>6 DEF Agent!Grant
  <2>2. ~trouble' => ~trouble /\ answered' = Agent!Granted(asked)
    <3>1. ~trouble' => ~trouble /\ answered'.status = 200
      BY <2>1, Zenon
    <3>2. Agent!Says(503).status = 503
      BY DEF Agent!Says
    <3> QED BY <2>1, <3>1, <3>2
  <2>3. at = "login" => Agent!Granted(asked) = Key(era)
    BY DEF AgentShape, Agent!Granted, Key
  <2>4. at = "report" => Agent!Granted(asked) = Done /\ token = era
    BY <2>1 DEF AgentShape, Agent!Granted, Agent!Accepts, Done
  <2> QED BY <2>1, <2>2, <2>3, <2>4 DEF OnItsWay
<1>7. CASE Agent!Refuse
  <2>1. /\ answered' \in Refusals
        /\ trouble' = (trouble \/ Agent!Accepts(asked) \/ answered'.status # 401)
        /\ UNCHANGED <<secret, token, at, attempt, asked, era>>
    BY <1>7 DEF Agent!Refuse, Agent!iduna, Refusals
  <2>2. ~trouble' => ~trouble /\ ~Agent!Accepts(asked) /\ answered' = Agent!Says(401)
    <3>1. ~trouble' => ~trouble /\ ~Agent!Accepts(asked) /\ answered'.status = 401
      BY <2>1, Zenon
    <3>2. Agent!Says(503).status = 503
      BY DEF Agent!Says
    <3> QED BY <2>1, <3>1, <3>2 DEF Refusals
  <2>3. at = "login" /\ secret = Right => Agent!Accepts(asked)
    BY DEF AgentShape, Agent!Accepts
  <2>4. at = "report" /\ token = era => Agent!Accepts(asked)
    BY DEF AgentShape, Agent!Accepts
  <2> QED BY <2>1, <2>2, <2>3, <2>4 DEF OnItsWay
<1>8. CASE Agent!Belated
  <2>1. UNCHANGED <<secret, token, at, attempt, answered, era, trouble>>
    BY <1>8 DEF Agent!Belated
  <2> QED BY <2>1 DEF OnItsWay
<1>9. CASE Agent!Expire
  BY <1>9 DEF Agent!Expire, OnItsWay
<1> QED BY <1>1, <1>2, <1>3, <1>4, <1>5, <1>6, <1>7, <1>8, <1>9 DEF Agent!Next

\* Who is verified stays so until the next answer, and a secret is read once.
LEMMA VerifiedStep ==
  ASSUME AgentShape, Agent!Next, Agent!VerifiedIsWhole, Agent!OwnKeyOnly
  PROVE  Agent!VerifiedIsWhole' /\ Agent!OwnKeyOnly'
<1>1. secret' = secret
  BY DEF Agent!Next, Agent!Report, Agent!Verify, Agent!Attempt, Agent!GiveUp, Agent!Hear,
         Agent!Grant, Agent!Refuse, Agent!Belated, Agent!Expire
<1>2. Agent!OwnKeyOnly'
  BY <1>1 DEF Agent!OwnKeyOnly
<1>3. CASE Agent!Hear /\ at = "verify"
  BY <1>2, <1>3, VerifyHeardIs DEF Agent!VerifiedIsWhole
<1>4. CASE ~(Agent!Hear /\ at = "verify")
  <2>1. verified' = verified
    <3>1. CASE Agent!Hear
      <4>1. at \in {"login", "report"}
        BY <1>4, <3>1 DEF Agent!Hear
      <4> QED BY <3>1, <4>1, LoginHeardIs, ReportHeardIs
    <3>2. CASE ~Agent!Hear
      BY <3>2 DEF Agent!Next, Agent!Report, Agent!Verify, Agent!Attempt, Agent!GiveUp,
                  Agent!Grant, Agent!Refuse, Agent!Belated, Agent!Expire
    <3> QED BY <3>1, <3>2
  <2> QED BY <1>2, <2>1 DEF Agent!VerifiedIsWhole, Agent!Nobody
<1> QED BY <1>2, <1>3, <1>4

LEMMA AgentStep == AgentInv /\ Agent!Next => AgentInv'
<1> SUFFICES ASSUME AgentInv, Agent!Next
             PROVE  AgentInv'
  OBVIOUS
<1>1. AgentShape' /\ OnItsWay' /\ Agent!VerifiedIsWhole' /\ Agent!OwnKeyOnly'
  BY ShapeStep, WayStep, VerifiedStep DEF AgentInv
<1>2. ASSUME NEW m \in Matches
      PROVE  Counted(m)'
  BY <1>2, CountStep DEF AgentInv
<1> QED BY <1>1, <1>2 DEF AgentInv

LEMMA AgentStill == AgentInv /\ UNCHANGED agentVars => AgentInv'
<1> SUFFICES ASSUME AgentInv, UNCHANGED agentVars
             PROVE  AgentInv'
  OBVIOUS
<1> USE DEF agentVars
<1>1. AgentShape'
  BY DEF AgentInv, AgentShape, Agent!IdunaTypeOK
<1>2. OnItsWay'
  BY DEF AgentInv, OnItsWay
<1>3. ASSUME NEW m \in Matches
      PROVE  Counted(m)'
  BY DEF AgentInv, Counted, LateReports
<1>4. Agent!VerifiedIsWhole' /\ Agent!OwnKeyOnly'
  BY DEF AgentInv, Agent!VerifiedIsWhole, Agent!OwnKeyOnly
<1> QED BY <1>1, <1>2, <1>3, <1>4 DEF AgentInv

\* A report that comes back failed has met a failure, or a wrong secret.
LEMMA FailsForCause ==
  ASSUME AgentInv, Agent!Next, NEW m \in Matches, returned'[m] = -1, returned[m] = Absent
  PROVE  trouble' \/ secret # Right
<1> SUFFICES ASSUME ~trouble', secret = Right
             PROVE  FALSE
  OBVIOUS
<1>0. /\ returned \in [Matches -> {Absent, 0, -1}] /\ Absent # 0 /\ Absent # -1
      /\ AgentShape /\ OnItsWay
  BY AnswersAre DEF AgentInv, AgentShape, Agent!IdunaTypeOK
<1>1. returned' # returned
  BY <1>0
<1>2. CASE Agent!GiveUp
  <2>1. attempt = 2 /\ at = "attempt" /\ ~trouble
    BY <1>2 DEF Agent!GiveUp
  <2> QED BY <1>0, <2>1 DEF OnItsWay
<1>3. CASE Agent!Hear
  <2>1. at \in {"login", "report", "verify"}
    BY <1>3 DEF Agent!Hear
  <2>2. CASE at = "verify"
    BY <1>0, <1>1, <1>3, <2>2, VerifyHeardIs
  <2>3. CASE at = "login"
    <3>1. answered # Absent /\ ~trouble
      BY <1>0, <1>3, <2>3, LoginHeardIs
    <3>2. answered = Key(era) /\ era \in 1 .. MaxEra
      BY <1>0, <2>3, <3>1 DEF OnItsWay, AgentShape
    <3>3. at' = "attempt"
      BY <1>0, <1>3, <2>3, <3>2, LoginHeardIs
    <3> QED BY <1>0, <1>1, <1>3, <2>3, <3>3, LoginHeardIs
  <2>4. CASE at = "report"
    <3>1. ~trouble /\ answered # Absent
      <4>1. trouble' = TRUE \/ (~trouble /\ answered # Absent)
        BY <1>3 DEF Agent!Hear
      <4> QED BY <4>1
    <3>2. answered \in {Done, Agent!Says(401)}
      BY <1>0, <2>4, <3>1 DEF OnItsWay
    <3>3. Agent!Says(503) \notin {Done, Agent!Says(401)}
      <4>1. Agent!Says(401).status = 401 /\ Agent!Says(503).status = 503 /\ Done.status = 200
        BY DEF Agent!Says, Done
      <4> QED BY <4>1
    <3>4. \/ UNCHANGED returned
          \/ returned' = [returned EXCEPT ![job] = 0]
      BY <1>0, <1>3, <2>4, <3>2, <3>3, ReportHeardIs
    <3> QED BY <1>0, <1>1, <3>4
  <2> QED BY <2>1, <2>2, <2>3, <2>4
<1>4. CASE ~Agent!GiveUp /\ ~Agent!Hear
  BY <1>1, <1>4 DEF Agent!Next, Agent!Report, Agent!Verify, Agent!Attempt,
                    Agent!Grant, Agent!Refuse, Agent!Belated, Agent!Expire
<1> QED BY <1>2, <1>3, <1>4

\* AgentTellsTrue: a result is recorded once if it is called reported and never twice,
\* whatever is lost, cut, late or refused; who is verified is whom IDUNA holds for the
\* token; and no report fails without a failure or a wrong secret.
THEOREM AgentIsTruthful == DeskSpec => AgentTellsTrue
<1> DEFINE DeskNext == Practice(LNext) \/ AgentDoes(Agent!Next) \/ GuestDoes(Guest!Next)
           Cause == \A m \in Matches : returned'[m] = -1 /\ returned[m] = Absent =>
                       trouble' \/ secret # Right
<1>1. DeskInit => AgentInv
  BY AgentInit
<1>2. AgentInv /\ [DeskNext]_desk => AgentInv'
  BY AgentStep, AgentStill DEF Practice, AgentDoes, GuestDoes, desk, agentVars, guestVars
<1>3. AgentInv => /\ Agent!IdunaTypeOK /\ Agent!RecordedOnce
                  /\ Agent!VerifiedIsWhole /\ Agent!OwnKeyOnly
  <2> SUFFICES ASSUME AgentInv PROVE Agent!IdunaTypeOK /\ Agent!RecordedOnce
    BY DEF AgentInv
  <2>1. Agent!IdunaTypeOK
    BY DEF AgentInv, AgentShape
  <2>2. ASSUME NEW m \in Matches
        PROVE  recorded[m] <= 1 /\ (returned[m] = 0 => recorded[m] = 1)
    <3>1. Counted(m) /\ returned[m] \in {Absent, 0, -1} /\ Absent # 0
      BY <2>1, AnswersAre DEF AgentInv, Agent!IdunaTypeOK
    <3> QED BY <3>1 DEF Counted
  <2> QED BY <2>1, <2>2 DEF Agent!RecordedOnce
<1>4. AgentInv /\ [DeskNext]_desk => [Cause]_(Agent!vars)
  <2> SUFFICES ASSUME AgentInv, AgentDoes(Agent!Next)
               PROVE  Cause
    BY DEF Practice, AgentDoes, GuestDoes, desk, agentVars, Agent!vars
  <2> QED BY FailsForCause DEF AgentDoes
<1> QED BY <1>1, <1>2, <1>3, <1>4, PTL DEF DeskSpec, AgentTellsTrue, Agent!NoNeedlessFailure

-----------------------------------------------------------------------------
(* The practice game.  The clock may go round between two seconds; since a *)
(* frame is no longer than Wrap - TickMs, what the loop computes modulo    *)
(* Wrap is the time that has gone by.                                      *)

\* mode "failed" is out of reach because the self-test is only ever on in a fight
\* that has no verdict yet, so within TimeoutTicks.
PracticeInv ==
  /\ LocalTypeOK /\ NeverCapped
  /\ ship \in ShipRec
  /\ mode \in {"pack", "combat", "selftest"} => Ongoing(ticks, hulls)
  /\ mode = "combat" => since < TickMs /\ since = (now - last) % Wrap

\* Uint32, where it went round at most once.
WrapsOnce(x) ==
  /\ x \in 0 .. Wrap - 1 => x % Wrap = x
  /\ Wrap <= x /\ x < Wrap + Wrap => x % Wrap = x - Wrap
  /\ x < 0 /\ -Wrap <= x => x % Wrap = x + Wrap
  /\ x % Wrap \in 0 .. Wrap - 1

LEMMA WrapIs == ASSUME NEW x \in Int PROVE WrapsOnce(x)
<1> USE LocalAssumption
<1>1. x \in 0 .. Wrap - 1 => x % Wrap = x
  OBVIOUS
<1>2. Wrap <= x /\ x < Wrap + Wrap => x % Wrap = x - Wrap
  OBVIOUS
<1>3. x < 0 /\ -Wrap <= x => x % Wrap = x + Wrap
  OBVIOUS
<1>4. x % Wrap \in 0 .. Wrap - 1
  OBVIOUS
<1> QED BY <1>1, <1>2, <1>3, <1>4 DEF WrapsOnce

LEMMA ZeroStays == \A x \in Int : (x - x) % Wrap = 0
<1> SUFFICES ASSUME NEW x \in Int
             PROVE  (x - x) % Wrap = 0
  OBVIOUS
<1>1. x - x = 0
  OBVIOUS
<1> QED BY <1>1, LocalAssumption, WrapIs DEF WrapsOnce

LEMMA RoundTwice ==
  ASSUME NEW x \in Int, NEW e \in 0 .. Wrap - 1, -Wrap < x,
         x = e \/ x = e - Wrap \/ x = e - Wrap - Wrap
  PROVE  x % Wrap = e
<1>1. Wrap \in Nat \ {0} /\ WrapsOnce(x)
  BY LocalAssumption, WrapIs
<1>2. CASE x = e
  BY <1>1, <1>2 DEF WrapsOnce
<1>3. CASE x = e - Wrap
  <2>1. x < 0 /\ -Wrap <= x
    BY <1>1, <1>3
  <2> QED BY <1>1, <1>3, <2>1 DEF WrapsOnce
<1>4. CASE x = e - Wrap - Wrap
  BY <1>1, <1>4
<1> QED BY <1>2, <1>3, <1>4

\* A frame's advance of the clock is read back from it, and adds to what had gone by
\* since the last second.
LEMMA ClockIs ==
  ASSUME PracticeInv, NEW d \in Frames, now' = (now + d) % Wrap
  PROVE  /\ now' \in 0 .. Wrap - 1 /\ d \in Nat \ {0}
         /\ (now' - now) % Wrap = d
         /\ mode = "combat" => (now' - last) % Wrap = since + d
<1>1. /\ d \in 1 .. Wrap - TickMs /\ Wrap \in Nat \ {0} /\ TickMs \in Nat \ {0}
  BY LocalAssumption
<1>2. now \in 0 .. Wrap - 1 /\ last \in 0 .. Wrap - 1 /\ since \in 0 .. TickMs
  BY DEF PracticeInv, LocalTypeOK
<1>3. now' \in 0 .. Wrap - 1 /\ (now' = now + d \/ now' = now + d - Wrap)
  <2>1. WrapsOnce(now + d)
    BY <1>1, <1>2, WrapIs
  <2> QED BY <1>1, <1>2, <2>1 DEF WrapsOnce
<1>4. (now' - now) % Wrap = d
  <2>1. WrapsOnce(now' - now)
    BY <1>2, <1>3, WrapIs
  <2> QED BY <1>1, <1>2, <1>3, <2>1 DEF WrapsOnce
<1>5. ASSUME mode = "combat"
      PROVE  (now' - last) % Wrap = since + d
  <2>1. since < TickMs /\ since = (now - last) % Wrap
    BY <1>5 DEF PracticeInv
  <2>2. now - last = since \/ now - last = since - Wrap
    <3>1. WrapsOnce(now - last)
      BY <1>2, WrapIs
    <3> QED BY <1>1, <1>2, <2>1, <3>1 DEF WrapsOnce
  <2>3. since + d \in 0 .. Wrap - 1
    BY <1>1, <1>2, <2>1
  <2>4. /\ now' - last \in Int
        /\ \/ now' - last = since + d
           \/ now' - last = since + d - Wrap
           \/ now' - last = since + d - Wrap - Wrap
    BY <1>1, <1>2, <1>3, <2>2
  <2>5. -Wrap < now' - last
    BY <1>1, <1>2, <1>3
  <2> DEFINE e == since + d
             x == now' - last
  <2>6. /\ e \in 0 .. Wrap - 1 /\ x \in Int /\ -Wrap < x
        /\ x = e \/ x = e - Wrap \/ x = e - Wrap - Wrap
    BY <1>1, <1>2, <2>3, <2>4, <2>5
  <2>7. x % Wrap = e
    <3> HIDE DEF x, e
    <3> QED BY <2>6, RoundTwice
  <2> QED BY <2>7
<1> QED BY <1>1, <1>3, <1>4, <1>5

LEMMA OngoingIs ==
  ASSUME NEW t \in Nat, NEW h \in [Seats -> Levels]
  PROVE  /\ Ongoing(t, h) <=> t < TimeoutTicks /\ h[0] > 0 /\ h[1] > 0
         /\ ~Ongoing(t, h) <=> t >= TimeoutTicks \/ \E s \in Seats : h[s] = 0
<1>1. TimeoutTicks \in Nat /\ h[0] \in Nat /\ h[1] \in Nat
  BY LocalAssumption, HullAssumption DEF Seats, Levels
<1> QED BY <1>1 DEF Ongoing, Seats

LEMMA PracticeInit == DeskInit => PracticeInv
<1> SUFFICES ASSUME DeskInit
             PROVE  PracticeInv
  OBVIOUS
<1>1. LInit
  BY DEF DeskInit
<1>2. /\ TimeoutTicks \in Nat \ {0} /\ Spare \in Nat /\ Wrap \in Nat \ {0}
      /\ TickMs \in Nat \ {0} /\ First \in Wanted
      /\ FullHull \in Nat \ {0, 1} /\ GridW \in Nat \ {0} /\ GridH \in Nat \ {0}
  BY LocalAssumption, HullAssumption, GridAssumption
<1>3. ticks = 0 /\ hulls = [s \in Seats |-> FullHull] /\ hulls \in [Seats -> Levels]
  BY <1>1, <1>2 DEF LInit, Levels
<1>4. Ongoing(ticks, hulls)
  BY <1>2, <1>3 DEF Ongoing
<1>5. ship \in ShipRec /\ Fits(ship)
  BY <1>1, EmptyFits DEF LInit, Init
<1>6. cursor \in Cells
  BY <1>1, <1>2 DEF LInit, Cells
<1>7. sel \in [item : Wanted, rotation : 0 .. 3]
  BY <1>1, <1>2 DEF LInit
<1>8. mode \in {"pack", "selftest"}
  BY <1>1 DEF LInit
<1>9. LocalTypeOK
  BY <1>1, <1>2, <1>3, <1>5, <1>6, <1>7, <1>8 DEF LInit, LocalTypeOK
<1> QED BY <1>4, <1>5, <1>8, <1>9 DEF PracticeInv, NeverCapped

\* A second of the fight goes on or has a verdict, and is played within the time.
LEMMA SecondKeeps ==
  ASSUME PracticeInv, mode \in {"combat", "selftest"},
         NEW over \in {"done", "passed"}, Second(over)
  PROVE  /\ ticks' \in 0 .. TimeoutTicks + Spare /\ hulls' \in [Seats -> Levels]
         /\ mode' \in {mode, over}
         /\ mode' = mode => Ongoing(ticks, hulls)'
<1>1. Ongoing(ticks, hulls) /\ ticks \in 0 .. TimeoutTicks + Spare
  BY DEF PracticeInv, LocalTypeOK
<1>2. ticks < TimeoutTicks /\ TimeoutTicks \in Nat /\ Spare \in Nat
  BY <1>1, LocalAssumption DEF Ongoing
<1>3. hulls' \in [Seats -> Levels]
  BY DEF Second, HullsAfterTick
<1>4. ticks' \in 0 .. TimeoutTicks + Spare
  BY <1>1, <1>2 DEF Second
<1>5. mode' \in {mode, over} /\ (mode' = mode => Ongoing(ticks', hulls'))
  BY DEF Second
<1> QED BY <1>3, <1>4, <1>5 DEF Ongoing

\* What a key leaves of the fight and of the ship is as sound as it was.
LEMMA SameFight ==
  /\ UNCHANGED <<ticks, hulls>> => (Ongoing(ticks, hulls)' <=> Ongoing(ticks, hulls))
  /\ UNCHANGED ship => (Fits(ship)' <=> Fits(ship))
BY DEF Ongoing, Fits

LEMMA PracticeStep == PracticeInv /\ LNext => PracticeInv'
<1> SUFFICES ASSUME PracticeInv, LNext
             PROVE  PracticeInv'
  OBVIOUS
<1> USE DEF PracticeInv, NeverCapped
<1>1. CASE Move
  <2>1. cursor' \in Cells
    BY <1>1 DEF Move, LocalTypeOK
  <2>2. UNCHANGED <<mode, ship, ticks, hulls, now, last, since>>
    BY <1>1 DEF Move, clock
  <2>3. sel' = sel
    BY <1>1 DEF Move
  <2> QED BY <2>1, <2>2, <2>3, SameFight DEF LocalTypeOK
<1>2. CASE Rotate
  <2>1. sel' \in [item : Wanted, rotation : 0 .. 3]
    BY <1>2 DEF Rotate, LocalTypeOK
  <2>2. UNCHANGED <<mode, ship, ticks, hulls, now, last, since>>
    BY <1>2 DEF Rotate, clock
  <2> QED BY <1>2, <2>1, <2>2, SameFight DEF Rotate, LocalTypeOK
<1>3. CASE Select
  <2>1. sel' \in [item : Wanted, rotation : 0 .. 3]
    BY <1>3 DEF Select, LocalTypeOK
  <2>2. UNCHANGED <<mode, ship, ticks, hulls, now, last, since>>
    BY <1>3 DEF Select, clock
  <2> QED BY <1>3, <2>1, <2>2, SameFight DEF Select, LocalTypeOK
<1>4. CASE Enter
  <2>1. ship' \in ShipRec /\ Fits(ship)'
    <3> DEFINE p == PartAt(sel.item, cursor[1], cursor[2], sel.rotation)
    <3>1. CASE ship' = ship
      BY <3>1 DEF LocalTypeOK, Fits
    <3>2. CASE Takes(ship, p) /\ ship' = Laid(ship, p)
      <4>1. sel.item \in Items /\ sel.rotation \in Nat
        BY LocalAssumption DEF LocalTypeOK
      <4>2. cursor[1] \in Nat /\ cursor[2] \in Nat
        BY DEF LocalTypeOK, Cells
      <4>3. p.item = sel.item
        BY DEF PartAt
      <4>4. Affordable(ship, Catalog[sel.item]) /\ Legal(ship, p.cells)
        BY <3>2, <4>3 DEF Takes
      <4>5. Fits(ship)
        BY DEF LocalTypeOK
      <4>6. Laid(ship, p) \in ShipRec /\ Fits(Laid(ship, p))
        BY <4>1, <4>2, <4>4, <4>5, LaidFits
      <4> QED BY <3>2, <4>6
    <3> QED BY <1>4, <3>1, <3>2 DEF Enter
  <2> QED BY <1>4, <2>1, SameFight DEF Enter, LocalTypeOK, clock
<1>5. CASE Fight
  <2>1. mode = "pack" /\ mode' = "combat" /\ last' = now /\ since' = 0 /\ now' = now
        /\ UNCHANGED <<cursor, sel, ship, answer, ticks, hulls>>
    BY <1>5 DEF Fight, keys
  <2>2. now \in 0 .. Wrap - 1 /\ TickMs \in Nat \ {0}
    BY LocalAssumption DEF LocalTypeOK
  <2>3. (now' - last') % Wrap = 0
    <3>1. now \in Int /\ (now - now) % Wrap = 0
      BY <2>2, ZeroStays, LocalAssumption
    <3> QED BY <2>1, <3>1
  <2> QED BY <2>1, <2>2, <2>3, SameFight DEF LocalTypeOK
<1>6. CASE Quit
  BY <1>6, SameFight DEF Quit, LocalTypeOK, keys, clock
<1>7. CASE Frame
  <2>1. PICK d \in Frames :
          /\ now' = (now + d) % Wrap
          /\ IF mode = "combat" /\ Due(now')
             THEN last' = now' /\ since' = 0 /\ Second("done")
             ELSE /\ since' = IF mode # "combat" THEN 0
                            ELSE IF since + d < TickMs THEN since + d ELSE TickMs
                  /\ UNCHANGED <<mode, ticks, hulls, last>>
    BY <1>7 DEF Frame
  <2>2. /\ now' \in 0 .. Wrap - 1 /\ d \in Nat \ {0}
        /\ mode = "combat" => (now' - last) % Wrap = since + d
    BY <2>1, ClockIs
  <2>3. UNCHANGED <<cursor, sel, ship, answer>> /\ Fits(ship)'
    BY <1>7 DEF Frame, keys, LocalTypeOK, Fits
  <2>4. TickMs \in Nat \ {0} /\ last \in 0 .. Wrap - 1 /\ since \in 0 .. TickMs
    BY LocalAssumption DEF LocalTypeOK
  <2>5. CASE mode = "combat" /\ Due(now')
    <3>1. last' = now' /\ since' = 0 /\ Second("done")
      BY <2>1, <2>5
    <3>2. /\ ticks' \in 0 .. TimeoutTicks + Spare /\ hulls' \in [Seats -> Levels]
          /\ mode' \in {"combat", "done"}
          /\ mode' = "combat" => Ongoing(ticks, hulls)'
      BY <2>5, <3>1, SecondKeeps
    <3>3. (now' - last') % Wrap = 0
      <4>1. now' \in Int /\ last' = now'
        BY <2>2, <3>1, LocalAssumption
      <4>2. (now' - now') % Wrap = 0
        BY <4>1, ZeroStays
      <4> QED BY <4>1, <4>2
    <3> QED BY <2>2, <2>3, <2>4, <3>1, <3>2, <3>3 DEF LocalTypeOK
  <2>6. CASE ~(mode = "combat" /\ Due(now'))
    <3>1. /\ since' = IF mode # "combat" THEN 0
                      ELSE IF since + d < TickMs THEN since + d ELSE TickMs
          /\ UNCHANGED <<mode, ticks, hulls, last>>
      BY <2>1, <2>6
    <3>2. mode = "combat" => since + d < TickMs
      BY <2>2, <2>4, <2>6 DEF Due
    <3>3. since' \in 0 .. TickMs
      BY <2>2, <2>4, <3>1
    <3>4. mode = "combat" => since' < TickMs /\ since' = (now' - last') % Wrap
      BY <2>2, <3>1, <3>2
    <3>5. Ongoing(ticks, hulls)' <=> Ongoing(ticks, hulls)
      BY <3>1 DEF Ongoing
    <3> QED BY <2>2, <2>3, <2>4, <3>1, <3>3, <3>4, <3>5 DEF LocalTypeOK
  <2> QED BY <2>5, <2>6
<1>8. CASE Selftest
  <2>1. Ongoing(ticks, hulls) /\ ticks \in Nat /\ TimeoutTicks \in Nat /\ Spare \in Nat
    BY <1>8, LocalAssumption DEF Selftest, LocalTypeOK
  <2>2. ticks < TimeoutTicks + Spare
    BY <2>1 DEF Ongoing
  <2>3. mode = "selftest" /\ Second("passed")
    BY <1>8, <2>2 DEF Selftest
  <2>4. /\ ticks' \in 0 .. TimeoutTicks + Spare /\ hulls' \in [Seats -> Levels]
        /\ mode' \in {"selftest", "passed"}
        /\ mode' = "selftest" => Ongoing(ticks, hulls)'
    BY <2>3, SecondKeeps
  <2>5. UNCHANGED <<cursor, sel, ship, answer, now, last, since>> /\ Fits(ship)'
    BY <1>8 DEF Selftest, keys, clock, LocalTypeOK, Fits
  <2> QED BY <2>4, <2>5 DEF LocalTypeOK
<1> QED BY <1>1, <1>2, <1>3, <1>4, <1>5, <1>6, <1>7, <1>8 DEF LNext

LEMMA PracticeStill == PracticeInv /\ UNCHANGED lvars => PracticeInv'
BY SameFight DEF PracticeInv, NeverCapped, LocalTypeOK, lvars, keys, clock

\* A second of the practice game, or of its self-test, is one of the duel.
LEMMA SecondIsDuels ==
  ASSUME PracticeInv, mode \in {"combat", "selftest"},
         NEW over \in {"done", "passed"}, Second(over)
  PROVE  Duel!Second
<1>1. /\ Ongoing(ticks, hulls) /\ ticks \in Nat /\ hulls \in [Seats -> Levels]
      /\ TimeoutTicks \in Nat \ {0}
  BY LocalAssumption DEF PracticeInv, LocalTypeOK
<1>2. ticks < TimeoutTicks /\ hulls[0] > 0 /\ hulls[1] > 0
  BY <1>1, OngoingIs
<1>3. ticks' = ticks + 1 /\ hulls' \in HullsAfterTick(hulls) /\ ticks' \in Nat
  BY <1>1 DEF Second
<1>4. hulls' \in Duel!HullsAfterTick(hulls) /\ hulls' \in [Seats -> Levels]
  BY <1>3 DEF HullsAfterTick, Duel!HullsAfterTick, Duel!Seats, Duel!Levels, Seats, Levels
<1>5. hulls'[0] \in Nat /\ hulls'[1] \in Nat
  BY <1>4, HullAssumption DEF Seats, Levels
<1>6. (IF ticks < TimeoutTicks /\ hulls[0] > 0 /\ hulls[1] > 0 THEN "second" ELSE "over")'
        = Duel!AfterSecond(ticks', hulls')
  <2>1. CASE ticks' < TimeoutTicks /\ hulls'[0] > 0 /\ hulls'[1] > 0
    <3>1. ticks' % (TimeoutTicks + 1) = ticks' /\ ticks' # 0
      BY <1>1, <1>3, <2>1
    <3> QED BY <1>1, <1>3, <2>1, <3>1 DEF Duel!AfterSecond, Duel!Seats
  <2>2. CASE ~(ticks' < TimeoutTicks /\ hulls'[0] > 0 /\ hulls'[1] > 0)
    BY <1>1, <1>3, <1>5, <2>2 DEF Duel!AfterSecond, Duel!Seats
  <2> QED BY <2>1, <2>2
<1> QED BY <1>2, <1>3, <1>4, <1>6 DEF Duel!Second

\* Whatever else the practice game does, the duel does not see.
LEMMA PracticeIsSeen ==
  ASSUME PracticeInv, [LNext]_lvars
  PROVE  [Duel!Next]_(Duel!vars)
<1>1. CASE Frame
  <2>1. PICK d \in Frames :
          IF mode = "combat" /\ Due(now')
          THEN last' = now' /\ since' = 0 /\ Second("done")
          ELSE /\ since' = IF mode # "combat" THEN 0
                         ELSE IF since + d < TickMs THEN since + d ELSE TickMs
               /\ UNCHANGED <<mode, ticks, hulls, last>>
    BY <1>1 DEF Frame
  <2>2. (mode = "combat" /\ Second("done")) \/ UNCHANGED <<ticks, hulls>>
    BY <2>1
  <2> QED BY <2>2, SecondIsDuels DEF Duel!Next, Duel!vars
<1>2. CASE Selftest
  <2>1. (mode = "selftest" /\ Second("passed")) \/ UNCHANGED <<ticks, hulls>>
    BY <1>2 DEF Selftest
  <2> QED BY <2>1, SecondIsDuels DEF Duel!Next, Duel!vars
<1>3. CASE Move \/ Rotate \/ Select \/ Enter \/ Fight \/ Quit \/ UNCHANGED lvars
  <2>1. UNCHANGED <<ticks, hulls>>
    BY <1>3 DEF Move, Rotate, Select, Enter, Fight, Quit, lvars
  <2> QED BY <2>1 DEF Duel!vars
<1> QED BY <1>1, <1>2, <1>3 DEF LNext

\* SecondsApart, one step of it.
LEMMA SecondIsLate ==
  ASSUME PracticeInv, LNext, mode = "combat", ticks' # ticks
  PROVE  since + ((now' - now) % Wrap) >= TickMs
<1>1. Frame
  BY DEF LNext, Move, Rotate, Select, Enter, Fight, Quit, Selftest
<1>2. PICK d \in Frames :
        /\ now' = (now + d) % Wrap
        /\ IF mode = "combat" /\ Due(now')
           THEN last' = now' /\ since' = 0 /\ Second("done")
           ELSE /\ since' = IF mode # "combat" THEN 0
                          ELSE IF since + d < TickMs THEN since + d ELSE TickMs
                /\ UNCHANGED <<mode, ticks, hulls, last>>
  BY <1>1 DEF Frame
<1>3. Due(now')
  BY <1>2
<1>4. (now' - now) % Wrap = d /\ (now' - last) % Wrap = since + d
  BY <1>2, ClockIs
<1> QED BY <1>3, <1>4 DEF Due

\* PracticeIsDuel: the practice game and the self-test implement the duel the server's
\* matches implement, with seconds at least TICK_MS apart although the clock goes
\* round, for any grid, catalog, items on the keys, timeout, tick and frame times; the
\* self-test's cap never ends it.
THEOREM PracticeIsADuel == DeskSpec => PracticeIsDuel
<1> DEFINE DeskNext == Practice(LNext) \/ AgentDoes(Agent!Next) \/ GuestDoes(Guest!Next)
           Apart == mode = "combat" /\ ticks' # ticks =>
                      since + ((now' - now) % Wrap) >= TickMs
<1>1. DeskInit => PracticeInv /\ Duel!Init
  <2> SUFFICES ASSUME DeskInit
               PROVE  PracticeInv /\ Duel!Init
    OBVIOUS
  <2>1. PracticeInv
    BY PracticeInit
  <2>2. ticks = 0 /\ hulls = [s \in Seats |-> FullHull] /\ FullHull > 0 /\ 0 < TimeoutTicks
    BY LocalAssumption, HullAssumption DEF DeskInit, LInit
  <2> QED BY <2>1, <2>2 DEF Duel!Init, Duel!Seats, Seats
<1>2. [DeskNext]_desk => [LNext]_lvars
  BY DEF Practice, AgentDoes, GuestDoes, desk
<1>3. PracticeInv /\ [LNext]_lvars => PracticeInv'
  BY PracticeStep, PracticeStill
<1>4. PracticeInv /\ [LNext]_lvars => [Duel!Next]_(Duel!vars)
  BY PracticeIsSeen
<1>5. PracticeInv /\ [LNext]_lvars => [Apart]_lvars
  BY SecondIsLate
<1>6. PracticeInv => LocalTypeOK /\ NeverCapped
  BY DEF PracticeInv
<1> QED BY <1>1, <1>2, <1>3, <1>4, <1>5, <1>6, PTL
        DEF DeskSpec, PracticeIsDuel, DuelImplemented, Duel!Spec, SecondsApart
=============================================================================
