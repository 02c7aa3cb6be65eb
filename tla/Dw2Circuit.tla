------------------------------ MODULE Dw2Circuit ------------------------------
(***************************************************************************)
(* The power circuit of one ship, core/combat.c: how the watts of a second *)
(* find their way from the sources through the wires (dw2_ship_power,      *)
(* dw2_forward, dw2_deliver), and what the parts that store them make of   *)
(* it in the seconds to come.  A step is one source or one hand-off; the   *)
(* recursion of the code is a stack of the hand-offs it has still to make. *)
(*                                                                         *)
(* Power is in milliwatts, and smaller fractions are dropped.  A gun's     *)
(* charge grows by what its cell is fed; what it does with it, and how a   *)
(* closed loop burns out, is in Dw2Combat.  Between two seconds a cell may *)
(* be destroyed.                                                           *)
(***************************************************************************)
EXTENDS Dw2Fleet

CONSTANTS
  FlowBudget,   \* DW2_FLOW_BUDGET
  Seconds       \* how many seconds are played

ASSUME CircuitAssumption == FlowBudget \in Nat /\ Seconds \in Nat \ {0}

\* An Amplifier is one cell, so a route that goes through it is in all of it.
ASSUME AmplifierAssumption ==
  "Amplifier" \in Items => Len(Catalog["Amplifier"].base) = 1

VARIABLES
  ship,     \* the ship
  dead,     \* its destroyed cells
  second,   \* the seconds banked
  cursor,   \* the number of source cells seen in this second
  walk,     \* the hand-offs still to make, the next one first
  flow,     \* what the second has brought so far: Dw2Flow
  store     \* cell_q, cell_q2 and gate_open

circuit == <<ship, dead, second, cursor, walk, flow, store>>

GeneratorOutput == 10000    \* DW2_GENERATOR_OUTPUT
CapFull         == 30000    \* DW2_CAP_FULL
CapMax          == 60000    \* DW2_CAP_MAX
BatStart        == 45000    \* DW2_BAT_START
BatMax          == 90000    \* DW2_BAT_MAX
BatRate         == 15000    \* DW2_BAT_RATE
GateMin         == 2000     \* DW2_GATE_MIN
PowerMax        == 120000   \* DW2_POWER_MAX

StoreRoles == {"capacitor", "battery", "delayer"}
PassRoles  == {"conductor", "splitter", "amplifier", "resistor", "transistor"}

-----------------------------------------------------------------------------
(* The net: what is wired where.                                           *)

Living      == ship.occupied \ dead
RoleAt(c)   == ship.role[c]
PartAt(c)   == ship.parts[ship.owner[c]]
PortsAt(c)  == LET cells == PartAt(c).cells
               IN cells[CHOOSE k \in DOMAIN cells : cells[k].at = c].ports

\* dw2_rotated_port: where a directed part takes power in, lets it out, and has
\* its gate.
InPort(c)   == Turned("W", PartAt(c).rotation)
OutPort(c)  == Turned("E", PartAt(c).rotation)
GatePort(c) == Turned("N", PartAt(c).rotation)

\* Whether a living cell is wired to take power that comes in by a side.
Takes(c, by) ==
  /\ c \in Living /\ by \in PortsAt(c)
  /\ RoleAt(c) \in StoreRoles => by = InPort(c)
  /\ RoleAt(c) = "transistor" => by \in {InPort(c), GatePort(c)}

\* The sides by which a cell passes on what came in by a side.
PassesTo(c, by) ==
  CASE RoleAt(c) \notin PassRoles -> {}
    [] RoleAt(c) = "transistor" ->
         IF by # GatePort(c) /\ store.open[c] THEN PortsAt(c) \ {InPort(c), GatePort(c)} ELSE {}
    [] OTHER -> PortsAt(c) \ {by}

\* dw2_resistor_factor and DW2_AMPLIFIER_GAIN
Scaled(c, power) ==
  CASE PartAt(c).item = "Amplifier" -> (power * 3) \div 2
    [] PartAt(c).item = "Resistor1" -> (power * 3) \div 4
    [] PartAt(c).item = "Resistor2" -> power \div 2
    [] PartAt(c).item = "Resistor4" -> power \div 4
    [] OTHER -> power

\* Mutant: power is not divided between the ports.
SharedOut(c, outs, power, path) ==
  LET to(s) == IF s \in outs /\ Beside(c, s) \in Cells
               THEN <<[at |-> Beside(c, s), by |-> Turned(s, 2),
                       power |-> power, path |-> path]>>
               ELSE <<>>
  IN to("N") \o to("E") \o to("S") \o to("W")

\* dw2_forward: equal shares to the neighbours, the share of a port that looks
\* off the grid lost.
Forward(c, outs, power, path) ==
  LET to(s) == IF s \in outs /\ Beside(c, s) \in Cells
               THEN <<[at |-> Beside(c, s), by |-> Turned(s, 2),
                       power |-> power \div Cardinality(outs), path |-> path]>>
               ELSE <<>>
  IN to("N") \o to("E") \o to("S") \o to("W")

-----------------------------------------------------------------------------
(* The sources, in cell order.                                             *)

None    == [c \in Cells |-> 0]
NoFlow  == [pin |-> None, absorb |-> None, gate |-> None, loops |-> {},
            budget |-> FlowBudget, gave |-> None]

CellNo(i) == <<i \div GridW, i % GridW>>

\* What a source lets go of.
Release(c) ==
  CASE RoleAt(c) = "generator" -> GeneratorOutput
    [] RoleAt(c) = "battery"   -> AtMost(store.q[c], BatRate)
    [] RoleAt(c) = "capacitor" -> IF store.q[c] >= CapFull THEN store.q[c] ELSE 0
    [] RoleAt(c) = "delayer"   -> store.q2[c]
    [] OTHER                   -> 0

\* A Generator is the first cell of the routes that start at it; what stores
\* power is not on the route of what it lets go of.
LetGo(c) ==
  IF RoleAt(c) = "generator"
  THEN Forward(c, PortsAt(c), Release(c), <<c>>)
  ELSE Forward(c, {OutPort(c)}, Release(c), <<>>)

StoreAfter(c) ==
  IF RoleAt(c) = "delayer"
  THEN [store EXCEPT !.q2[c] = store.q[c], !.q[c] = 0]
  ELSE IF RoleAt(c) \in StoreRoles THEN [store EXCEPT !.q[c] = @ - Release(c)] ELSE store

\* The part a source plays in a second.  (gave is what each has let go of; the
\* code does not keep it.)
Source ==
  /\ walk = <<>> /\ cursor < GridW * GridH
  /\ cursor' = cursor + 1
  /\ LET c == CellNo(cursor)
     IN IF c \in Living
        THEN /\ walk' = LetGo(c)
             /\ store' = StoreAfter(c)
             /\ flow' = [flow EXCEPT
                  !.pin[c] = IF RoleAt(c) = "generator" THEN Release(c) ELSE @,
                  !.gave[c] = @ + Release(c)]
        ELSE UNCHANGED <<walk, store, flow>>
  /\ UNCHANGED <<ship, dead, second>>

-----------------------------------------------------------------------------
(* dw2_deliver.                                                            *)

Arrives(h) == h.power >= 1 /\ Takes(h.at, h.by)

\* The next hand-off finds no cell that takes it, or the budget spent.
Lost ==
  /\ walk # <<>>
  /\ LET h == Head(walk)
     IN ~Arrives(h) \/ (h.at \notin Range(h.path) /\ flow.budget = 0)
  /\ walk' = Tail(walk)
  /\ UNCHANGED <<ship, dead, second, cursor, flow, store>>

\* Mutant: the way to a loop is taken for a part of it.
ClosesAll ==
  /\ walk # <<>>
  /\ LET h == Head(walk)
     IN /\ Arrives(h) /\ h.at \in Range(h.path)
        /\ flow' = [flow EXCEPT !.loops = @ \cup Range(h.path)]
  /\ walk' = Tail(walk)
  /\ UNCHANGED <<ship, dead, second, cursor, store>>

\* It comes back to a cell of its own route: a closed loop.
Closes ==
  /\ walk # <<>>
  /\ LET h == Head(walk)
     IN /\ Arrives(h) /\ h.at \in Range(h.path)
        /\ flow' = [flow EXCEPT !.loops = @ \cup
                      {h.path[k] : k \in {j \in DOMAIN h.path :
                         \E i \in 1 .. j : h.path[i] = h.at}}]
  /\ walk' = Tail(walk)
  /\ UNCHANGED <<ship, dead, second, cursor, store>>

\* What comes to a cell: banked later, or seen by a gate, or passed on.
Fed(h, power) ==
  [flow EXCEPT
     !.pin[h.at]    = @ + power,
     !.absorb[h.at] = IF RoleAt(h.at) \in StoreRoles THEN @ + power ELSE @,
     !.gate[h.at]   = IF RoleAt(h.at) = "transistor" /\ h.by = GatePort(h.at)
                      THEN @ + power ELSE @,
     !.budget       = @ - 1]

\* Mutant: what a part stores is there at once.
BanksAtOnce ==
  /\ walk # <<>>
  /\ LET h     == Head(walk)
         power == AtMost(h.power, PowerMax)
     IN /\ Arrives(h) /\ h.at \notin Range(h.path) /\ flow.budget > 0
        /\ flow' = [Fed(h, power) EXCEPT !.absorb = None]
        /\ store' = IF RoleAt(h.at) \in StoreRoles
                    THEN [store EXCEPT !.q[h.at] = @ + power] ELSE store
        /\ walk' = Forward(h.at, PassesTo(h.at, h.by), Scaled(h.at, power),
                           Append(h.path, h.at)) \o Tail(walk)
  /\ UNCHANGED <<ship, dead, second, cursor>>

\* It feeds the cell, and goes on.
Feeds ==
  /\ walk # <<>>
  /\ LET h     == Head(walk)
         power == AtMost(h.power, PowerMax)
     IN /\ Arrives(h) /\ h.at \notin Range(h.path) /\ flow.budget > 0
        /\ flow' = Fed(h, power)
        /\ walk' = Forward(h.at, PassesTo(h.at, h.by), Scaled(h.at, power),
                           Append(h.path, h.at)) \o Tail(walk)
  /\ UNCHANGED <<ship, dead, second, cursor, store>>

-----------------------------------------------------------------------------
(* Banking, and the rest of the second.                                    *)

Done == walk = <<>> /\ cursor = GridW * GridH

Banked(c) ==
  CASE RoleAt(c) = "battery"   -> AtMost(store.q[c] + flow.absorb[c], BatMax)
    [] RoleAt(c) = "capacitor" -> AtMost(store.q[c] + flow.absorb[c], CapMax)
    [] RoleAt(c) = "delayer"   -> store.q[c] + flow.absorb[c]
    [] OTHER                   -> store.q[c]

Bank ==
  /\ Done
  /\ store' = [store EXCEPT
       !.q    = [c \in Cells |-> IF c \in Living THEN Banked(c) ELSE @[c]],
       !.open = [c \in Cells |-> IF c \in Living /\ RoleAt(c) = "transistor"
                                 THEN flow.gate[c] >= GateMin ELSE @[c]]]
  /\ second' = second + 1
  /\ cursor' = cursor + 1
  /\ UNCHANGED <<ship, dead, walk, flow>>

\* The fight goes on, destroys some cells, and the next second begins.
NextSecond(hit) ==
  /\ cursor > GridW * GridH /\ second < Seconds
  /\ dead' = dead \cup hit
  /\ cursor' = 0 /\ flow' = NoFlow
  /\ UNCHANGED <<ship, second, walk, store>>

\* dw2_ship_start_combat: a Battery is half charged.
StartOf(s) ==
  [q    |-> [c \in Cells |-> IF c \in s.occupied /\ s.role[c] = "battery"
                             THEN BatStart ELSE 0],
   q2   |-> None,
   open |-> [c \in Cells |-> FALSE]]

Start(s) ==
  /\ ship = s /\ dead = {} /\ second = 0 /\ cursor = 0
  /\ walk = <<>> /\ flow = NoFlow /\ store = StartOf(s)

Init == \E s \in Ships : Start(s)

Within == Source \/ Lost \/ Closes \/ Feeds \/ Bank

\* One cell is destroyed in a fight, at most.
Next == Within \/ (\E hit \in {{}} \cup {{c} : c \in ship.occupied} :
                     (hit = {} \/ dead = {}) /\ NextSecond(hit))

Spec == Init /\ [][Next]_circuit
-----------------------------------------------------------------------------
(* What must hold of it.                                                   *)

\* Types: routes name each cell once, and the stores and the budget keep their
\* bounds.
CircuitTypeOK ==
  /\ dead \subseteq ship.occupied
  /\ second \in 0 .. Seconds /\ cursor \in 0 .. GridW * GridH + 1
  /\ \A i \in DOMAIN walk :
       /\ walk[i].at \in Cells /\ walk[i].by \in Sides /\ walk[i].power \in Nat
       /\ Range(walk[i].path) \subseteq Living /\ IsInjective(walk[i].path)
  /\ flow.loops \subseteq Living /\ flow.budget \in 0 .. FlowBudget
  /\ \A c \in Cells :
       /\ {flow.pin[c], flow.absorb[c], flow.gate[c], store.q[c], store.q2[c]} \subseteq Nat
       /\ store.open[c] \in BOOLEAN
       /\ c \in ship.occupied /\ ship.role[c] = "battery" => store.q[c] <= BatMax
       /\ c \in ship.occupied /\ ship.role[c] = "capacitor" => store.q[c] <= CapMax

\* What ends the walk of the power that reaches it.
Ends(c) == c \in Living /\ RoleAt(c) \notin PassRoles \cup {"generator"}

\* What has reached the parts that keep it.
Kept == [c \in Cells |-> IF Ends(c) THEN flow.pin[c] ELSE 0]

\* The sum of a sequence of numbers, and of one for each cell; a power.
Sum(s) ==
  LET upTo[i \in 0 .. Len(s)] == IF i = 0 THEN 0 ELSE upTo[i - 1] + s[i]
  IN upTo[Len(s)]

OverCells(amount) ==
  Sum([row \in 1 .. GridH |->
    Sum([col \in 1 .. GridW |-> amount[<<row - 1, col - 1>>]])])

Pow(b, n) ==
  LET to[i \in 0 .. n] == IF i = 0 THEN 1 ELSE b * to[i - 1]
  IN to[n]

Amplifiers == {p \in DOMAIN ship.parts : ship.parts[p].item = "Amplifier"}

\* Wires divide power and never make any: at each moment of a second, what has
\* reached the parts that keep it and what is on its way is no more than what
\* the sources have let go of, half as much again for each Amplifier aboard.
\* However the wires are closed, power does not pass an Amplifier twice.
NothingFromNothing ==
  LET n == Cardinality(Amplifiers)
  IN Pow(2, n) * (OverCells(Kept) + Sum([i \in DOMAIN walk |-> walk[i].power]))
       <= Pow(3, n) * OverCells(flow.gave)

\* The places power can be in, <<cell, side it came in by>>, one hand-off on.
Beyond(places) ==
  UNION {{<<Beside(p[1], s), Turned(s, 2)>> : s \in PassesTo(p[1], p[2])} : p \in places}

Taken(places) == {p \in places : p[1] \in Cells /\ Takes(p[1], p[2])}

\* All places power that is let out of a cell by some sides can come to, after n
\* hand-offs at most.
Reach[n \in Nat, c \in Cells, outs \in SUBSET Sides] ==
  IF n = 0 THEN Taken({<<Beside(c, s), Turned(s, 2)>> : s \in outs})
  ELSE LET before == Reach[n - 1, c, outs] IN before \cup Taken(Beyond(before))

Farthest == 4 * GridW * GridH

\* The places that a living source supplies.
Supplied ==
  UNION {Reach[Farthest, c, IF RoleAt(c) = "generator" THEN PortsAt(c) ELSE {OutPort(c)}] :
           c \in {d \in Living : flow.gave[d] > 0}}

\* Some way for the power to come back to a cell it has been in.
Returns ==
  \/ \E p \in Supplied : \E q \in Reach[Farthest, p[1], PassesTo(p[1], p[2])] : q[1] = p[1]
  \/ \E c \in Living : /\ RoleAt(c) = "generator"
                       /\ \E q \in Reach[Farthest, c, PortsAt(c)] : q[1] = c

\* The neighbours of a cell that its wires and theirs join it to.
Joined(c) ==
  {d \in Living : \E s \in PortsAt(c) : d = Beside(c, s) /\ Turned(s, 2) \in PortsAt(d)}

\* Back-EMF strikes exactly the closed loops: at the end of a second in which the
\* walk has not run out of hand-offs, loops have been found if and only if there
\* is a way for power to come back to where it was, and each cell found is wired
\* to two others found.
LoopsFound ==
  Done /\ flow.budget > 0 =>
    /\ flow.loops # {} <=> Returns
    /\ \A c \in flow.loops : Cardinality(Joined(c) \cap flow.loops) >= 2

\* What Dw2Combat takes of the circuit: a loop is made of wires and Generators,
\* four of them at least.
LoopsAreWires ==
  flow.loops # {} =>
    /\ \A c \in flow.loops : RoleAt(c) \in PassRoles \cup {"generator"}
    /\ Cardinality(flow.loops) >= 4

\* "A second feed into a fed cell is inert" (core/combat.h).
SecondFeedIsInert ==
  [][\A c \in Cells : flow.pin[c] > 0 /\ second' = second /\ cursor' >= cursor
       => flow'.pin[c] = flow.pin[c]]_circuit
=============================================================================
