----------------------------- MODULE Dw2BenchMC ------------------------------
(***************************************************************************)
(* Two libraries of core/ for TLC: the power circuit (Dw2Circuit) and the  *)
(* sound effects (Dw2Sfx).  A behaviour is of one of the two, and the      *)
(* other does not move.                                                    *)
(*                                                                         *)
(* Each circuit runs beside its twin, the same ship turned by half a turn. *)
(* The code visits sources and sides in the order of the grid, and in the  *)
(* turned ship it meets them all in the opposite order.                    *)
(***************************************************************************)
EXTENDS Dw2Circuit, Dw2Ships

CONSTANTS MaxVoices, Cues, Delays, Buffers, MaxPlays   \* Dw2Sfx's

VARIABLES
  library,                                               \* which of them moves
  ship2, dead2, second2, cursor2, walk2, flow2, store2,  \* the turned ship
  voices, muted, stopping, open, offline, plays                   \* Dw2Sfx's

Turn == INSTANCE Dw2Circuit WITH
  ship <- ship2, dead <- dead2, second <- second2, cursor <- cursor2,
  walk <- walk2, flow <- flow2, store <- store2

Sfx == INSTANCE Dw2Sfx

circuit2 == <<ship2, dead2, second2, cursor2, walk2, flow2, store2>>
sounds   == <<voices, muted, stopping, open, offline, plays>>
bench    == <<library, circuit, circuit2, sounds>>

ASSUME BenchAssumption == Sfx!SfxAssumption

\* Cues of the lowest, a middle and the highest priority.
McCues == {"PLACE", "WEAPON_FIRE", "COMBAT_START"}

-----------------------------------------------------------------------------

\* First the ship, then its twin; what destroys a cell destroys its twin's.
Circuits ==
  /\ \/ Within /\ UNCHANGED circuit2
     \/ cursor > GridW * GridH /\ Turn!Within /\ UNCHANGED circuit
     \/ \E hit \in {{}} \cup {{c} : c \in ship.occupied} :
          (hit = {} \/ dead = {}) /\ NextSecond(hit) /\ Turn!NextSecond({Opposite(c) : c \in hit})
  /\ library = "circuit" /\ UNCHANGED <<library, sounds>>

Sound(A) == library = "sfx" /\ A /\ UNCHANGED <<library, circuit, circuit2>>

BenchInit ==
  /\ library \in {"circuit", "sfx"}
  /\ \E s \in Ships :
       /\ library = "sfx" => s = ShipOf(CircuitAsks.series)
       /\ Start(s) /\ Turn!Start(HalfTurn(s))
  /\ Sfx!Init

BenchSpec ==
  /\ BenchInit /\ [][Circuits \/ Sound(Sfx!Next)]_bench
  /\ WF_bench(Sound(Sfx!Mix)) /\ WF_bench(Sound(Sfx!StopAll))

-----------------------------------------------------------------------------

\* What the walk finds to be a closed loop is one, and it misses none; and loops
\* are what Dw2Combat takes them for.  Routes, stores and the budget of hand-offs keep
\* their bounds.
LoopsAreReal == CircuitTypeOK /\ LoopsFound /\ LoopsAreWires

\* The order in which the walk meets sources and sides makes no difference: at
\* the end of a second, both ships have fed their cells alike, found the same
\* loops, and store the same.  (A Generator's pin is set, not added to, when its
\* turn comes; no part reads it.)
OrderIsBlind ==
  second = second2 /\ cursor > GridW * GridH /\ cursor2 > GridW * GridH =>
    /\ flow2.loops = {Opposite(c) : c \in flow.loops}
    /\ \A c \in Cells :
         LET d == Opposite(c)
         IN /\ (c \in Living /\ RoleAt(c) = "generator") \/ flow2.pin[d] = flow.pin[c]
            /\ store2.q[d] = store.q[c] /\ store2.q2[d] = store.q2[c]
            /\ store2.open[d] = store.open[c]

\* Sounds are cut by more important ones only, the notes of a cue keep their time, a
\* muted device is silent, and no voice stays for good.
SoundsKeepOrder ==
  /\ Sfx!PrioritiesDecide /\ Sfx!NoEqualCut /\ Sfx!FallsSilent
  /\ [](Sfx!SfxTypeOK /\ Sfx!CueKeepsTime /\ Sfx!MutedIsSilent)
=============================================================================
