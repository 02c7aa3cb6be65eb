------------------------------ MODULE Dw2PackMC ------------------------------
(* Packing on a small grid, for TLC.                                       *)
EXTENDS Dw2Pack, Dw2Catalog

\* A few asks: each shape that has a talent for trouble, and an unknown item.
McWanted == {"TitaniumBeam", "AetherOre", "SiegeCannon", "QuantumCore", "unknown"}
=============================================================================
