----------------------------- MODULE Dw2ServerMC -----------------------------
(* The server on small tables, for TLC: the constants are in the cfgs.     *)
EXTENDS Dw2Server
=============================================================================
