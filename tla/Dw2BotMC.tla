------------------------------- MODULE Dw2BotMC -------------------------------
(***************************************************************************)
(* Instances of Dw2Bot for TLC.  Bots are searched in order, so they are   *)
(* not interchangeable; neither are they in liveness properties.           *)
(***************************************************************************)
EXTENDS Dw2Bot
===============================================================================
