----------------------------- MODULE Dw2WorkerMC -----------------------------
(***************************************************************************)
(* Dw2Worker for TLC.  Two tokens tell a client's identity from that of    *)
(* whoever had its slot before.                                            *)
(***************************************************************************)
EXTENDS Dw2Worker
=============================================================================
