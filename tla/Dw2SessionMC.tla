----------------------------- MODULE Dw2SessionMC -----------------------------
(***************************************************************************)
(* One seat of a match for TLC: either the game client or the scripted     *)
(* tester of the smoke tests sits in front of the server's side of it.     *)
(***************************************************************************)
EXTENDS Dw2Tester

\* Three parts, two of which want the same cell.
McParts  == {"laser", "rail", "shard"}
McClash  == {<<"laser", "rail">>}
McScript == <<"rail", "shard">>
McPlaces == <<"rail", "laser">>

Session(auth, token, selftest) == [auth |-> auth, token |-> token, selftest |-> selftest]

\* A player with a token where one is asked for, and self-tests with and without one
\* where none is.
McSetups == {Session(TRUE, TRUE, FALSE), Session(FALSE, FALSE, TRUE), Session(FALSE, TRUE, TRUE)}

Tests == "exit" \in DOMAIN me

SeatInit == Init \/ (TInit /\ ~setup.token)
SeatNext == (~Tests /\ Next) \/ (Tests /\ TNext)
SeatSpec == SeatInit /\ [][SeatNext]_vars

\* FairSpec of the client and TFair of the tester: of each of the three only one
\* disjunct can be enabled at a time.
Hears == IF Tests THEN Read \/ Press ELSE \E n \in 1 .. Len(down) : Poll(n)

SeatFair == SeatSpec /\ WF_vars(Hears) /\ WF_vars(Answer) /\ WF_vars(Timers)
-----------------------------------------------------------------------------
(* Properties.                                                             *)

\* The client's ship and state never part from the server's; of the tester this is
\* not asked, for it keeps neither.
SeatAgrees == Tests \/ (ClientTypeOK /\ MirrorAgrees /\ SidesAgree)

\* Each answer the tester prints is that of the request before it, and it exits
\* with 0 only from a match that is over.
TesterIsRight == Tests => TesterTypeOK /\ AnswersMatch /\ ExitIsEarned

\* Whoever sits there and has been dealt a match comes to its end.
SeatsGetOut == (~Tests => PlayersGetOut) /\ (Tests => TesterEnds)
=============================================================================
