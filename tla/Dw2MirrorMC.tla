----------------------------- MODULE Dw2MirrorMC ------------------------------
(***************************************************************************)
(* Fights of small ships, for TLC.  The grid is three by three.            *)
(***************************************************************************)
EXTENDS Dw2Mirror, Dw2Fight, Dw2Told, Dw2Ships, Dw2Cannon

Pairs == {<<"gunship", "bombard">>, <<"reactor", "looped">>, <<"looped", "grower">>,
          <<"bombard", "grower">>, <<"raider", "ranger">>, <<"raider", "hospital">>}

McMatchups == LET all == FightShip IN {[x \in Seats |-> all[pair[x + 1]]] : pair \in Pairs}

McWatts ==
  [item \in Items |-> IF item = "Railgun" THEN {90}
                      ELSE IF item = "Aegis" THEN {0, 40}
                      ELSE IF item = "SiegeCannon" THEN {90}
                      ELSE IF item = "PulseLaser" THEN {5, 40} ELSE {20}]

McAnswers == {[call |-> "none", at |-> 0], [call |-> "overcharge", at |-> 600],
              [call |-> "overcharge", at |-> 900], [call |-> "brace", at |-> 700]}

\* The program the server is built with, and a target in the middle of the window.
McProgram == Fires(cannon_decision)
McTargets == {TargetMs(300)}
=============================================================================
