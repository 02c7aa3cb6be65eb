------------------------------ MODULE Dw2Mirror -------------------------------
(***************************************************************************)
(* A fight and its twin: the same two ships with the seats exchanged, fed  *)
(* the same power and answering the breaks with the same calls.  The       *)
(* server seats the players in the order they joined, so nothing but their *)
(* seat may differ between the two.                                        *)
(*                                                                         *)
(* The fight runs a second, then its twin runs the same second.            *)
(***************************************************************************)
EXTENDS Dw2Told

VARIABLES
  given,   \* the power and the loops each ship had this second
  twinShip, twinClock, twinPhase, twinAgenda, twinSlug, twinTodo, twinHull,
  twinShield, twinTally, twinMult, twinHp, twinDead, twinCharge, twinShots,
  twinDamage, twinPin, twinLoop, twinTold

Twin == INSTANCE Dw2Combat WITH
  ship <- twinShip, clock <- twinClock, phase <- twinPhase, agenda <- twinAgenda,
  slug <- twinSlug, todo <- twinTodo, hull <- twinHull, shield <- twinShield,
  tally <- twinTally, mult <- twinMult, hp <- twinHp, dead <- twinDead,
  charge <- twinCharge, shots <- twinShots, damage <- twinDamage, pin <- twinPin,
  loop <- twinLoop, told <- twinTold

twin == <<twinShip, twinClock, twinPhase, twinAgenda, twinSlug, twinTodo, twinHull,
          twinShield, twinTally, twinMult, twinHp, twinDead, twinCharge, twinShots,
          twinDamage, twinPin, twinLoop, twinTold>>

\* Something that each ship has, seen with the seats exchanged.
Exchanged(f) == [x \in Seats |-> f[Other(x)]]

Nothing == [x \in Seats |-> <<>>]

PairInit ==
  /\ Init /\ given = Nothing
  /\ twinShip = Exchanged(ship) /\ Twin!StartCombat

FightPower ==
  \E x \in Seats : \E feed \in Feeds(x), ring \in Rings(x) :
    /\ Power(x, feed, ring)
    /\ given' = [given EXCEPT ![x] = <<feed, ring>>]
    /\ UNCHANGED twin

FightGoes == Goes /\ UNCHANGED <<given, twin>>

TwinPower ==
  /\ SecondIsOver
  /\ \E x \in Seats : Twin!Power(x, given[Other(x)][1], given[Other(x)][2])
  /\ UNCHANGED <<given, vars>>

TwinGoes == SecondIsOver /\ Twin!Goes /\ UNCHANGED <<given, vars>>

BothEnd ==
  EndSecond /\ Twin!EndSecond /\ given' = Nothing

BothBreak ==
  /\ \E answer \in [Seats -> Answers], target \in Targets :
       Break(answer, target) /\ Twin!Break(Exchanged(answer), target)
  /\ UNCHANGED given

PairNext ==
  \/ FightPower \/ FightGoes \/ TwinPower \/ TwinGoes \/ BothEnd \/ BothBreak

PairSpec == PairInit /\ [][PairNext]_<<given, vars, twin>>

-----------------------------------------------------------------------------

\* No seat is the better one.  dw2_match_tick takes the ships in an order that
\* depends on the seat and on the second, resolve_round_break grades seat 0
\* first, and dw2_match_result is asked for seat 0: none of it shows.  After
\* every second and every break each ship is what it would be in the other
\* seat, to the last hit point, and the verdict is the same one.
SeatsAreFair ==
  (phase # "second" \/ (SecondIsOver /\ Twin!SecondIsOver)) =>
    /\ twinHull = Exchanged(hull) /\ twinShield = Exchanged(shield)
    /\ twinTally = Exchanged(tally) /\ twinMult = Exchanged(mult)
    /\ twinHp = Exchanged(hp) /\ twinDead = Exchanged(dead)
    /\ twinCharge = Exchanged(charge) /\ twinLoop = Exchanged(loop)
    /\ twinPhase = phase
    /\ \A x \in Seats : Twin!Verdict(x, clock) = Verdict(Other(x), clock)

\* No seat is the better one, what both players are told is true, and a break never
\* widens the lead of the ship that is ahead.
FightIsFair == [](SeatsAreFair /\ ToldTruly) /\ BreaksCatchUp
=============================================================================
