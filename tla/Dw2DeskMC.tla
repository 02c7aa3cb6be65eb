------------------------------ MODULE Dw2DeskMC ------------------------------
(***************************************************************************)
(* Three parts of the system that do not meet the match loop, for TLC: the *)
(* server's IDUNA client (Dw2Iduna), the guest account of the game client  *)
(* (Dw2Guest), and the practice game (Dw2Local).  A behaviour is of one of *)
(* the three, and the others do not move.                                  *)
(*                                                                         *)
(* IDUNA: two results to report, a player and a stranger to verify, and    *)
(* every secret file of at most two lines.  Practice: a grid of one row    *)
(* and two columns, a part of one cell and one of two, and a clock that    *)
(* goes round in the middle of a fight.                                    *)
(***************************************************************************)
EXTENDS Dw2Local

CONSTANTS
  Absent, Piece,                              \* Dw2Http's
  Matches, Players, Strangers, Files, Right, MaxEra,   \* Dw2Iduna's
  MaxGuests                                   \* Dw2Guest's

\* Absent is nothing that IDUNA answers or dwi2_report returns; and no key in a file
\* is that of two agents.
ASSUME DeskAssumption ==
  /\ MaxEra \in Nat \ {0} /\ MaxGuests \in Nat
  /\ Absent \notin {0, -1}
  /\ \A code \in {401, 503} : Absent # [status |-> code, body |-> <<>>]
  /\ \A body \in {<<>>} \cup {[access_token |-> e] : e \in 1 .. MaxEra}
                 \cup {[player_id |-> p, display_name |-> p] : p \in Players} :
       Absent # [status |-> 200, body |-> body]
  /\ \A f \in Files : Len(f) \in Nat /\ DOMAIN f = 1 .. Len(f)
  /\ \A f, g \in Files : \A n \in DOMAIN f, o \in DOMAIN g :
       f[n].key = "other" /\ g[o].key # "other" => f[n].val # g[o].val

Line(key, vals) == {[key |-> key, val |-> v] : v \in vals}
SomeLines == Line("own", {"right", "old"}) \cup Line("other", {"theirs"}) \cup Line("raw", {"right"})
SomeFiles == UNION {[1 .. n -> SomeLines] : n \in 1 .. 2}

Cell(dx) == [off |-> <<dx, 0>>, ports |-> {}, role |-> "none"]
McPart(base) ==
  [cost |-> 1, weight |-> 1, hp |-> 1, heat |-> 0, boost |-> 0, base |-> base,
   mult |-> [k \in Kinds |-> 100], splitN |-> 0]

McCatalog == [plate |-> McPart(<<Cell(0)>>), beam |-> McPart(<<Cell(0), Cell(1)>>)]
McItems   == {"plate", "beam"}

VARIABLES
  part,   \* which of them moves
  secret, token, at, job, attempt, asked, answered, returned, verified, era, late,
  recorded, trouble,                                                 \* Dw2Iduna's
  file, pc, loaded, me, rc, status, reply, guests, first             \* Dw2Guest's

Agent == INSTANCE Dw2Iduna WITH pc <- at, reply <- answered

Guest == INSTANCE Dw2Guest

agentVars == <<secret, token, at, job, attempt, asked, answered, returned, verified, era,
               late, recorded, trouble>>
guestVars == <<file, pc, loaded, me, rc, status, reply, guests, first>>
desk      == <<part, lvars, agentVars, guestVars>>

-----------------------------------------------------------------------------

DeskInit ==
  /\ part \in {"agent", "guest", "practice"}
  /\ LInit /\ (part # "practice" => mode = "pack")
  /\ Agent!Init /\ (part # "agent" => secret = Right)
  /\ Guest!Init

Practice(A) == part = "practice" /\ A /\ UNCHANGED <<part, agentVars, guestVars>>
AgentDoes(A) == part = "agent" /\ A /\ UNCHANGED <<part, lvars, guestVars>>
GuestDoes(A) == part = "guest" /\ A /\ UNCHANGED <<part, lvars, agentVars>>

DeskSpec ==
  /\ DeskInit
  /\ [][Practice(LNext) \/ AgentDoes(Agent!Next) \/ GuestDoes(Guest!Next)]_desk
  /\ WF_desk(Practice(Frame)) /\ WF_desk(Practice(Selftest))
  /\ WF_desk(AgentDoes(Agent!Hear)) /\ WF_desk(AgentDoes(Agent!Attempt \/ Agent!GiveUp))

-----------------------------------------------------------------------------

\* What the worker is told is what IDUNA did: what is called reported was recorded,
\* and once; whoever is verified is who IDUNA holds for the token; no other agent's
\* key is used; and no report fails where IDUNA and the network do their part.
AgentTellsTrue ==
  /\ [](Agent!IdunaTypeOK /\ Agent!RecordedOnce /\ Agent!VerifiedIsWhole /\ Agent!OwnKeyOnly)
  /\ Agent!NoNeedlessFailure

\* What a guest keeps lets it in again and is never lost or changed, and who plays
\* does so with the whole token of the account.
GuestStays == [](Guest!GuestTypeOK /\ Guest!KeptLetsIn /\ Guest!PlaysWithOwnToken) /\ Guest!KeptForGood

\* What the documents say of these calls and the code does not keep: no run checks it.
RejectedByIduna    == Agent!RejectedByIduna
ResumesGuest       == Guest!ResumesGuest
FailureHasNoStatus == Guest!FailureHasNoStatus

\* The practice game plays the duel the server would, in seconds at least TICK_MS
\* apart, and the self-test's cap is never what ends it.
PracticeIsDuel == DuelImplemented /\ SecondsApart /\ [](LocalTypeOK /\ NeverCapped)

\* No call to IDUNA holds the worker for ever, and no practice fight goes on for ever.
NothingHangs == Agent!CallsReturn /\ FightEnds
=============================================================================
