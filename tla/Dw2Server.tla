------------------------------ MODULE Dw2Server ------------------------------
(***************************************************************************)
(* The match server, apps/server/main.c, started with --no-auth: the       *)
(* connection table, the queue and its pairing rule, the matches from      *)
(* packing through combat and round breaks to their end, the timers, the   *)
(* sweep of dropped connections, and the shutdown.  One poll() loop owns   *)
(* all of it, so the state says where in an iteration that loop stands.    *)
(*                                                                         *)
(* Abstracted: ships are their hull, in a few ordered levels (Dw2Hulls); a *)
(* deadline is whether it has passed; queued_seq is the order it induces.  *)
(***************************************************************************)
EXTENDS Dw2Hulls, FiniteSets

CONSTANTS
  MaxConns,      \* MAX_CONNS: slots of the connection table
  MaxMatches,    \* MAX_MATCHES: slots of the match table
  RoundTicks,    \* DW2_ROUND_TICKS: seconds of combat between two round breaks
  TimeoutTicks,  \* DW2_MATCH_TIMEOUT_TICKS: seconds after which hulls decide
  Clientele,     \* the kinds of client that connect: humans, bots or both
  MaxDrops       \* a bound of the model: connections marked for closing at once

ASSUME SizesAssumption ==
  /\ MaxConns \in Nat \ {0} /\ MaxMatches \in Nat \ {0}
  /\ RoundTicks \in Nat \ {0} /\ TimeoutTicks \in Nat \ {0}
  /\ MaxDrops \in Nat
  /\ Clientele \subseteq {"human", "bot"}

\* main.c fixes MAX_MATCHES to half of MAX_CONNS.
ASSUME SlotsAssumption == 2 * MaxMatches >= MaxConns - 1

VARIABLES
  phase,     \* which loop of main's iteration is running
  at,        \* the slot that loop has reached
  pairing,   \* inside try_pair, called from enter_queue or expire_timers
  conns,     \* conns[MAX_CONNS]: state, kind, match, seat
  closing,   \* the connections with close_after_flush set
  ahead,     \* <<a, b>>: queued a entered the queue before queued b
  matches,   \* matches[MAX_MATCHES]
  lastEnd,   \* the last MATCH_END and the hulls it was read from (history:
             \* forgotten when the loop moves on to another slot)
  connDue,   \* connections whose hello timeout or human wait has passed
  matchDue   \* matches whose pack, tick or round deadline has passed

vars == <<phase, at, pairing, conns, closing, ahead, matches, lastEnd,
          connDue, matchDue>>
loop == <<phase, at, pairing>>

Conns   == 1 .. MaxConns
Matches == 1 .. MaxMatches
NoMatch == 0
Kinds   == {"human", "bot"}
Calls   == {"overcharge", "brace"}
NoCall  == "none"

ConnStates == {"free", "connected", "ready", "queued", "packing", "combat"}
InMatch    == {"packing", "combat"}
Phases     == {"io", "sweep", "hello", "matches", "stopping", "stopped"}
Results    == {"win", "loss", "tie"}
Reasons    == {"hull", "timeout", "forfeit", "server"}

FreeConn == [state |-> "free", kind |-> "human", match |-> NoMatch, seat |-> 0]

\* A match slot nobody has used: the table starts zeroed.
BlankMatch ==
  [active  |-> FALSE,
   conn    |-> [s \in Seats |-> 1],
   ready   |-> [s \in Seats |-> FALSE],
   started |-> FALSE,
   elapsed |-> 0,
   break   |-> FALSE,
   call    |-> [s \in Seats |-> NoCall],
   hull    |-> [s \in Seats |-> FullHull]]

NoEnd == [hull |-> [s \in Seats |-> FullHull],
          result |-> [s \in Seats |-> "none"], reason |-> "none"]

ConnRec ==
  [state : ConnStates, kind : Kinds, match : Matches \cup {NoMatch}, seat : Seats]

MatchRec ==
  [active : BOOLEAN, conn : [Seats -> Conns], ready : [Seats -> BOOLEAN],
   started : BOOLEAN, elapsed : 0 .. TimeoutTicks, break : BOOLEAN,
   call : [Seats -> Calls \cup {NoCall}], hull : [Seats -> Levels]]

EndRec ==
  [hull : [Seats -> Levels], result : [Seats -> Results], reason : Reasons]

TypeOK ==
  /\ phase \in Phases
  /\ at \in Nat
  /\ pairing \in BOOLEAN
  /\ conns \in [Conns -> ConnRec]
  /\ closing \subseteq Conns
  /\ ahead \subseteq Conns \X Conns
  /\ matches \in [Matches -> MatchRec]
  /\ lastEnd \in EndRec \cup {NoEnd}
  /\ connDue \subseteq Conns
  /\ matchDue \subseteq Matches

Init ==
  /\ phase = "io" /\ at = 0 /\ pairing = FALSE
  /\ conns = [c \in Conns |-> FreeConn]
  /\ closing = {} /\ ahead = {}
  /\ matches = [m \in Matches |-> BlankMatch]
  /\ lastEnd = NoEnd
  /\ connDue = {} /\ matchDue = {}

-----------------------------------------------------------------------------
(* Pieces the handlers share.                                              *)

InState(st)     == {c \in Conns : conns[c].state = st}
QueuedOf(k)     == {c \in InState("queued") : conns[c].kind = k}
Players(m)      == {matches[m].conn[s] : s \in Seats}
FirstOf(n, S)   == n \in S /\ \A k \in S : n <= k
Dequeued(S)     == {p \in ahead : p[1] \notin S /\ p[2] \notin S}

\* send_msg to each of R, the connections of `marked` being the ones already
\* dropped: a full buffer or a failing send drops the reader too.
Send(marked, R) ==
  \E failed \in SUBSET R :
    /\ Cardinality(marked \cup failed) <= MaxDrops
    /\ closing' = marked \cup failed

SendTo(R) == Send(closing, R)

\* Mutant: two ships that destroy each other in one second do not tie.
MatchResultFirst(mt, even) ==
  IF mt.hull[1] = 0 THEN "self_win"
  ELSE IF mt.hull[0] = 0 THEN "enemy_win"
  ELSE IF mt.elapsed < TimeoutTicks THEN "ongoing"
  ELSE IF mt.hull[0] > mt.hull[1] THEN "self_win"
  ELSE IF mt.hull[0] < mt.hull[1] THEN "enemy_win"
  ELSE even

\* dw2_match_result, seen from seat 0.  How the structure and cargo of two
\* ships with equal hulls compare at the timeout is left to `even`.
MatchResult(mt, even) ==
  LET h0 == mt.hull[0]
      h1 == mt.hull[1]
  IN IF h0 = 0 /\ h1 = 0 THEN "tie"
     ELSE IF h1 = 0 THEN "self_win"
     ELSE IF h0 = 0 THEN "enemy_win"
     ELSE IF mt.elapsed < TimeoutTicks THEN "ongoing"
     ELSE IF h0 > h1 THEN "self_win"
     ELSE IF h0 < h1 THEN "enemy_win"
     ELSE even

Evens == {"tie", "self_win", "enemy_win"}

\* end_match: what each seat is told.  An ongoing match takes the last branch.
SeatResults(r) ==
  IF r = "tie" THEN [s \in Seats |-> "tie"]
  ELSE IF r = "self_win" THEN [s \in Seats |-> IF s = 0 THEN "win" ELSE "loss"]
  ELSE [s \in Seats |-> IF s = 0 THEN "loss" ELSE "win"]

\* Nothing reads an inactive slot before start_match clears it; the model
\* clears it here.
EndMatch(m, mt, why) ==
  /\ matches' = [matches EXCEPT ![m] = BlankMatch]
  /\ matchDue' = matchDue \ {m}
  /\ \E even \in Evens :
       lastEnd' = [hull |-> mt.hull, reason |-> why,
                   result |-> SeatResults(MatchResult(mt, even))]

\* Mutant: a match that ends while packing leaves its players there.
ReleasedFighters(P) ==
  [c \in Conns |-> IF c \in P /\ conns[c].state = "combat"
                   THEN [conns[c] EXCEPT !.state = "ready", !.match = NoMatch]
                   ELSE conns[c]]

\* end_match: the players of a match that ends are ready for another one.
Released(P) ==
  [c \in Conns |-> IF c \in P /\ conns[c].state \in InMatch
                   THEN [conns[c] EXCEPT !.state = "ready", !.match = NoMatch]
                   ELSE conns[c]]

-----------------------------------------------------------------------------
(* try_pair.  While it runs nothing else does; each step starts one match. *)

\* Mutant: any queued player of the kind will do.
IsQueued(c, S) == c \in S

IsOldest(c, S) == c \in S /\ \A d \in S \ {c} : <<c, d>> \in ahead

\* Mutant: two humans also wait for their human wait to be over.
PicksPatient(a, b) ==
  LET humans == QueuedOf("human")
      bots   == QueuedOf("bot")
  IN \/ a \in connDue /\ IsOldest(a, humans) /\ IsOldest(b, humans \ {a})
     \/ humans = {a} /\ a \in connDue /\ IsOldest(b, bots)
     \/ /\ humans = {}
        /\ IsOldest(a, bots) /\ IsOldest(b, bots \ {a})
        /\ bots \ {a, b} # {}

\* Mutant: two bots are enough for a match of bots.
PicksLastBots(a, b) ==
  LET humans == QueuedOf("human")
      bots   == QueuedOf("bot")
  IN \/ IsOldest(a, humans) /\ IsOldest(b, humans \ {a})
     \/ humans = {a} /\ a \in connDue /\ IsOldest(b, bots)
     \/ humans = {} /\ IsOldest(a, bots) /\ IsOldest(b, bots \ {a})

\* Two humans; else one human, once its wait is over, and a bot; else two of
\* at least three bots.
Picks(a, b) ==
  LET humans == QueuedOf("human")
      bots   == QueuedOf("bot")
  IN \/ IsOldest(a, humans) /\ IsOldest(b, humans \ {a})
     \/ humans = {a} /\ a \in connDue /\ IsOldest(b, bots)
     \/ /\ humans = {}
        /\ IsOldest(a, bots) /\ IsOldest(b, bots \ {a})
        /\ bots \ {a, b} # {}

\* Mutant: the search for a free slot stops one short of the last.
FreeMatchesShort == {m \in Matches : m < MaxMatches /\ ~matches[m].active}

FreeMatches == {m \in Matches : ~matches[m].active}

\* start_match
StartMatch(a, b, m) ==
  /\ matches' = [matches EXCEPT ![m] =
       [BlankMatch EXCEPT !.active = TRUE,
                          !.conn = [s \in Seats |-> IF s = 0 THEN a ELSE b]]]
  /\ conns' = [conns EXCEPT
       ![a] = [@ EXCEPT !.state = "packing", !.match = m, !.seat = 0],
       ![b] = [@ EXCEPT !.state = "packing", !.match = m, !.seat = 1]]
  /\ ahead' = Dequeued({a, b})
  /\ connDue' = connDue \ {a, b}
  /\ matchDue' = matchDue \ {m}
  /\ SendTo({a, b})

Pair ==
  /\ pairing
  /\ \E a, b \in Conns : \E m \in Matches :
       Picks(a, b) /\ FirstOf(m, FreeMatches) /\ StartMatch(a, b, m)
  /\ UNCHANGED <<loop, lastEnd>>

PairingDone ==
  /\ pairing
  /\ FreeMatches = {} \/ ~ \E a, b \in Conns : Picks(a, b)
  /\ pairing' = FALSE
  /\ UNCHANGED <<phase, at, conns, closing, ahead, matches, lastEnd, connDue, matchDue>>

-----------------------------------------------------------------------------
(* Ends of a match, combat and round breaks.                               *)

\* leave_match_or_queue: is there a match to forfeit?
Plays(c) ==
  conns[c].state \in InMatch /\ matches[conns[c].match].active

\* leave_match_or_queue and conn_close: connection c, if it plays, forfeits,
\* and is left in state `to`: "ready" for LEAVE, "free" once it is closed.
Quit(c, to) ==
  LET m == conns[c].match
      gone(f) == [f EXCEPT ![c] =
                    IF to = "free" THEN FreeConn
                    ELSE IF @.state = "queued" THEN [@ EXCEPT !.state = to]
                    ELSE @]
      kept == IF to = "free" THEN closing \ {c} ELSE closing
  IN /\ IF Plays(c)
        THEN /\ EndMatch(m, matches[m], "forfeit")
             /\ conns' = gone(Released(Players(m)))
             /\ Send(kept, IF to = "free" THEN Players(m) \ {c} ELSE Players(m))
        ELSE /\ conns' = gone(conns)
             /\ closing' = kept
             /\ UNCHANGED <<matches, matchDue, lastEnd>>
     /\ ahead' = Dequeued({c})
     /\ connDue' = connDue \ {c}

\* start_combat_if_ready: mt as it is once packing is over.
InCombat(mt) ==
  [mt EXCEPT !.started = TRUE, !.elapsed = 0,
             !.hull = [s \in Seats |-> FullHull]]

\* Mutant: both players' READY do not start the fight before the deadline.
PackingTimedOut(mt, m) == ~mt.started /\ m \in matchDue

\* Mutant: the deadline does not start the fight of a player who never is ready.
BothReady(mt, m) == ~mt.started /\ \A s \in Seats : mt.ready[s]

PackingOver(mt, m) ==
  ~mt.started /\ ((\A s \in Seats : mt.ready[s]) \/ m \in matchDue)

StartCombat(m, mt) ==
  /\ matches' = [matches EXCEPT ![m] = InCombat(mt)]
  /\ conns' = [c \in Conns |-> IF c \in Players(m)
                               THEN [conns[c] EXCEPT !.state = "combat"]
                               ELSE conns[c]]
  /\ matchDue' = matchDue \ {m}
  /\ SendTo(Players(m))

\* handle_round_call: the first call of a seat counts.
Called(mt, s, call) ==
  [mt EXCEPT !.call[s] = IF @ = NoCall THEN call ELSE @]

\* begin_round_break
Broken(mt) == [mt EXCEPT !.break = TRUE, !.call = [s \in Seats |-> NoCall]]

\* resolve_round_break; the calls stay in the slot until the next break opens.
ResolveBreak(m, mt) ==
  /\ \E h \in HullsAfterBreak(mt.hull, mt.call) :
       matches' = [matches EXCEPT ![m] = [mt EXCEPT !.break = FALSE, !.hull = h]]
  /\ matchDue' = matchDue \ {m}
  /\ SendTo(Players(m))

\* run_tick: a second of combat, and what follows it: the end of the match, a
\* round break, or the next second.
RunTick(m) ==
  \E h \in HullsAfterTick(matches[m].hull) :
    LET t      == matches[m].elapsed + 1
        ticked == [matches[m] EXCEPT !.hull = h, !.elapsed = t]
        dead   == \E s \in Seats : h[s] = 0
    IN /\ IF MatchResult(ticked, "tie") # "ongoing"
          THEN /\ EndMatch(m, ticked, IF dead THEN "hull" ELSE "timeout")
               /\ conns' = Released(Players(m))
          ELSE /\ matches' = [matches EXCEPT ![m] =
                    IF t % RoundTicks = 0 /\ t < TimeoutTicks
                    THEN Broken(ticked) ELSE ticked]
               /\ matchDue' = matchDue \ {m}
               /\ lastEnd' = NoEnd
               /\ UNCHANGED conns
       /\ SendTo(Players(m))

-----------------------------------------------------------------------------
(* The poll loop: accept, then the connections with something to read, in  *)
(* slot order.  A connection marked closing is read but not obeyed.        *)

InLoop == phase = "io" /\ ~pairing
Read(c) == InLoop /\ at = c /\ conns[c].state # "free"
Heard(c) == Read(c) /\ c \notin closing

\* accept_conns: a client beyond the last free slot is turned away.
Accept ==
  /\ InLoop /\ at = 0
  /\ \E c \in Conns :
       /\ FirstOf(c, InState("free"))
       /\ conns' = [conns EXCEPT ![c] = [FreeConn EXCEPT !.state = "connected"]]
       /\ closing' = closing \ {c}
       /\ connDue' = connDue \ {c}
  /\ UNCHANGED <<loop, ahead, matches, lastEnd, matchDue>>

ReadNext ==
  /\ InLoop
  /\ \E c \in Conns : c > at /\ conns[c].state # "free" /\ at' = c
  /\ lastEnd' = NoEnd
  /\ UNCHANGED <<phase, pairing, conns, closing, ahead, matches, connDue, matchDue>>

\* A well-formed HELLO; without authentication it is answered by WELCOME.
Hello(c, kind) ==
  /\ Heard(c) /\ conns[c].state = "connected"
  /\ conns' = [conns EXCEPT ![c].state = "ready", ![c].kind = kind]
  /\ connDue' = connDue \ {c}
  /\ SendTo({c})
  /\ UNCHANGED <<loop, ahead, matches, lastEnd, matchDue>>

\* QUEUE: enter_queue, and then try_pair.
Queue(c) ==
  /\ Heard(c) /\ conns[c].state = "ready"
  /\ conns' = [conns EXCEPT ![c].state = "queued"]
  /\ ahead' = ahead \cup (InState("queued") \X {c})
  /\ connDue' = connDue \ {c}
  /\ SendTo({c})
  /\ pairing' = TRUE
  /\ UNCHANGED <<phase, at, matches, lastEnd, matchDue>>

\* READY: the match is found through c->match and c->seat, unchecked.
Ready(c) ==
  LET m  == conns[c].match
      mt == [matches[m] EXCEPT !.ready[conns[c].seat] = TRUE]
  IN /\ Heard(c) /\ conns[c].state = "packing"
     /\ IF PackingOver(mt, m)
        THEN StartCombat(m, mt)
        ELSE /\ matches' = [matches EXCEPT ![m] = mt]
             /\ UNCHANGED <<conns, closing, matchDue>>
     /\ UNCHANGED <<loop, ahead, lastEnd, connDue>>

\* ROUND_CALL: once both seats have called the break is resolved at once.  Its
\* deadline is not looked at.
RoundCall(c, call) ==
  LET m  == conns[c].match
      mt == Called(matches[m], conns[c].seat, call)
  IN /\ Heard(c) /\ conns[c].state = "combat"
     /\ matches[m].active /\ matches[m].break
     /\ IF \A s \in Seats : mt.call[s] # NoCall
        THEN ResolveBreak(m, mt)
        ELSE /\ matches' = [matches EXCEPT ![m] = mt]
             /\ UNCHANGED <<closing, matchDue>>
     /\ UNCHANGED <<loop, conns, ahead, lastEnd, connDue>>

\* LEAVE, once the connection has said who it is.
Leave(c) ==
  /\ Heard(c) /\ conns[c].state # "connected"
  /\ Quit(c, "ready")
  /\ UNCHANGED loop

\* Any message its connection's state does not allow, or that does not decode,
\* is answered by ERROR; the connection is dropped by the next sweep.  A reply
\* or a pending flush that cannot be sent ends the same way.
Refuse(c) ==
  /\ Heard(c)
  /\ closing' = closing \cup {c} /\ Cardinality(closing') <= MaxDrops
  /\ UNCHANGED <<loop, conns, ahead, matches, lastEnd, connDue, matchDue>>

\* The peer closed the socket, or it failed.
Disconnect(c) ==
  /\ Read(c)
  /\ Quit(c, "free")
  /\ UNCHANGED loop

ReadsOver ==
  /\ InLoop
  /\ phase' = "sweep" /\ at' = 1
  /\ lastEnd' = NoEnd
  /\ UNCHANGED <<pairing, conns, closing, ahead, matches, connDue, matchDue>>

-----------------------------------------------------------------------------
(* The rest of the iteration: the sweep of the connections to be closed,   *)
(* and expire_timers.                                                      *)

\* Mutant: the sweep skips the first slot.
DoomedAfterFirst ==
  {c \in Conns : c >= at /\ c > 1 /\ c \in closing /\ conns[c].state # "free"}

Doomed == {c \in Conns : c >= at /\ c \in closing /\ conns[c].state # "free"}

Sweep ==
  /\ phase = "sweep"
  /\ \E c \in Conns : FirstOf(c, Doomed) /\ Quit(c, "free") /\ at' = c + 1
  /\ UNCHANGED <<phase, pairing>>

\* Mutant: expire_timers does not try to pair.
SweepOverUnpaired ==
  /\ phase = "sweep" /\ Doomed = {}
  /\ phase' = "hello" /\ at' = 0 /\ lastEnd' = NoEnd
  /\ UNCHANGED <<pairing, conns, closing, ahead, matches, connDue, matchDue>>

\* expire_timers begins with try_pair.
SweepOver ==
  /\ phase = "sweep" /\ Doomed = {}
  /\ phase' = "hello" /\ at' = 0 /\ pairing' = TRUE
  /\ lastEnd' = NoEnd
  /\ UNCHANGED <<conns, closing, ahead, matches, connDue, matchDue>>

\* Connections that never said HELLO are closed; they are in no match.
ExpireHellos ==
  LET silent == InState("connected") \cap connDue
  IN /\ phase = "hello" /\ ~pairing
     /\ phase' = "matches" /\ at' = 1
     /\ conns' = [c \in Conns |-> IF c \in silent THEN FreeConn ELSE conns[c]]
     /\ closing' = closing \ silent
     /\ connDue' = connDue \ silent
     /\ lastEnd' = NoEnd
     /\ UNCHANGED <<pairing, ahead, matches, matchDue>>

\* One match slot: at most one of its deadlines is looked at.
ExpireMatch(m) ==
  LET mt == matches[m]
  IN /\ phase = "matches" /\ at = m
     /\ \/ /\ mt.active => IF mt.started THEN m \notin matchDue
                                         ELSE ~PackingOver(mt, m)
           /\ lastEnd' = NoEnd
           /\ UNCHANGED <<conns, closing, matches, matchDue>>
        \/ /\ mt.active /\ PackingOver(mt, m)
           /\ StartCombat(m, mt)
           /\ lastEnd' = NoEnd
        \/ /\ mt.active /\ m \in matchDue /\ mt.started /\ mt.break
           /\ ResolveBreak(m, mt)
           /\ lastEnd' = NoEnd
           /\ UNCHANGED conns
        \/ /\ mt.active /\ m \in matchDue /\ mt.started /\ ~mt.break
           /\ RunTick(m)
     /\ IF m = MaxMatches THEN phase' = "io" /\ at' = 0
                          ELSE phase' = phase /\ at' = m + 1
     /\ UNCHANGED <<pairing, ahead, connDue>>

-----------------------------------------------------------------------------
(* Time, the stop signal, and the shutdown after the loop.                 *)

\* A connection's one timer: for its HELLO, or for another human.
ConnTimer(c) ==
  /\ phase \notin {"stopping", "stopped"}
  /\ \/ conns[c].state = "connected"
     \/ conns[c].state = "queued" /\ conns[c].kind = "human"
  /\ connDue' = connDue \cup {c}
  /\ UNCHANGED <<loop, conns, closing, ahead, matches, lastEnd, matchDue>>

\* A match's one timer: for packing, for the round break, or for the tick.
MatchTimer(m) ==
  /\ phase \notin {"stopping", "stopped"}
  /\ matches[m].active
  /\ matchDue' = matchDue \cup {m}
  /\ UNCHANGED <<loop, conns, closing, ahead, matches, lastEnd, connDue>>

\* SIGINT or SIGTERM, seen at the head of the loop.
Stop ==
  /\ InLoop /\ at = 0
  /\ phase' = "stopping" /\ at' = 1
  /\ lastEnd' = NoEnd
  /\ UNCHANGED <<pairing, conns, closing, ahead, matches, connDue, matchDue>>

StopMatch(m) ==
  /\ phase = "stopping" /\ at = m
  /\ IF m \notin FreeMatches
     THEN /\ EndMatch(m, matches[m], "server")
          /\ conns' = Released(Players(m))
          /\ SendTo(Players(m))
     ELSE lastEnd' = NoEnd /\ UNCHANGED <<matches, conns, matchDue, closing>>
  /\ at' = m + 1
  /\ UNCHANGED <<phase, pairing, ahead, connDue>>

StopConn ==
  /\ phase = "stopping" /\ at > MaxMatches
  /\ \/ \E c \in Conns : FirstOf(c, Conns \ InState("free")) /\ Quit(c, "free") /\ UNCHANGED phase
     \/ /\ InState("free") = Conns
        /\ phase' = "stopped"
        /\ UNCHANGED <<conns, closing, ahead, matches, lastEnd, connDue, matchDue>>
  /\ UNCHANGED <<at, pairing>>

Stopped == phase = "stopped" /\ UNCHANGED vars

Clients ==
  \/ Accept
  \/ \E c \in Conns :
       \/ \E kind \in Clientele : Hello(c, kind)
       \/ Queue(c)
       \/ Ready(c)
       \/ \E call \in Calls : RoundCall(c, call)
       \/ Leave(c)
       \/ Refuse(c)
       \/ Disconnect(c)

Server ==
  \/ Pair \/ PairingDone
  \/ Sweep \/ SweepOver
  \/ ExpireHellos
  \/ \E m \in Matches : ExpireMatch(m) \/ StopMatch(m)
  \/ StopConn

Clock == (\E c \in Conns : ConnTimer(c)) \/ (\E m \in Matches : MatchTimer(m))

Next == Clients \/ ReadNext \/ ReadsOver \/ Server \/ Clock \/ Stop \/ Stopped

\* The process is scheduled and its clock advances.  One read takes a bounded
\* number of bytes, so the reads of an iteration end, however many of them
\* pair players on the way.
Fairness ==
  /\ WF_vars(Server)
  /\ SF_vars(ReadsOver)
  /\ \A c \in Conns : WF_vars(ConnTimer(c))
  /\ \A m \in Matches : WF_vars(MatchTimer(m))

Spec == Init /\ [][Next]_vars
FairSpec == Spec /\ Fairness

-----------------------------------------------------------------------------
(* Properties.                                                             *)

\* The handlers index matches[c->match] and ship[c->seat] without a check:
\* every connection that packs or fights is the one its active match names in
\* that seat, and an active match's two seats are held by such connections.
MatchesAgree ==
  /\ \A c \in Conns : conns[c].state \in InMatch =>
       LET m == conns[c].match
       IN /\ m \in Matches
          /\ matches[m].active
          /\ matches[m].conn[conns[c].seat] = c
          /\ conns[c].state = IF matches[m].started THEN "combat" ELSE "packing"
  /\ \A m \in Matches : matches[m].active =>
       \A s \in Seats :
         LET c == matches[m].conn[s]
         IN conns[c].state \in InMatch /\ conns[c].match = m /\ conns[c].seat = s

\* start_match has no answer to a full table but to give up: the table is never
\* full when two players are to be paired, whatever ended the matches before.
NoMatchShortage == (\E a, b \in Conns : Picks(a, b)) => FreeMatches # {}

\* Two humans are never left waiting side by side, whoever joined, left, was
\* dropped or came back from a match, and whatever their waits were.
HumansPairAtOnce ==
  ~pairing => \A a, b \in QueuedOf("human") : a = b

\* Nobody waits for a deadline alone: packing goes on only for a seat that is
\* not ready, and a round break only for a seat that has not called.
NoIdleWait ==
  \A m \in Matches : matches[m].active =>
    /\ ~matches[m].started => \E s \in Seats : ~matches[m].ready[s]
    /\ matches[m].break => \E s \in Seats : matches[m].call[s] = NoCall

\* A match whose ship is destroyed ends with that second.  The one exception is
\* a missed Overcharge, which destroys its own ship between two seconds: such a
\* match stands at a round's boundary, its break over, waiting for the tick.
\* Breaks open between rounds only, over two living ships.
DeadShipsEndMatches ==
  \A m \in Matches : matches[m].active =>
    LET mt == matches[m]
        boundary == mt.started /\ mt.elapsed \in 1 .. TimeoutTicks - 1
                               /\ mt.elapsed % RoundTicks = 0
        dead == \E s \in Seats : mt.hull[s] = 0
    IN /\ mt.break => boundary /\ ~dead
       /\ dead => boundary /\ ~mt.break

\* The verdict is the ships': a winner's is alive, two wrecks tie, "hull" means a
\* wreck and "timeout" two living ships of which the better one does not lose.
VerdictIsShips ==
  LET h == lastEnd.hull
      r == lastEnd.result
      dead == {s \in Seats : h[s] = 0}
  IN lastEnd # NoEnd =>
       /\ \A s \in Seats : r[s] = "win" => s \notin dead /\ r[1 - s] = "loss"
       /\ dead = Seats <=> (r[0] = "tie" /\ dead # {})
       /\ lastEnd.reason = "hull" => dead # {}
       /\ lastEnd.reason = "timeout" =>
            dead = {} /\ \A s \in Seats : r[s] = "loss" => h[s] <= h[1 - s]

\* Shutting down tells every player the server ended the match: no match is
\* still there for a closing connection to forfeit.
ShutdownForfeitsNothing ==
  phase \in {"stopping", "stopped"} /\ lastEnd # NoEnd => lastEnd.reason = "server"

\* Matches end when they should and as they should, whatever ends them: a second, a
\* break, a forfeit after a backfire, or the server.
EndsAreJust == VerdictIsShips /\ DeadShipsEndMatches /\ ShutdownForfeitsNothing

\* First come, first served among players of a kind: nobody is paired while an
\* earlier one goes on waiting.
NoOvertaking ==
  [][\A p \in ahead :
       /\ conns[p[1]].kind = conns[p[2]].kind
       /\ conns[p[2]].state = "queued" /\ conns'[p[2]].state = "packing"
       => conns'[p[1]].state # "queued"]_vars

\* "a late-joining human always finds a bot": pairing never takes the last
\* waiting bots but for a human.
BotKeptForHumans ==
  [][pairing /\ QueuedOf("bot") # {} /\ QueuedOf("bot")' = {} =>
       \E c \in QueuedOf("human") : conns'[c].state = "packing"]_vars

\* "Disconnect mid-packing or mid-combat is a real forfeit (opponent wins)":
\* when a player of two living ships is gone, the other seat has won.
SurvivorWins ==
  [][\A c \in Conns :
       LET m == conns[c].match
       IN /\ conns[c].state \in InMatch /\ conns'[c].state = "free"
          /\ \A s \in Seats : matches[m].hull[s] > 0
          => lastEnd'.result[1 - conns[c].seat] = "win"]_vars

\* No player hangs in a match: packing, every second and every break end.
MatchesEnd ==
  \A c \in Conns : conns[c].state \in InMatch ~> conns[c].state \notin InMatch

\* A human does not wait for ever beside a waiting bot.
HumansGetBots ==
  \A c \in Conns : []<>~(c \in QueuedOf("human") /\ QueuedOf("bot") # {})

\* A connection that was dropped is closed.
DroppedAreClosed == \A c \in Conns : c \in closing ~> c \notin closing

=============================================================================
