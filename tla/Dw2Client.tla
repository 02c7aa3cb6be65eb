------------------------------- MODULE Dw2Client ------------------------------
(***************************************************************************)
(* The game client, apps/client/main.c, from its HELLO to the end of its   *)
(* match, against what the match server does with its connection           *)
(* (apps/server/main.c).  The two are joined by one queue of messages in   *)
(* each direction; the opponent, time and the player's keys are free.      *)
(*                                                                         *)
(* Whole messages arrive (Dw2Wire has the bytes), and what the client only *)
(* shows is left out.  A ship is the set of its parts, and what keeps one  *)
(* part from being placed beside another (Dw2Pack) is the relation Clash.  *)
(***************************************************************************)
EXTENDS Integers, Sequences, FiniteSets, SequencesExt

CONSTANTS
  Parts,         \* what the player may place
  Clash,         \* the pairs of parts that cannot be on one ship
  Script,        \* the parts that --selftest places
  Setups,        \* the kinds of session: see Setup
  RoundTicks,    \* DW2_ROUND_TICKS
  TimeoutTicks,  \* DW2_MATCH_TIMEOUT_TICKS
  Window         \* a bound of the model: requests under way at the same time

\* Whether the server asks for a token, the client has one, and plays by itself.
Setup == [auth : BOOLEAN, token : BOOLEAN, selftest : BOOLEAN]

ASSUME ClientAssumption ==
  /\ Clash \subseteq Parts \X Parts /\ \A p \in Parts : <<p, p>> \notin Clash
  /\ Script \in Seq(Parts) /\ Setups \subseteq Setup
  /\ RoundTicks \in Nat \ {0} /\ TimeoutTicks \in Nat \ {0} /\ Window \in Nat \ {0}

VARIABLES
  setup,    \* of this session
  me,       \* the client
  srv,      \* the server's side of its connection
  match,    \* their match
  up, down  \* what is under way to the server and to the client

vars == <<setup, me, srv, match, up, down>>

\* The phases of the handshake, then ClientState; "gone" once the program has ended.
ClientStates == {"probe", "greet", "queued", "packing", "combat", "done", "error", "gone"}
ServerStates == {"connected", "needauth", "verifying", "ready", "queued", "packing",
                 "combat", "closed"}
InLoop       == {"queued", "packing", "combat", "done", "error"}
InMatch      == {"packing", "combat"}

Requests == [type : {"HELLO", "AUTH", "QUEUE", "READY", "CALL"}] \cup
            [type : {"PLACE"}, part : Parts]
Replies  == {"WELCOME", "QUEUED", "FOUND", "ACK", "REJECT", "START", "TICK", "BREAK",
             "RESULT", "END", "ERROR", "EOF"}

Req(type)     == [type |-> type]
PlaceReq(p)   == [type |-> "PLACE", part |-> p]

\* dw2_ship_place, as both sides run it.
Legal(ship, p) == p \notin ship /\ \A q \in ship : <<p, q>> \notin Clash /\ <<q, p>> \notin Clash

\* The match as start_match makes it; seat 0 is this client's.
NewMatch == [ready |-> {}, called |-> {}, open |-> FALSE, ticks |-> 0]

Init ==
  /\ setup \in Setups
  /\ me = [state |-> IF setup.token THEN "probe" ELSE "greet",
           ship |-> {}, ready |-> FALSE, asked |-> FALSE, selftest |-> setup.selftest]
  /\ srv = [state |-> "connected", ship |-> {}, closing |-> FALSE]
  /\ match = NewMatch
  /\ up = <<Req("HELLO")>> /\ down = <<>>

-----------------------------------------------------------------------------
(* The client.                                                             *)

\* Mutant: what the client's own copy of the ship refuses is laid on it anyway.
TryPlaceAnyway(p) ==
  /\ me' = [me EXCEPT !.ship = @ \cup {p}]
  /\ up' = Append(up, PlaceReq(p))
  /\ UNCHANGED <<setup, srv, match, down>>

\* try_place: what the client's own copy of the ship refuses is not sent.
TryPlace(p) ==
  /\ IF Legal(me.ship, p)
     THEN /\ me' = [me EXCEPT !.ship = @ \cup {p}]
          /\ up' = Append(up, PlaceReq(p))
     ELSE UNCHANGED <<me, up>>
  /\ UNCHANGED <<setup, srv, match, down>>

\* The self-test's script through try_place, part by part: the ship, and what is sent.
Tried ==
  LET tried[i \in 0 .. Len(Script)] ==
        IF i = 0 THEN [ship |-> {}, sent |-> <<>>]
        ELSE IF Legal(tried[i - 1].ship, Script[i])
             THEN [ship |-> tried[i - 1].ship \cup {Script[i]},
                   sent |-> Append(tried[i - 1].sent, PlaceReq(Script[i]))]
             ELSE tried[i - 1]
  IN tried[Len(Script)]

\* What handle_server_msg makes of a message; a self-test packs, and is ready, at once.
OnMsg(c, msg) ==
  CASE msg = "FOUND"  -> [c EXCEPT !.state = "packing",
                                   !.ship  = IF c.selftest THEN Tried.ship ELSE {},
                                   !.ready = c.selftest]
    [] msg = "START"  -> [c EXCEPT !.state = "combat"]
    [] msg = "BREAK"  -> [c EXCEPT !.asked = TRUE]
    [] msg = "RESULT" -> [c EXCEPT !.asked = FALSE]
    [] msg = "END"    -> [c EXCEPT !.state = "done"]
    [] msg = "ERROR"  -> IF c.state = "queued" THEN [c EXCEPT !.state = "error"] ELSE c
    [] OTHER          -> c

\* What it makes of one message after the other.
OnMsgs(c, msgs) ==
  LET after[i \in 0 .. Len(msgs)] == IF i = 0 THEN c ELSE OnMsg(after[i - 1], msgs[i])
  IN after[Len(msgs)]

Sent(msgs) ==
  IF me.selftest /\ Contains(msgs, "FOUND") THEN Append(Tried.sent, Req("READY")) ELSE <<>>

\* poll_incoming: all that has arrived is read before any of it is handled, and
\* not handled if the connection has ended behind it.
Poll(n) ==
  /\ me.state \in InLoop /\ n \in 1 .. Len(down)
  /\ LET msgs == SubSeq(down, 1, n)
     IN IF Contains(msgs, "EOF")
        THEN me' = [me EXCEPT !.state = "error"] /\ UNCHANGED up
        ELSE me' = OnMsgs(me, msgs) /\ up' = up \o Sent(msgs)
  /\ down' = SubSeq(down, n + 1, Len(down))
  /\ UNCHANGED <<setup, srv, match>>

\* handle_key.  What can be done depends on nothing but what the client knows.
Playing(state) == me.state = state /\ ~me.selftest /\ Len(up) < Window

KeyPlace == \E p \in Parts : Playing("packing") /\ ~me.ready /\ TryPlace(p)

KeyReady ==
  /\ Playing("packing") /\ ~me.ready
  /\ me' = [me EXCEPT !.ready = TRUE] /\ up' = Append(up, Req("READY"))
  /\ UNCHANGED <<setup, srv, match, down>>

KeyCall ==
  /\ Playing("combat") /\ me.asked
  /\ me' = [me EXCEPT !.asked = FALSE] /\ up' = Append(up, Req("CALL"))
  /\ UNCHANGED <<setup, srv, match, down>>

\* The player leaves, or a self-test that is over does, or a send finds the
\* connection closed.
Quit ==
  /\ me.state \in InLoop
  /\ me' = [me EXCEPT !.state = "gone"]
  /\ UNCHANGED <<setup, srv, match, up, down>>

\* The handshake.  A token is sent after half a second of silence.
SendAuth == me' = [me EXCEPT !.state = "greet"] /\ up' = Append(up, Req("AUTH"))

Probe ==
  /\ me.state = "probe"
  /\ SendAuth
  /\ down' = IF down # <<>> /\ Head(down) = "EOF" THEN <<"EOF">> ELSE down
  /\ UNCHANGED <<setup, srv, match>>

Die == me' = [me EXCEPT !.state = "gone"] /\ UNCHANGED up

NoResponse ==
  /\ me.state = "greet" /\ Die
  /\ UNCHANGED <<setup, srv, match, down>>

Greeted ==
  /\ me.state \in {"probe", "greet"} /\ down # <<>> /\ Head(down) # "EOF"
  /\ IF Head(down) = "WELCOME"
     THEN me' = [me EXCEPT !.state = "queued"] /\ up' = Append(up, Req("QUEUE"))
     ELSE Die
  /\ down' = Tail(down)
  /\ UNCHANGED <<setup, srv, match>>

-----------------------------------------------------------------------------
(* The server's handlers of this connection.                               *)

Say(msgs) == down' = down \o msgs

\* send_error
Refuse ==
  /\ srv' = [srv EXCEPT !.closing = TRUE] /\ Say(<<"ERROR">>) /\ UNCHANGED match

\* start_combat_if_ready, once it starts.
StartCombat(ready) ==
  /\ match' = [match EXCEPT !.ready = ready]
  /\ srv' = [srv EXCEPT !.state = "combat"] /\ Say(<<"START">>)

\* resolve_round_break
Resolve ==
  /\ match' = [match EXCEPT !.open = FALSE, !.called = {}]
  /\ Say(<<"RESULT">>) /\ UNCHANGED srv

ReadyFrom(seat) ==
  IF match.ready \cup {seat} = {0, 1} THEN StartCombat({0, 1})
  ELSE match' = [match EXCEPT !.ready = @ \cup {seat}] /\ UNCHANGED <<srv, down>>

CallFrom(seat) ==
  IF match.called \cup {seat} = {0, 1} THEN Resolve
  ELSE match' = [match EXCEPT !.called = @ \cup {seat}] /\ UNCHANGED <<srv, down>>

\* handle_place
PlaceFrom(p) ==
  /\ IF srv.state = "packing" /\ Legal(srv.ship, p)
     THEN srv' = [srv EXCEPT !.ship = @ \cup {p}] /\ Say(<<"ACK">>)
     ELSE UNCHANGED srv /\ Say(<<"REJECT">>)
  /\ UNCHANGED match

\* handle_msg
OnRequest(m) ==
  CASE m.type = "HELLO" /\ srv.state = "connected" ->
         /\ IF setup.auth THEN srv' = [srv EXCEPT !.state = "needauth"] /\ UNCHANGED down
            ELSE srv' = [srv EXCEPT !.state = "ready"] /\ Say(<<"WELCOME">>)
         /\ UNCHANGED match
    [] m.type = "AUTH" /\ srv.state = "needauth" ->
         srv' = [srv EXCEPT !.state = "verifying"] /\ UNCHANGED <<down, match>>
    [] m.type = "QUEUE" /\ srv.state = "ready" ->
         srv' = [srv EXCEPT !.state = "queued"] /\ Say(<<"QUEUED">>) /\ UNCHANGED match
    [] m.type = "PLACE" -> PlaceFrom(m.part)
    [] m.type = "READY" /\ srv.state = "packing" -> ReadyFrom(0)
    [] m.type = "CALL" /\ srv.state = "combat" /\ match.open -> CallFrom(0)
    [] OTHER -> Refuse

Handle ==
  /\ up # <<>> /\ srv.state # "closed" /\ ~srv.closing
  /\ OnRequest(Head(up)) /\ up' = Tail(up)
  /\ UNCHANGED <<setup, me>>

\* verify_done
Verified ==
  /\ srv.state = "verifying" /\ ~srv.closing
  /\ \/ srv' = [srv EXCEPT !.state = "ready"] /\ Say(<<"WELCOME">>) /\ UNCHANGED match
     \/ Refuse
  /\ UNCHANGED <<setup, me, up>>

\* try_pair and start_match; a connection that is to be closed may be paired too.
Pair ==
  /\ srv.state = "queued"
  /\ srv' = [srv EXCEPT !.state = "packing", !.ship = {}] /\ Say(<<"FOUND">>)
  /\ match' = NewMatch
  /\ UNCHANGED <<setup, me, up>>

\* end_match
EndMatch == srv' = [srv EXCEPT !.state = "ready"] /\ Say(<<"END">>)

OpponentReady ==
  /\ srv.state = "packing" /\ ReadyFrom(1)
  /\ UNCHANGED <<setup, me, up>>

OpponentCalls ==
  /\ srv.state = "combat" /\ match.open /\ CallFrom(1)
  /\ UNCHANGED <<setup, me, up>>

OpponentLeaves ==
  /\ srv.state \in InMatch /\ EndMatch
  /\ UNCHANGED <<setup, me, up, match>>

\* Mutant: the packing clock never runs out.
NoPackDeadline ==
  /\ srv.state = "packing" /\ match.ready = {0, 1} /\ StartCombat(match.ready)
  /\ UNCHANGED <<setup, me, up>>

\* expire_timers: the packing clock has run out.
PackDeadline ==
  /\ srv.state = "packing" /\ StartCombat(match.ready)
  /\ UNCHANGED <<setup, me, up>>

BreakDeadline ==
  /\ srv.state = "combat" /\ match.open /\ Resolve
  /\ UNCHANGED <<setup, me, up>>

\* run_tick: a second of combat, that ends the match or may open a break.
RunTick ==
  /\ srv.state = "combat" /\ ~match.open
  /\ LET t     == match.ticks + 1
         opens == t % RoundTicks = 0
     IN \/ /\ srv' = [srv EXCEPT !.state = "ready"] /\ Say(<<"TICK", "END">>)
           /\ match' = [match EXCEPT !.ticks = t]
        \/ /\ t < TimeoutTicks /\ UNCHANGED srv
           /\ match' = [match EXCEPT !.ticks = t, !.open = opens]
           /\ Say(IF opens THEN <<"TICK", "BREAK">> ELSE <<"TICK">>)
  /\ UNCHANGED <<setup, me, up>>

\* conn_close, after an error, after the client has gone, or when a client that
\* has not said who it is has had its ten seconds.
Close ==
  /\ srv.state # "closed"
  /\ \/ srv.closing
     \/ me.state = "gone" /\ up = <<>>
     \/ srv.state \in {"connected", "needauth", "verifying"}
  /\ srv' = [srv EXCEPT !.state = "closed"]
  /\ Say(IF srv.state \in InMatch THEN <<"END", "EOF">> ELSE <<"EOF">>)
  /\ UNCHANGED <<setup, me, up, match>>

\* The end of main: matches are ended first, then connections closed.
Shutdown ==
  /\ srv.state # "closed"
  /\ srv' = [srv EXCEPT !.state = "closed"]
  /\ Say(IF srv.state \in InMatch THEN <<"END", "EOF">> ELSE <<"EOF">>)
  /\ UNCHANGED <<setup, me, up, match>>

-----------------------------------------------------------------------------

Keys   == KeyPlace \/ KeyReady \/ KeyCall \/ Quit
Client == Keys \/ (\E n \in 1 .. Len(down) : Poll(n)) \/ Probe \/ NoResponse \/ Greeted
Timers == PackDeadline \/ BreakDeadline \/ RunTick
Rival  == OpponentReady \/ OpponentCalls \/ OpponentLeaves
Server == Handle \/ Verified \/ Pair \/ Close \/ Shutdown

Next == Client \/ Timers \/ Rival \/ Server
Spec == Init /\ [][Next]_vars

\* The loops of both programs come round, and deadlines pass.
FairSpec ==
  /\ Spec
  /\ WF_vars(\E n \in 1 .. Len(down) : Poll(n))
  /\ WF_vars(Handle) /\ WF_vars(PackDeadline) /\ WF_vars(BreakDeadline) /\ WF_vars(RunTick)
-----------------------------------------------------------------------------
(* Properties.                                                             *)

ClientTypeOK ==
  /\ setup \in Setups
  /\ me.state \in ClientStates /\ me.ship \subseteq Parts
  /\ me.ready \in BOOLEAN /\ me.asked \in BOOLEAN /\ me.selftest = setup.selftest
  /\ srv.state \in ServerStates /\ srv.ship \subseteq Parts /\ srv.closing \in BOOLEAN
  /\ match.ready \subseteq {0, 1} /\ match.called \subseteq {0, 1}
  /\ match.open \in BOOLEAN /\ match.ticks \in 0 .. TimeoutTicks
  /\ ToSet(up) \subseteq Requests /\ ToSet(down) \subseteq Replies

PartsIn(msgs) == {msgs[i].part : i \in {j \in DOMAIN msgs : msgs[j].type = "PLACE"}}

\* While both sides pack, the ship the player sees is the server's, with the parts
\* that are under way to it; and they can all be placed when they get there.
MirrorAgrees ==
  srv.state = "packing" /\ me.state = "packing" =>
    /\ me.ship = srv.ship \cup PartsIn(up)
    /\ \A p, q \in me.ship : <<p, q>> \notin Clash
    /\ srv.ship \cap PartsIn(up) = {}

\* What the client will be once it has read what is under way to it.
View == OnMsgs(me, down)

\* The two never lose each other: until the server closes, what the client will
\* make of the messages under way is what the server has it as, and a break the
\* server has open is one the player may still answer, or has.
SidesAgree ==
  me.state \in InLoop /\ srv.state # "closed" /\ ~srv.closing =>
    /\ srv.state \in {"queued"} \cup InMatch => View.state = srv.state
    /\ srv.state = "combat" =>
         /\ match.open => View.asked \/ Req("CALL") \in ToSet(up) \/ 0 \in match.called
         /\ View.asked => match.open

\* A player who has been dealt a match comes to the end of it, one way or other.
PlayersGetOut == me.state = "packing" ~> me.state \in {"done", "error", "gone"}

\* "local prediction and the server's own authoritative check always agree"
\* (apps/client/main.c).
PredictionAgrees == \A i \in DOMAIN down : down[i] # "REJECT"

Refused(type) == ~srv.closing /\ srv'.closing /\ up # <<>> /\ Head(up).type = type

\* "no reply means the server is silently waiting in S_NEEDAUTH"
\* (apps/client/main.c), so a server without authentication is sent no AUTH.
ProbeTells == [][~(~setup.auth /\ Refused("AUTH"))]_vars

\* A seat whose call has not come by the deadline has made "a no-call graded
\* DW2_GRADE_NONE with a neutral effect" (apps/server/main.c): one that comes
\* later in the fight is not what ends it.
LateIsNeutral == [][~(Refused("CALL") /\ srv.state = "combat")]_vars

\* "see the result" (apps/client/main.c): a client that has been told how its match
\* ended does not lose it.
ResultIsSeen ==
  [][me.state \in InMatch /\ me'.state = "error" => ~Contains(down, "END")]_vars
=============================================================================
