------------------------------- MODULE Dw2Tester ------------------------------
(***************************************************************************)
(* The scripted client of the smoke tests, tools/dw2_test_client.c, in     *)
(* front of the server of Dw2Client: one request at a time until READY,    *)
(* each waiting for its answer, then whatever the server sends until the   *)
(* match ends.  It presses a call only in the breaks it was told to, and   *)
(* sleeps, reading nothing, until it is time to.                           *)
(***************************************************************************)
EXTENDS Dw2Client

CONSTANTS
  Places,  \* the parts of its --place arguments
  Cuts,    \* how many --cut arguments
  Calls    \* the round breaks with a --round-call

ASSUME TesterAssumption == Places \in Seq(Parts) /\ Cuts \in Nat /\ Calls \subseteq Nat

\* What each of its waits takes; any other message ends it with exit code 1.
Expected ==
  [welcome |-> {"WELCOME"}, queue |-> {"QUEUED"}, found |-> {"FOUND"},
   place |-> {"ACK", "REJECT"}, cut |-> {"CUTREJECT"},
   play |-> {"START", "TICK", "BREAK", "RESULT", "END"}]

Waiting == me.state \in DOMAIN Expected

Orders == [i \in DOMAIN Places |-> PlaceReq(Places[i])] \o [i \in 1 .. Cuts |-> Req("CUT")]

TInit ==
  /\ setup \in Setups
  /\ me = [state |-> "welcome", todo |-> Orders, round |-> 0, called |-> 0, exit |-> -1]
  /\ srv = [state |-> "connected", ship |-> {}, closing |-> FALSE]
  /\ match = NewMatch
  /\ up = <<Req("HELLO")>> /\ down = <<>>

Exit(code) == me' = [me EXCEPT !.state = "gone", !.exit = code] /\ UNCHANGED up

\* The next --place or --cut, then READY.
Continue ==
  IF me.todo = <<>>
  THEN me' = [me EXCEPT !.state = "play"] /\ up' = Append(up, Req("READY"))
  ELSE /\ me' = [me EXCEPT !.todo = Tail(@),
                           !.state = IF Head(me.todo).type = "PLACE" THEN "place" ELSE "cut"]
       /\ up' = Append(up, Head(me.todo))

Played(msg) ==
  CASE msg = "END"   -> Exit(0)
    [] msg = "BREAK" ->
         /\ me' = [me EXCEPT !.round = @ + 1,
                             !.state = IF me.round + 1 \in Calls THEN "aim" ELSE @]
         /\ UNCHANGED up
    [] OTHER -> UNCHANGED <<me, up>>

\* recv_msg, and what main does with the message.
Read ==
  /\ Waiting /\ down # <<>> /\ down' = Tail(down)
  /\ IF Head(down) \notin Expected[me.state] THEN Exit(1)
     ELSE CASE me.state = "welcome" ->
                 me' = [me EXCEPT !.state = "queue"] /\ up' = Append(up, Req("QUEUE"))
            [] me.state = "queue" -> me' = [me EXCEPT !.state = "found"] /\ UNCHANGED up
            [] me.state = "play"  -> Played(Head(down))
            [] OTHER              -> Continue
  /\ UNCHANGED <<setup, srv, match>>

\* It has slept until target_ms.
Press ==
  /\ me.state = "aim"
  /\ me' = [me EXCEPT !.state = "play", !.called = me.round] /\ up' = Append(up, Req("CALL"))
  /\ UNCHANGED <<setup, srv, match, down>>

\* A wait has lasted --timeout-ms, or a send found the connection closed.
Fails ==
  /\ me.state # "gone"
  /\ (Waiting /\ down = <<>>) \/ srv.state = "closed"
  /\ Exit(1)
  /\ UNCHANGED <<setup, srv, match, down>>

\* Mutant: a cut is answered only while there is a ship to cut.
AnswerCut_Packing ==
  /\ srv.state # "closed" /\ ~srv.closing /\ up # <<>> /\ Head(up).type = "CUT"
  /\ (IF srv.state = "packing" THEN Say(<<"CUTREJECT">>) ELSE UNCHANGED down) /\ up' = Tail(up)
  /\ UNCHANGED <<setup, me, srv, match>>

\* handle_cut: ruleset 2 has no cut, in any state.
AnswerCut ==
  /\ srv.state # "closed" /\ ~srv.closing /\ up # <<>> /\ Head(up).type = "CUT"
  /\ Say(<<"CUTREJECT">>) /\ up' = Tail(up)
  /\ UNCHANGED <<setup, me, srv, match>>

Answer == AnswerCut \/ (up # <<>> /\ Head(up).type # "CUT" /\ Handle)

TNext == Read \/ Press \/ Fails \/ Answer \/ Pair \/ Timers \/ Rival \/ Close \/ Shutdown
TSpec == TInit /\ [][TNext]_vars

-----------------------------------------------------------------------------
(* Properties.                                                             *)

\* The type invariant.
TesterTypeOK ==
  /\ me.state \in DOMAIN Expected \cup {"aim", "gone"}
  /\ me.round \in 0 .. TimeoutTicks \div RoundTicks /\ me.called \in {0} \cup Calls
  /\ me.exit = (IF me.state = "gone" THEN me.exit ELSE -1) /\ me.exit \in {-1, 0, 1}

Answers == {"ACK", "REJECT", "CUTREJECT"}
Count(msgs, S) == Cardinality({i \in DOMAIN msgs : msgs[i] \in S})

\* tools/dw2_test_client.c sends a request and takes the next message for its
\* answer.  Whatever the deadlines and the opponent do meanwhile, the server answers
\* each PLACE and cut, once, even when the match it was for has begun or is over: so
\* each answer it prints is that of the part it has just asked for.
AnswersMatch ==
  me.state \in {"place", "cut"} => Len(up) + Count(down, Answers) = 1

\* Exit code 0 is a match that the server has ended, and every answer to what was
\* placed was read before it.
ExitIsEarned ==
  me.exit = 0 => srv.state \notin InMatch /\ me.todo = <<>>

\* No wait of one for the other lasts: a tester that has been dealt a match ends,
\* without its timeout, however the opponent plays.
TesterEnds == me.state \in {"place", "cut", "play", "aim"} ~> me.state = "gone"

\* "exits 0 once MATCH_END arrives (nonzero on any protocol/connection error)".
EndIsExitZero ==
  [][Waiting /\ down # <<>> /\ Head(down) = "END" /\ down' = Tail(down) => me'.exit = 0]_vars

\* --round-call "scripts a REAL, timed response for one specific round-break": the
\* break it counts in is that one.
CallsItsBreak ==
  [][/\ "called" \in DOMAIN me
     /\ up # <<>> /\ up' = Tail(up) /\ Head(up) = Req("CALL") /\ ~srv'.closing =>
       match.ticks = me.called * RoundTicks]_vars
=============================================================================
