-------------------------------- MODULE Dw2Bot --------------------------------
(***************************************************************************)
(* The bot pool, apps/bot/main.c, against what the match server does with  *)
(* a bot's connection (apps/server/main.c under --no-auth).                *)
(*                                                                         *)
(* The pool is one thread: it reads each bot, runs its timers, and twice a *)
(* second scales.  Each of these is a step, in any order; a timer is due   *)
(* at any time.  A link is one TCP connection, with the messages under way *)
(* in both directions and the server's state for it; the opponent, human   *)
(* or bot, is the one who makes a match begin, break and end.              *)
(***************************************************************************)
EXTENDS Integers, Sequences, FiniteSets

CONSTANTS
  MinBots, StartBots, MaxBots,  \* --min, --count, --max
  Spare,                        \* --spare
  MaxLinks,    \* a bound of the model: connections that exist at the same time
  Window,      \* messages the buffers hold in either direction
  MaxCuts      \* a bound of the model: connections cut by the server or the network

ASSUME PoolAssumption ==
  /\ MinBots \in Nat \ {0} /\ StartBots \in Nat /\ MaxBots \in Nat
  /\ MinBots <= StartBots /\ StartBots <= MaxBots
  /\ Spare \in Nat /\ MaxLinks \in Nat /\ Window \in Nat \ {0} /\ MaxCuts \in Nat

VARIABLES
  bots,    \* state, link (0 for DW2_BAD_SOCK), retry_at # 0, and what is pending
  quiet,   \* no human has been met for a minute
  calm,    \* nobody was released in the last ten seconds
  links,   \* the connections
  cuts     \* connections cut so far

vars == <<bots, quiet, calm, links, cuts>>

Bots  == 1 .. MaxBots
Links == 1 .. MaxLinks

BotStates == {"down", "hello", "queued", "pack", "combat", "off"}
BotRec    == [state : BotStates, link : 0 .. MaxLinks, retry : BOOLEAN,
              ready : BOOLEAN, call : BOOLEAN]

Requests == {"HELLO", "QUEUE", "PLACE", "READY", "CALL"}
Replies  == {"WELCOME", "FOUND_HUMAN", "FOUND_BOT", "START", "BREAK", "END", "ERROR"}

Found    == {"FOUND_HUMAN", "FOUND_BOT"}

\* The server's state of a connection; "gone" once it has closed its end.
Playing    == {"packing", "combat", "break"}
LinkStates == {"gone", "connected", "ready", "queued"} \cup Playing
LinkRec    == [state : LinkStates, up : Seq(Requests), down : Seq(Replies),
               packed : BOOLEAN, ready : BOOLEAN]
NoLink     == [state |-> "gone", up |-> <<>>, down |-> <<>>, packed |-> FALSE, ready |-> FALSE]

PoolTypeOK ==
  /\ bots \in [Bots -> BotRec]
  /\ \A i \in Bots : (bots[i].link = 0) = (bots[i].state \in {"down", "off"})
  /\ quiet \in BOOLEAN /\ calm \in BOOLEAN
  /\ links \in [Links -> LinkRec]
  /\ cuts \in 0 .. MaxCuts

Init ==
  /\ bots = [i \in Bots |->
       [state |-> IF i <= StartBots THEN "down" ELSE "off", link |-> 0,
        retry |-> i <= StartBots, ready |-> FALSE, call |-> FALSE]]
  /\ quiet = FALSE /\ calm = TRUE
  /\ links = [l \in Links |-> NoLink]
  /\ cuts = 0

-----------------------------------------------------------------------------
(* Sending and dropping.                                                   *)

Open(l)     == links[l].state # "gone"
Attached(l) == \E i \in Bots : bots[i].link = l

Down(b) == [b EXCEPT !.state = "down", !.link = 0]

\* drop: everything is forgotten, and the bot dials again later.
Drop(b) == [Down(b) EXCEPT !.retry = TRUE, !.ready = FALSE, !.call = FALSE]

\* send_msg of bot i, which has become b, over the links ls: the message is
\* under way, once there is room for it; or it is lost, for the server's end
\* has gone; or send() says so and the bot is down, with all it had pending.
Send(i, b, ls, msg) ==
  \/ /\ Open(b.link) /\ Len(links[b.link].up) < Window
     /\ bots' = [bots EXCEPT ![i] = b]
     /\ links' = [ls EXCEPT ![b.link].up = Append(@, msg)]
  \/ /\ ~Open(b.link)
     /\ bots' = [bots EXCEPT ![i] = b] /\ links' = ls
  \/ /\ ~Open(b.link)
     /\ bots' = [bots EXCEPT ![i] = Down(b)]
     /\ links' = [ls EXCEPT ![b.link] = NoLink]

-----------------------------------------------------------------------------
(* read_bot and timers.                                                    *)

\* Mutant: a bot forgets to queue again after a match.
OnMsgDone(b, msg) ==
  CASE msg = "WELCOME" -> [b EXCEPT !.state = "queued"]
    [] msg \in Found   -> [b EXCEPT !.state = "pack", !.ready = TRUE]
    [] msg = "START"   -> [b EXCEPT !.state = "combat", !.ready = FALSE]
    [] msg = "BREAK"   -> [b EXCEPT !.call = TRUE]
    [] msg = "END"     -> [b EXCEPT !.state = "queued", !.ready = FALSE, !.call = FALSE]
    [] msg = "ERROR"   -> Drop(b)

\* on_msg, but for what it sends.
OnMsg(b, msg) ==
  CASE msg = "WELCOME" -> [b EXCEPT !.state = "queued"]
    [] msg \in Found   -> [b EXCEPT !.state = "pack", !.ready = TRUE]
    [] msg = "START"   -> [b EXCEPT !.state = "combat", !.ready = FALSE]
    [] msg = "BREAK"   -> [b EXCEPT !.call = TRUE]
    [] msg = "END"     -> [b EXCEPT !.state = "queued", !.retry = TRUE,
                                    !.ready = FALSE, !.call = FALSE]
    [] msg = "ERROR"   -> Drop(b)

\* read_bot, one message at a time; the PLACEs of a ship are one message.
Receive(i) ==
  /\ bots[i].link # 0 /\ links[bots[i].link].down # <<>>
  /\ LET l    == bots[i].link
         msg  == Head(links[l].down)
         b    == OnMsg(bots[i], msg)
         read == [links EXCEPT ![l].down = Tail(@)]
     IN /\ quiet' = (quiet /\ msg # "FOUND_HUMAN")
        /\ CASE msg = "WELCOME" -> Send(i, b, read, "QUEUE")
             [] msg \in Found   -> Send(i, b, read, "PLACE")
             [] msg = "ERROR"   -> bots' = [bots EXCEPT ![i] = b] /\ links' = [links EXCEPT ![l] = NoLink]
             [] OTHER           -> bots' = [bots EXCEPT ![i] = b] /\ links' = read
  /\ UNCHANGED <<calm, cuts>>

\* read_bot: recv says that the server's end is gone.
HangUp(i) ==
  /\ bots[i].link # 0 /\ ~Open(bots[i].link)
  /\ bots' = [bots EXCEPT ![i] = Drop(@)]
  /\ links' = [links EXCEPT ![bots[i].link] = NoLink]
  /\ UNCHANGED <<quiet, calm, cuts>>

\* Mutant: QUEUE is sent without waiting for WELCOME, and HELLO after it.
DialledEager == [NoLink EXCEPT !.state = "connected", !.up = <<"QUEUE", "HELLO">>]

\* A new connection, with HELLO under way.
Dialled == [NoLink EXCEPT !.state = "connected", !.up = <<"HELLO">>]

\* connect_bot: the server accepts, or it does not.
ConnectBot(i) ==
  /\ bots[i].state = "down"
  /\ \/ \E l \in Links :
          /\ ~Open(l) /\ ~Attached(l)
          /\ bots' = [bots EXCEPT ![i] = [@ EXCEPT !.state = "hello", !.link = l, !.retry = FALSE]]
          /\ links' = [links EXCEPT ![l] = Dialled]
          /\ UNCHANGED cuts
     \/ /\ cuts < MaxCuts /\ cuts' = cuts + 1
        /\ bots' = [bots EXCEPT ![i].retry = TRUE]
        /\ UNCHANGED links
  /\ UNCHANGED <<quiet, calm>>

\* queue_up, after the pause that follows a match.
QueueUp(i) ==
  /\ bots[i].state = "queued" /\ bots[i].retry
  /\ Send(i, [bots[i] EXCEPT !.retry = FALSE], links, "QUEUE")
  /\ UNCHANGED <<quiet, calm, cuts>>

\* What is pending is sent whatever the bot's state; with no socket it is lost.
SendPending(i, b, msg) ==
  /\ bots[i].state # "off"
  /\ IF b.link # 0 THEN Send(i, b, links, msg)
     ELSE bots' = [bots EXCEPT ![i] = b] /\ UNCHANGED links
  /\ UNCHANGED <<quiet, calm, cuts>>

SendReady(i) == bots[i].ready /\ SendPending(i, [bots[i] EXCEPT !.ready = FALSE], "READY")

SendCall(i) == bots[i].call /\ SendPending(i, [bots[i] EXCEPT !.call = FALSE], "CALL")

-----------------------------------------------------------------------------
(* The pool grows while humans come, and shrinks after a quiet spell.      *)

Live == {i \in Bots : bots[i].state # "off"}
Idle == {i \in Bots : bots[i].state \in {"queued", "hello", "down"}}

\* Mutant: the bots that play are counted too.
ShortLive == Cardinality(Live) < Spare

Short == Cardinality(Idle) < Spare

Grow ==
  /\ Short /\ Cardinality(Live) < MaxBots /\ ~quiet
  /\ \E i \in Bots \ Live :
       /\ \A j \in 1 .. i - 1 : j \in Live
       /\ bots' = [bots EXCEPT ![i] = [@ EXCEPT !.state = "down", !.retry = TRUE]]
  /\ UNCHANGED <<quiet, calm, links, cuts>>

\* Mutant: off by one.
SpareLast == Cardinality(Live) >= MinBots

CanSpare == Cardinality(Live) > MinBots

Waiting == {i \in Bots : bots[i].state = "queued" /\ ~bots[i].retry}

\* The last idle bot that waits in the server's queue is let go.
Release ==
  /\ Idle # {} /\ CanSpare /\ quiet /\ calm
  /\ calm' = FALSE
  /\ \/ \E i \in Waiting :
          /\ \A j \in Waiting : j <= i
          /\ bots' = [bots EXCEPT ![i] = [Drop(@) EXCEPT !.state = "off"]]
          /\ links' = IF Open(bots[i].link) THEN links
                      ELSE [links EXCEPT ![bots[i].link] = NoLink]
     \/ Waiting = {} /\ UNCHANGED <<bots, links>>
  /\ UNCHANGED <<quiet, cuts>>

\* Time passes.
Minute == ~quiet /\ quiet' = TRUE /\ UNCHANGED <<bots, calm, links, cuts>>
Spell  == ~calm /\ calm' = TRUE /\ UNCHANGED <<bots, quiet, links, cuts>>

-----------------------------------------------------------------------------
(* The server's side of a connection.                                      *)

\* send_msg, when the connection has come to be k: to a reader that is too
\* slow it is the end.
Say(l, k, msg) ==
  links' = [links EXCEPT ![l] =
    IF Len(k.down) < Window THEN [k EXCEPT !.down = Append(@, msg)]
    ELSE [k EXCEPT !.state = "gone", !.up = <<>>]]

\* send_error, and the sweep after it.
Refuse(l, k) ==
  links' = [links EXCEPT ![l] =
    [k EXCEPT !.state = "gone", !.up = <<>>,
              !.down = IF Len(@) < Window THEN Append(@, "ERROR") ELSE @]]

\* handle_msg, for the messages a bot sends.
Handle(l) ==
  /\ Open(l) /\ links[l].up # <<>>
  /\ LET msg == Head(links[l].up)
         k   == [links[l] EXCEPT !.up = Tail(@)]
     IN \/ /\ msg = "HELLO" /\ k.state = "connected"
           /\ Say(l, [k EXCEPT !.state = "ready"], "WELCOME")
        \/ /\ msg = "QUEUE" /\ k.state = "ready"
           /\ links' = [links EXCEPT ![l] = [k EXCEPT !.state = "queued"]]
        \/ /\ msg = "PLACE"
           /\ links' = [links EXCEPT ![l] =
                [k EXCEPT !.packed = @ \/ k.state = "packing"]]
        \/ /\ msg = "READY" /\ k.state = "packing"
           /\ links' = [links EXCEPT ![l] = [k EXCEPT !.ready = TRUE]]
        \/ /\ msg = "CALL" /\ k.state = "break"
           /\ links' = [links EXCEPT ![l] = k]
        \/ /\ \/ msg = "HELLO" /\ k.state # "connected"
              \/ msg = "QUEUE" /\ k.state # "ready"
              \/ msg = "READY" /\ k.state # "packing"
              \/ msg = "CALL"  /\ k.state # "break"
           /\ Refuse(l, k)
  /\ UNCHANGED <<bots, quiet, calm, cuts>>

\* start_match, with a human or another bot.
Deal(l) ==
  /\ links[l].state = "queued"
  /\ \E found \in Found :
       Say(l, [links[l] EXCEPT !.state = "packing", !.packed = FALSE, !.ready = FALSE], found)
  /\ UNCHANGED <<bots, quiet, calm, cuts>>

\* start_combat_if_ready: the other is ready too, or time is up.
StartCombat(l) ==
  /\ links[l].state = "packing"
  /\ Say(l, [links[l] EXCEPT !.state = "combat"], "START")
  /\ UNCHANGED <<bots, quiet, calm, cuts>>

BeginBreak(l) ==
  /\ links[l].state = "combat"
  /\ Say(l, [links[l] EXCEPT !.state = "break"], "BREAK")
  /\ UNCHANGED <<bots, quiet, calm, cuts>>

ResolveBreak(l) ==
  /\ links[l].state = "break"
  /\ links' = [links EXCEPT ![l].state = "combat"]
  /\ UNCHANGED <<bots, quiet, calm, cuts>>

\* end_match: a result, or the opponent has left.
EndMatch(l) ==
  /\ links[l].state \in Playing
  /\ Say(l, [links[l] EXCEPT !.state = "ready"], "END")
  /\ UNCHANGED <<bots, quiet, calm, cuts>>

\* read_conn, when the bot has closed its end.
BotGone(l) ==
  /\ Open(l) /\ ~Attached(l)
  /\ links' = [links EXCEPT ![l] = NoLink]
  /\ UNCHANGED <<bots, quiet, calm, cuts>>

\* A restart of the server, or a failure of the network.
Cut(l) ==
  /\ Open(l) /\ Attached(l) /\ cuts < MaxCuts
  /\ cuts' = cuts + 1
  /\ links' = [links EXCEPT ![l] = [@ EXCEPT !.state = "gone", !.up = <<>>]]
  /\ UNCHANGED <<bots, quiet, calm>>

Pool(i) == Receive(i) \/ HangUp(i) \/ ConnectBot(i) \/ QueueUp(i) \/ SendReady(i) \/ SendCall(i)

Server(l) ==
  \/ Handle(l) \/ Deal(l) \/ StartCombat(l) \/ BeginBreak(l) \/ ResolveBreak(l)
  \/ EndMatch(l) \/ BotGone(l) \/ Cut(l)

Next ==
  \/ \E i \in Bots : Pool(i)
  \/ Grow \/ Release \/ Minute \/ Spell
  \/ \E l \in Links : Server(l)

Spec == Init /\ [][Next]_vars

\* The pool scales twice a second.
ScalingSpec == Spec /\ WF_vars(Grow)

\* The pool's other steps and the server's reads happen in the end: what a bot
\* has to read is read, what is due is done.  Nobody has to come and play, and
\* no match has to end.
FairSpec ==
  /\ ScalingSpec
  /\ \A i \in Bots :
       /\ WF_vars(Receive(i)) /\ WF_vars(HangUp(i)) /\ WF_vars(ConnectBot(i))
       /\ WF_vars(QueueUp(i)) /\ WF_vars(SendReady(i)) /\ WF_vars(SendCall(i))
  /\ \A l \in Links : WF_vars(Handle(l)) /\ WF_vars(BotGone(l))

-----------------------------------------------------------------------------
(* Properties.                                                             *)

\* The pool never leaves its bounds, whatever fails.
PoolBounds == Cardinality(Live) \in MinBots .. MaxBots

\* Where the messages of S are in q.
Places(q, S) == {n \in 1 .. Len(q) : q[n] \in S}

\* The state of a bot, now b, once it has read q: the last message that moves it
\* decides, and BREAK does not.
Becomes(b, q, state) ==
  \/ Places(q, Replies \ {"BREAK"}) = {} /\ b.state = state
  \/ \E n \in Places(q, Replies \ {"BREAK"}) :
       /\ OnMsg(b, q[n]).state = state
       /\ Places(q, Replies \ {"BREAK"}) \subseteq 1 .. n

\* It will have to ask again: no message settles that.
WillAsk(b, q) == b.retry \/ \E n \in 1 .. Len(q) : OnMsg(b, q[n]).retry

Promised(b, k) ==
  \/ WillAsk(b, k.down)
  \/ Places(k.up, {"QUEUE"}) # {}
  \/ Places(k.down, {"WELCOME"}) # {}

\* Bot b and the server, whose end of their connection is k, do not lose each other.
Agrees(b, k) ==
  CASE k.state = "connected" -> Becomes(b, k.down, "hello") /\ k.up # <<>>
    [] k.state = "ready"     -> Becomes(b, k.down, "queued") /\ Promised(b, k)
    [] k.state = "queued"    -> Becomes(b, k.down, "queued") /\ ~WillAsk(b, k.down)
    [] k.state = "packing"   -> Becomes(b, k.down, "pack")
    [] OTHER                 -> Becomes(b, k.down, "combat")

\* A bot and the server never lose each other: on a connection that is up, what
\* the bot will make of the messages under way is what the server has it as, and
\* a bot that is not in the queue is about to ask for it.
ViewsAgree ==
  \A i \in Bots : bots[i].link # 0 /\ Open(bots[i].link) => Agrees(bots[i], links[bots[i].link])

\* apps/bot/main.c:38-39 says that idle bots are let go: nobody is playing one.
ReleasedAreIdle ==
  [][\A i \in Bots :
       bots[i].state # "off" /\ bots'[i].state = "off" /\ bots[i].link # 0 =>
         links[bots[i].link].state \notin Playing]_vars

\* apps/bot/main.c:2-3 says that a bot packs a strong ship, and then is ready.
PacksFirst == \A l \in Links : links[l].ready => links[l].packed

\* A bot that is not let go is in the queue or in a match again and again.
Serving(i) == bots[i].link # 0 /\ links[bots[i].link].state \in {"queued"} \cup Playing

BotsComeBack == \A i \in Bots : []<>(bots[i].state = "off" \/ Serving(i))

\* The pool does not stay short of idle bots while humans come.
DemandIsMet == []<>(quiet \/ ~(Cardinality(Idle) < Spare) \/ Live = Bots)

===============================================================================
