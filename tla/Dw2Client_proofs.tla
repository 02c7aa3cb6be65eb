--------------------------- MODULE Dw2Client_proofs ---------------------------
(***************************************************************************)
(* Theorems about one seat of a match (Dw2SessionMC), for any parts,       *)
(* clashes, scripts, kinds of session, rounds and timeouts: the game       *)
(* client and the server never lose each other, and the scripted tester's  *)
(* verdicts are right.                                                     *)
(***************************************************************************)
EXTENDS Dw2SessionMC, FiniteSetTheorems, SequenceTheorems, WellFoundedInduction, TLAPS

ServerRec == [state : ServerStates, ship : SUBSET Parts, closing : BOOLEAN]
MatchRec  == [ready : SUBSET {0, 1}, called : SUBSET {0, 1}, open : BOOLEAN,
              ticks : 0 .. TimeoutTicks]

\* The server's side, whoever sits before it: its types, and a match it still
\* plays has time left, and no break while it is packed for.
ServerSound ==
  /\ setup \in Setups /\ srv \in ServerRec /\ match \in MatchRec
  /\ srv.state \in InMatch => match.ticks < TimeoutTicks
  /\ srv.state = "packing" => ~match.open

\* Whoever sits there asks for parts only.
LEMMA PartAsked ==
  ASSUME NEW m \in Requests \cup {Req("CUT")}, m.type = "PLACE"
  PROVE  m.part \in Parts
BY DEF Requests, Req

\* The durations are not zero, and a new match has used none of its own.
LEMMA TicksAre ==
  /\ RoundTicks \in Nat \ {0} /\ TimeoutTicks \in Nat \ {0}
  /\ NewMatch \in MatchRec /\ NewMatch.ticks = 0 /\ NewMatch.open = FALSE
BY ClientAssumption DEF NewMatch, MatchRec

\* What the handlers of a seat and its deadlines leave is as sound as it was.
LEMMA StartKeeps ==
  ASSUME ServerSound, srv.state = "packing", NEW ready \in SUBSET {0, 1},
         StartCombat(ready), setup' = setup
  PROVE  ServerSound' /\ srv'.state = "combat"
BY DEF ServerSound, StartCombat, ServerRec, MatchRec, InMatch, ServerStates

LEMMA ResolveKeeps ==
  ASSUME ServerSound, srv.state = "combat", Resolve, setup' = setup
  PROVE  ServerSound'
BY DEF ServerSound, Resolve, ServerRec, MatchRec, InMatch, ServerStates

LEMMA ReadyKeeps ==
  ASSUME ServerSound, srv.state = "packing", NEW seat \in {0, 1}, ReadyFrom(seat), setup' = setup
  PROVE  ServerSound'
<1>1. CASE match.ready \cup {seat} = {0, 1}
  <2>1. StartCombat({0, 1})
    BY <1>1 DEF ReadyFrom
  <2> QED BY <2>1, StartKeeps
<1>2. CASE match.ready \cup {seat} # {0, 1}
  <2>1. match' = [match EXCEPT !.ready = @ \cup {seat}] /\ srv' = srv
    BY <1>2 DEF ReadyFrom
  <2> QED BY <2>1 DEF ServerSound, MatchRec
<1> QED BY <1>1, <1>2

LEMMA CallKeeps ==
  ASSUME ServerSound, srv.state = "combat", NEW seat \in {0, 1}, CallFrom(seat), setup' = setup
  PROVE  ServerSound'
<1>1. CASE match.called \cup {seat} = {0, 1}
  BY <1>1, ResolveKeeps DEF CallFrom
<1>2. CASE match.called \cup {seat} # {0, 1}
  <2>1. match' = [match EXCEPT !.called = @ \cup {seat}] /\ srv' = srv
    BY <1>2 DEF CallFrom
  <2> QED BY <2>1 DEF ServerSound, MatchRec
<1> QED BY <1>1, <1>2

\* What a request makes of it.
LEMMA HandleKeeps ==
  ASSUME ServerSound, up \in Seq(Requests \cup {Req("CUT")}), Handle
  PROVE  ServerSound'
<1> DEFINE m == Head(up)
<1>1. m \in Requests \cup {Req("CUT")} /\ OnRequest(m) /\ setup' = setup
  BY DEF Handle
<1>2. srv \in ServerRec /\ match \in MatchRec
  BY DEF ServerSound
<1> HIDE DEF m
<1>3. CASE m.type = "HELLO" /\ srv.state = "connected"
  <2>1. match' = match /\ srv' \in {[srv EXCEPT !.state = "needauth"], [srv EXCEPT !.state = "ready"]}
    BY <1>1, <1>3 DEF OnRequest
  <2> QED BY <1>1, <1>2, <2>1 DEF ServerSound, ServerRec, InMatch, ServerStates
<1>4. CASE m.type = "AUTH" /\ srv.state = "needauth"
  <2>1. match' = match /\ srv' = [srv EXCEPT !.state = "verifying"]
    BY <1>1, <1>4 DEF OnRequest
  <2> QED BY <1>1, <1>2, <2>1 DEF ServerSound, ServerRec, InMatch, ServerStates
<1>5. CASE m.type = "QUEUE" /\ srv.state = "ready"
  <2>1. match' = match /\ srv' = [srv EXCEPT !.state = "queued"]
    BY <1>1, <1>5 DEF OnRequest
  <2> QED BY <1>1, <1>2, <2>1 DEF ServerSound, ServerRec, InMatch, ServerStates
<1>6. CASE m.type = "PLACE"
  <2>1. m.part \in Parts
    BY <1>1, <1>6, PartAsked
  <2>2. PlaceFrom(m.part)
    BY <1>1, <1>6 DEF OnRequest
  <2>3. match' = match /\ srv' \in {srv, [srv EXCEPT !.ship = @ \cup {m.part}]}
    BY <2>2 DEF PlaceFrom
  <2> QED BY <1>1, <1>2, <2>1, <2>3 DEF ServerSound, ServerRec
<1>7. CASE m.type = "READY" /\ srv.state = "packing"
  <2>1. ReadyFrom(0)
    BY <1>1, <1>7 DEF OnRequest
  <2> QED BY <1>1, <1>7, <2>1, ReadyKeeps
<1>8. CASE m.type = "CALL" /\ srv.state = "combat" /\ match.open
  <2>1. CallFrom(0)
    BY <1>1, <1>8 DEF OnRequest
  <2> QED BY <1>1, <1>8, <2>1, CallKeeps
<1>9. CASE Refuse
  <2>1. match' = match /\ srv' = [srv EXCEPT !.closing = TRUE]
    BY <1>9 DEF Refuse
  <2> QED BY <1>1, <1>2, <2>1 DEF ServerSound, ServerRec
<1> QED BY <1>1, <1>3, <1>4, <1>5, <1>6, <1>7, <1>8, <1>9 DEF OnRequest

\* A second of combat leaves a match that has time left, or none.
LEMMA TickKeeps == ServerSound /\ RunTick => ServerSound'
<1> SUFFICES ASSUME ServerSound, RunTick
             PROVE  ServerSound'
  OBVIOUS
<1> DEFINE t == match.ticks + 1
<1>1. srv.state = "combat" /\ match.ticks \in 0 .. TimeoutTicks /\ match.ticks < TimeoutTicks
  BY DEF RunTick, ServerSound, MatchRec, InMatch
<1>2. t \in 0 .. TimeoutTicks
  BY <1>1, TicksAre
<1> HIDE DEF t
<1>3. CASE srv' = [srv EXCEPT !.state = "ready"] /\ match' = [match EXCEPT !.ticks = t]
  BY <1>2, <1>3 DEF RunTick, ServerSound, ServerRec, MatchRec, InMatch, ServerStates
<1>4. CASE t < TimeoutTicks /\ srv' = srv
           /\ match' = [match EXCEPT !.ticks = t, !.open = (t % RoundTicks = 0)]
  BY <1>1, <1>2, <1>4 DEF RunTick, ServerSound, ServerRec, MatchRec, InMatch
<1> QED BY <1>3, <1>4 DEF RunTick, t

\* Each step of the server leaves its side of the seat sound.
LEMMA ServerKeeps ==
  ASSUME ServerSound, up \in Seq(Requests \cup {Req("CUT")}),
         Handle \/ AnswerCut \/ Verified \/ Pair \/ Timers \/ Rival \/ Close \/ Shutdown
  PROVE  ServerSound'
<1>0. srv \in ServerRec /\ match \in MatchRec
  BY DEF ServerSound
<1>1. CASE Handle
  BY <1>1, HandleKeeps
<1>2. CASE AnswerCut
  BY <1>2 DEF AnswerCut, ServerSound
<1>3. CASE Verified
  <2>1. srv' \in {[srv EXCEPT !.state = "ready"], [srv EXCEPT !.closing = TRUE]}
        /\ match' = match /\ setup' = setup
    BY <1>3 DEF Verified, Refuse
  <2> QED BY <1>0, <2>1 DEF ServerSound, ServerRec, InMatch, ServerStates
<1>4. CASE Pair
  <2>1. srv' = [srv EXCEPT !.state = "packing", !.ship = {}] /\ match' = NewMatch /\ setup' = setup
    BY <1>4 DEF Pair
  <2>2. srv' \in ServerRec /\ srv'.state = "packing"
    BY <1>0, <2>1 DEF ServerRec, ServerStates
  <2>3. match' \in MatchRec /\ match'.ticks < TimeoutTicks /\ ~match'.open
    BY <2>1, TicksAre
  <2> QED BY <2>1, <2>2, <2>3 DEF ServerSound
<1>5. CASE PackDeadline
  <2>1. match.ready \in SUBSET {0, 1}
    BY <1>0 DEF MatchRec
  <2> QED BY <1>5, <2>1, StartKeeps DEF PackDeadline
<1>6. CASE BreakDeadline
  BY <1>6, ResolveKeeps DEF BreakDeadline
<1>7. CASE RunTick
  BY <1>7, TickKeeps
<1>8. CASE OpponentReady
  BY <1>8, ReadyKeeps DEF OpponentReady
<1>9. CASE OpponentCalls
  BY <1>9, CallKeeps DEF OpponentCalls
<1>10. CASE OpponentLeaves
  BY <1>0, <1>10 DEF OpponentLeaves, EndMatch, ServerSound, ServerRec, InMatch, ServerStates
<1>11. CASE Close \/ Shutdown
  <2>1. srv' = [srv EXCEPT !.state = "closed"] /\ match' = match /\ setup' = setup
    BY <1>11 DEF Close, Shutdown
  <2> QED BY <1>0, <2>1 DEF ServerSound, ServerRec, InMatch, ServerStates
<1> QED BY <1>1, <1>2, <1>3, <1>4, <1>5, <1>6, <1>7, <1>8, <1>9, <1>10, <1>11 DEF Timers, Rival

\* The client's own steps leave the server's side alone.
LEMMA ServerStill == ServerSound /\ UNCHANGED <<setup, srv, match>> => ServerSound'
BY DEF ServerSound

-----------------------------------------------------------------------------
(* The game client.                                                        *)

ClientRec == [state : ClientStates, ship : SUBSET Parts, ready : BOOLEAN, asked : BOOLEAN,
              selftest : BOOLEAN]

Only(msgs, types) == \A i \in DOMAIN msgs : msgs[i].type \in types

\* How far a session is, while the server keeps it and the client runs.
Greeting ==
  /\ me.state \in {"probe", "greet"} /\ ~me.asked /\ Only(up, {"HELLO", "AUTH"})
  /\ \/ srv.state \in {"connected", "needauth", "verifying"} /\ down = <<>>
     \/ srv.state = "ready" /\ down = <<"WELCOME">>

Asking ==
  /\ me.state = "queued" /\ ~me.asked /\ srv.state = "ready" /\ down = <<>>
  /\ \E msgs \in Seq(Requests) : up = Append(msgs, Req("QUEUE")) /\ Only(msgs, {"HELLO", "AUTH"})

InQueue ==
  /\ me.state = "queued" /\ ~me.asked /\ srv.state = "queued"
  /\ down \in {<<"QUEUED">>, <<>>} /\ up = <<>>

Dealt ==
  /\ me.state = "queued" /\ ~me.asked /\ srv.state = "packing" /\ srv.ship = {}
  /\ down \in {<<"QUEUED", "FOUND">>, <<"FOUND">>} /\ up = <<>>

\* No part is asked for twice.
Distinct(msgs) ==
  \A i, j \in DOMAIN msgs :
    msgs[i].type = "PLACE" /\ msgs[j].type = "PLACE" /\ msgs[i].part = msgs[j].part => i = j

Packing ==
  /\ me.state = "packing" /\ ~me.asked /\ srv.state = "packing"
  /\ Only(up, {"PLACE", "READY"}) /\ Distinct(up) /\ \A i \in DOMAIN down : down[i] = "ACK"
  /\ MirrorAgrees

NoQueue == Only(up, {"PLACE", "READY", "CALL"})
NoEnd   == \A i \in DOMAIN down : down[i] # "EOF"

Fighting ==
  /\ me.state \in InLoop /\ srv.state = "combat" /\ NoQueue /\ NoEnd
  /\ View.state = "combat" /\ (View.asked => match.open)
  /\ match.open => (View.asked \/ Req("CALL") \in ToSet(up) \/ 0 \in match.called)

Over == me.state \in InLoop /\ srv.state = "ready" /\ NoQueue

\* Nothing more is asked of a session that one side has left, or is to be closed.
Lost ==
  \/ me.state = "gone" \/ srv.state = "closed"
  \/ srv.closing /\ srv.state \notin {"queued", "packing"}

Stages == Greeting \/ Asking \/ InQueue \/ Dealt \/ Packing \/ Fighting \/ Over

ClientTyped ==
  /\ ServerSound /\ me \in ClientRec /\ me.selftest = setup.selftest
  /\ up \in Seq(Requests) /\ down \in Seq(Replies)

ClientInv == ClientTyped /\ (Lost \/ (~srv.closing /\ Stages))

\* What holds of 0, and of each number if it does of the one before, holds up to any.
LEMMA Induct ==
  ASSUME NEW n \in Nat, NEW S, 0 \in S, \A i \in 1 .. n : i - 1 \in S => i \in S
  PROVE  \A i \in 0 .. n : i \in S
<1> DEFINE Bad == {i \in 0 .. n : i \notin S}
<1>1. ASSUME Bad # {} PROVE FALSE
  <2>1. Bad \subseteq Nat
    OBVIOUS
  <2>2. PICK m \in Bad : \A k \in Bad : ~(<<k, m>> \in OpToRel(<, Nat))
    <3> HIDE DEF Bad
    <3> QED BY <1>1, <2>1, NatLessThanWellFounded, WFMin
  <2>3. m \in 1 .. n /\ m \notin S
    OBVIOUS
  <2>4. m - 1 \in 0 .. n /\ m - 1 < m /\ m - 1 \in Nat /\ m \in Nat
    BY <2>3
  <2>5. m - 1 \in Bad
    BY <2>3, <2>4
  <2> HIDE DEF Bad
  <2> QED BY <2>2, <2>4, <2>5 DEF OpToRel
<1> QED BY <1>1

\* g is what F makes of a, and goes on to make of it, along s.
Run(A, F, a, s, g) ==
  g \in [0 .. Len(s) -> A] /\ g[0] = a /\ \A i \in 1 .. Len(s) : g[i] = F[g[i - 1]][s[i]]

\* A function can be run along a sequence.
LEMMA Runs ==
  ASSUME NEW A, NEW B, NEW F \in [A -> [B -> A]], NEW a \in A, NEW s \in Seq(B)
  PROVE  \E g : Run(A, F, a, s, g)
<1> DEFINE Upto(g, n) == g \in [0 .. n -> A] /\ g[0] = a
                          /\ \A i \in 1 .. n : g[i] = F[g[i - 1]][s[i]]
           S    == {n \in Nat : \E g : Upto(g, n)}
           N    == Len(s)
<1>1. N \in Nat /\ \A i \in 1 .. N : s[i] \in B
  OBVIOUS
<1>2. 0 \in S
  <2>1. Upto([i \in 0 .. 0 |-> a], 0)
    OBVIOUS
  <2> HIDE DEF Upto
  <2> QED BY <2>1
<1>3. ASSUME NEW n \in 1 .. N, n - 1 \in S
      PROVE  n \in S
  <2>1. PICK g : Upto(g, n - 1)
    BY <1>3
  <2> DEFINE h == [i \in 0 .. n |-> IF i = n THEN F[g[n - 1]][s[n]] ELSE g[i]]
  <2>2. n \in Nat /\ n - 1 \in 0 .. n - 1 /\ g[n - 1] \in A /\ s[n] \in B /\ n # 0
    BY <1>1, <2>1
  <2>3. F[g[n - 1]][s[n]] \in A
    BY <2>2
  <2>4. h \in [0 .. n -> A] /\ h[0] = a
    BY <2>1, <2>2, <2>3
  <2>5. ASSUME NEW i \in 1 .. n PROVE h[i] = F[h[i - 1]][s[i]]
    <3>1. i - 1 \in 0 .. n /\ i - 1 # n /\ i \in 0 .. n /\ h[i - 1] = g[i - 1]
      BY <2>2
    <3>2. CASE i = n
      BY <3>1, <3>2
    <3>3. CASE i # n
      <4>1. i \in 1 .. n - 1
        BY <2>2, <3>3
      <4> QED BY <2>1, <3>1, <3>3, <4>1
    <3> QED BY <3>2, <3>3
  <2> HIDE DEF h
  <2>6. Upto(h, n)
    BY <2>4, <2>5
  <2> HIDE DEF Upto
  <2> QED BY <2>2, <2>6
<1>4. N \in S
  <2> HIDE DEF S
  <2>1. \A i \in 0 .. N : i \in S
    BY <1>1, <1>2, <1>3, Induct
  <2> QED BY <1>1, <2>1
<1>5. PICK g : Upto(g, N)
  BY <1>4
<1>6. Run(A, F, a, s, g)
  BY <1>5 DEF Run
<1> QED BY <1>6

\* What is asked for, with a request more or one less.
LEMMA AskedMore ==
  ASSUME NEW msgs \in Seq(Requests), NEW p \in Parts, Distinct(msgs), p \notin PartsIn(msgs)
  PROVE  /\ PartsIn(Append(msgs, PlaceReq(p))) = PartsIn(msgs) \cup {p}
         /\ Distinct(Append(msgs, PlaceReq(p)))
<1> DEFINE more == Append(msgs, PlaceReq(p))
           n    == Len(msgs)
<1>1. /\ n \in Nat /\ DOMAIN msgs = 1 .. n /\ DOMAIN more = 1 .. n + 1
      /\ more[n + 1] = PlaceReq(p) /\ \A i \in 1 .. n : more[i] = msgs[i]
  OBVIOUS
<1>2. PlaceReq(p).type = "PLACE" /\ PlaceReq(p).part = p
  BY DEF PlaceReq
<1>3. \A i \in 1 .. n + 1 : i \in 1 .. n \/ i = n + 1
  BY <1>1
<1>4. 1 .. n \subseteq 1 .. n + 1 /\ n + 1 \in 1 .. n + 1 /\ n + 1 \notin 1 .. n
  BY <1>1
<1> HIDE DEF more, n
<1>5. \A i \in 1 .. n : msgs[i].type = "PLACE" => msgs[i].part # p
  BY <1>1 DEF PartsIn
<1> QED BY <1>1, <1>2, <1>3, <1>4, <1>5 DEF PartsIn, Distinct, more

LEMMA AskedSame ==
  ASSUME NEW msgs \in Seq(Requests), NEW type \in {"READY", "CALL"}, Distinct(msgs)
  PROVE  /\ PartsIn(Append(msgs, Req(type))) = PartsIn(msgs)
         /\ Distinct(Append(msgs, Req(type)))
<1> DEFINE more == Append(msgs, Req(type))
           n    == Len(msgs)
<1>1. /\ n \in Nat /\ DOMAIN msgs = 1 .. n /\ DOMAIN more = 1 .. n + 1
      /\ more[n + 1] = Req(type) /\ \A i \in 1 .. n : more[i] = msgs[i]
  OBVIOUS
<1>2. Req(type).type # "PLACE"
  BY DEF Req
<1>3. \A i \in 1 .. n + 1 : i \in 1 .. n \/ i = n + 1
  BY <1>1
<1>4. 1 .. n \subseteq 1 .. n + 1
  BY <1>1
<1> HIDE DEF more, n
<1> QED BY <1>1, <1>2, <1>3, <1>4 DEF PartsIn, Distinct, more

LEMMA AskedLess ==
  ASSUME NEW msgs \in Seq(Requests), msgs # <<>>, Distinct(msgs)
  PROVE  /\ Distinct(Tail(msgs))
         /\ Head(msgs).type # "PLACE" => PartsIn(Tail(msgs)) = PartsIn(msgs)
         /\ Head(msgs).type = "PLACE" => /\ Head(msgs).part \in PartsIn(msgs)
                                         /\ PartsIn(Tail(msgs)) = PartsIn(msgs) \ {Head(msgs).part}
<1> DEFINE less == Tail(msgs)
           n    == Len(msgs)
           m    == Head(msgs)
<1>1. /\ n \in Nat \ {0} /\ DOMAIN msgs = 1 .. n /\ DOMAIN less = 1 .. n - 1
      /\ m = msgs[1] /\ \A i \in 1 .. n - 1 : less[i] = msgs[i + 1]
  OBVIOUS
<1>2. /\ 1 \in 1 .. n
      /\ \A i \in 1 .. n - 1 : i + 1 \in 1 .. n /\ i + 1 # 1
      /\ \A i \in 1 .. n : i = 1 \/ (i - 1 \in 1 .. n - 1 /\ (i - 1) + 1 = i)
      /\ \A i, j \in 1 .. n - 1 : i + 1 = j + 1 => i = j
  BY <1>1
<1> HIDE DEF less, n, m
<1>3. Distinct(less)
  <2>1. ASSUME NEW i \in 1 .. n - 1, NEW j \in 1 .. n - 1,
               less[i].type = "PLACE", less[j].type = "PLACE", less[i].part = less[j].part
        PROVE  i = j
    <3>1. /\ i + 1 \in DOMAIN msgs /\ j + 1 \in DOMAIN msgs
          /\ less[i] = msgs[i + 1] /\ less[j] = msgs[j + 1]
      BY <1>1, <1>2
    <3>2. i + 1 = j + 1
      BY <2>1, <3>1 DEF Distinct
    <3> QED BY <1>2, <3>2
  <2> QED BY <1>1, <2>1 DEF Distinct
<1>4. PartsIn(less) = {msgs[i].part : i \in {j \in 1 .. n : j # 1 /\ msgs[j].type = "PLACE"}}
  <2>1. PartsIn(less) \subseteq {msgs[i].part : i \in {j \in 1 .. n : j # 1 /\ msgs[j].type = "PLACE"}}
    BY <1>1, <1>2 DEF PartsIn
  <2>2. ASSUME NEW j \in 1 .. n, j # 1, msgs[j].type = "PLACE"
        PROVE  msgs[j].part \in PartsIn(less)
    <3>1. j - 1 \in 1 .. n - 1 /\ less[j - 1] = msgs[j]
      BY <1>1, <1>2, <2>2
    <3> QED BY <1>1, <2>2, <3>1 DEF PartsIn
  <2> QED BY <2>1, <2>2
<1>5. PartsIn(msgs) = {msgs[i].part : i \in {j \in 1 .. n : msgs[j].type = "PLACE"}}
  BY <1>1 DEF PartsIn
<1>6. ASSUME m.type = "PLACE"
      PROVE  m.part \in PartsIn(msgs) /\ PartsIn(less) = PartsIn(msgs) \ {m.part}
  <2>1. \A j \in 1 .. n : j # 1 /\ msgs[j].type = "PLACE" => msgs[j].part # m.part
    BY <1>1, <1>2, <1>6 DEF Distinct
  <2> QED BY <1>1, <1>2, <1>4, <1>5, <1>6, <2>1
<1>7. ASSUME m.type # "PLACE"
      PROVE  PartsIn(less) = PartsIn(msgs)
  BY <1>1, <1>4, <1>5, <1>7
<1> QED BY <1>3, <1>6, <1>7 DEF less, m

\* The self-test places what it sends: parts that can lie side by side, each once.
TriedRec   == [ship : SUBSET Parts, sent : Seq([type : {"PLACE"}, part : Parts])]
TriedOK(x) == /\ PartsIn(x.sent) = x.ship /\ Distinct(x.sent)
              /\ \A p, q \in x.ship : <<p, q>> \notin Clash

TryNext(x, p) ==
  IF Legal(x.ship, p)
  THEN [ship |-> x.ship \cup {p}, sent |-> Append(x.sent, PlaceReq(p))] ELSE x

LEMMA TryTyped ==
  ASSUME NEW x \in TriedRec, NEW p \in Parts
  PROVE  TryNext(x, p) \in TriedRec /\ (TriedOK(x) => TriedOK(TryNext(x, p)))
<1>1. CASE ~Legal(x.ship, p)
  BY <1>1 DEF TryNext
<1>2. CASE Legal(x.ship, p)
  <2> DEFINE y == TryNext(x, p)
  <2>1. y.ship = x.ship \cup {p} /\ y.sent = Append(x.sent, PlaceReq(p)) /\ y \in TriedRec
    BY <1>2 DEF TryNext, TriedRec, PlaceReq
  <2>2. x.sent \in Seq(Requests)
    BY SeqMonotonic DEF TriedRec, Requests
  <2> HIDE DEF y
  <2>3. ASSUME TriedOK(x) PROVE TriedOK(y)
    <3>1. PartsIn(x.sent) = x.ship /\ Distinct(x.sent) /\ \A a, b \in x.ship : <<a, b>> \notin Clash
      BY <2>3 DEF TriedOK
    <3>2. p \notin x.ship /\ \A q \in x.ship : <<p, q>> \notin Clash /\ <<q, p>> \notin Clash
      BY <1>2 DEF Legal
    <3>3. PartsIn(y.sent) = x.ship \cup {p} /\ Distinct(y.sent)
      BY <2>1, <2>2, <3>1, <3>2, AskedMore
    <3>4. <<p, p>> \notin Clash
      BY ClientAssumption
    <3>5. \A a, b \in y.ship : <<a, b>> \notin Clash
      BY <2>1, <3>1, <3>2, <3>4
    <3> QED BY <2>1, <3>3, <3>5 DEF TriedOK
  <2> QED BY <2>1, <2>3 DEF y
<1> QED BY <1>1, <1>2

\* What the script leaves is a ship the server will accept part by part.
LEMMA TriedIs == Tried \in TriedRec /\ TriedOK(Tried)
<1> DEFINE F    == [x \in TriedRec |-> [p \in Parts |-> TryNext(x, p)]]
           none == [ship |-> {}, sent |-> <<>>]
           N    == Len(Script)
           Along(f) == [i \in 0 .. N |-> IF i = 0 THEN none ELSE TryNext(f[i - 1], Script[i])]
           f    == CHOOSE f : f = Along(f)
<1>1. none \in TriedRec /\ TriedOK(none)
  BY DEF TriedRec, TriedOK, PartsIn, Distinct
<1>2. F \in [TriedRec -> [Parts -> TriedRec]]
  BY TryTyped
<1>3. Script \in Seq(Parts) /\ N \in Nat /\ \A i \in 1 .. N : Script[i] \in Parts
  BY ClientAssumption
<1>4. PICK g \in [0 .. N -> TriedRec] :
        g[0] = none /\ \A i \in 1 .. N : g[i] = F[g[i - 1]][Script[i]]
  <2> HIDE DEF F, none
  <2>1. \E g : Run(TriedRec, F, none, Script, g)
    BY <1>1, <1>2, <1>3, Runs
  <2> QED BY <2>1 DEF Run
<1>5. \A i \in 1 .. N : i - 1 \in 0 .. N /\ i \in 0 .. N /\ i # 0
  BY <1>3
<1>6. \A i \in 1 .. N : g[i] = TryNext(g[i - 1], Script[i])
  BY <1>3, <1>4, <1>5
<1> HIDE DEF F, none
<1>7. f = Along(f)
  <2>1. g = Along(g)
    <3>1. g = [i \in 0 .. N |-> g[i]]
      BY <1>4
    <3>2. \A i \in 0 .. N : g[i] = IF i = 0 THEN none ELSE TryNext(g[i - 1], Script[i])
      BY <1>3, <1>4, <1>6
    <3> QED BY <3>1, <3>2
  <2> HIDE DEF Along
  <2> QED BY <2>1
<1>8. Tried = f[N]
  BY DEF Tried, TryNext, none
<1> HIDE DEF f
<1>9. f[0] = none /\ \A i \in 1 .. N : f[i] = TryNext(f[i - 1], Script[i])
  <2>1. f = [i \in 0 .. N |-> IF i = 0 THEN none ELSE TryNext(f[i - 1], Script[i])]
    BY <1>7
  <2> HIDE DEF Along
  <2>2. \A i \in 0 .. N : f[i] = IF i = 0 THEN none ELSE TryNext(f[i - 1], Script[i])
    BY <2>1
  <2>3. 0 \in 0 .. N
    BY <1>3
  <2> QED BY <1>5, <2>2, <2>3
<1> HIDE DEF Along, N
<1> DEFINE S == {i \in 0 .. N : f[i] = g[i] /\ TriedOK(g[i])}
<1>10. \A i \in 0 .. N : i \in S
  <2>1. 0 \in S
    BY <1>1, <1>3, <1>4, <1>9
  <2>2. ASSUME NEW i \in 1 .. N, i - 1 \in S PROVE i \in S
    <3>1. g[i - 1] \in TriedRec /\ Script[i] \in Parts
      BY <1>3, <1>4, <1>5
    <3>2. f[i] = g[i]
      BY <1>6, <1>9, <2>2
    <3>3. TriedOK(g[i])
      BY <1>6, <2>2, <3>1, TryTyped
    <3> QED BY <1>5, <3>2, <3>3
  <2> HIDE DEF S
  <2> QED BY <1>3, <2>1, <2>2, Induct
<1>11. N \in S
  <2> HIDE DEF S
  <2> QED BY <1>3, <1>10
<1> QED BY <1>4, <1>8, <1>11

\* A client stays one, and in its loop.
LEMMA OnMsgTyped ==
  ASSUME NEW c \in ClientRec, NEW msg \in Replies
  PROVE  /\ OnMsg(c, msg) \in ClientRec /\ OnMsg(c, msg).selftest = c.selftest
         /\ c.state \in InLoop => OnMsg(c, msg).state \in InLoop
<1>1. Tried.ship \in SUBSET Parts
  BY TriedIs DEF TriedRec
<1> QED BY <1>1 DEF OnMsg, ClientRec, ClientStates, InLoop

\* g is what the client is after each of the messages.
Reads(c, msgs, g) ==
  /\ g \in [0 .. Len(msgs) -> ClientRec] /\ g[0] = c
  /\ \A i \in 1 .. Len(msgs) : g[i] = OnMsg(g[i - 1], msgs[i])

LEMMA CanRead ==
  ASSUME NEW c \in ClientRec, NEW msgs \in Seq(Replies)
  PROVE  \E g : Reads(c, msgs, g) /\ OnMsgs(c, msgs) = g[Len(msgs)]
<1> DEFINE F == [x \in ClientRec |-> [m \in Replies |-> OnMsg(x, m)]]
           N == Len(msgs)
           Along(f) == [i \in 0 .. N |-> IF i = 0 THEN c ELSE OnMsg(f[i - 1], msgs[i])]
           f == CHOOSE f : f = Along(f)
<1>1. F \in [ClientRec -> [Replies -> ClientRec]]
  BY OnMsgTyped
<1>2. N \in Nat /\ \A i \in 1 .. N : msgs[i] \in Replies
  OBVIOUS
<1>3. \A i \in 1 .. N : i - 1 \in 0 .. N /\ i \in 0 .. N /\ i # 0
  BY <1>2
<1>4. PICK g \in [0 .. N -> ClientRec] :
        g[0] = c /\ \A i \in 1 .. N : g[i] = F[g[i - 1]][msgs[i]]
  <2> HIDE DEF F
  <2>1. \E g : Run(ClientRec, F, c, msgs, g)
    BY <1>1, Runs
  <2> QED BY <2>1 DEF Run
<1>5. \A i \in 1 .. N : g[i] = OnMsg(g[i - 1], msgs[i])
  BY <1>2, <1>3, <1>4
<1> HIDE DEF F
<1>6. f = Along(f)
  <2>1. g = Along(g)
    <3>1. g = [i \in 0 .. N |-> g[i]]
      BY <1>4
    <3>2. \A i \in 0 .. N : g[i] = IF i = 0 THEN c ELSE OnMsg(g[i - 1], msgs[i])
      BY <1>2, <1>4, <1>5
    <3> QED BY <3>1, <3>2
  <2> HIDE DEF Along
  <2> QED BY <2>1
<1>7. OnMsgs(c, msgs) = f[N]
  BY DEF OnMsgs
<1> HIDE DEF f
<1>8. f[0] = c /\ \A i \in 1 .. N : f[i] = OnMsg(f[i - 1], msgs[i])
  <2>1. f = [i \in 0 .. N |-> IF i = 0 THEN c ELSE OnMsg(f[i - 1], msgs[i])]
    BY <1>6
  <2> HIDE DEF Along
  <2>2. \A i \in 0 .. N : f[i] = IF i = 0 THEN c ELSE OnMsg(f[i - 1], msgs[i])
    BY <2>1
  <2>3. 0 \in 0 .. N
    BY <1>2
  <2> QED BY <1>3, <2>2, <2>3
<1> HIDE DEF Along, N
<1> DEFINE S == {i \in 0 .. N : f[i] = g[i]}
<1>9. \A i \in 0 .. N : i \in S
  <2>1. 0 \in S
    BY <1>2, <1>4, <1>8
  <2>2. ASSUME NEW i \in 1 .. N, i - 1 \in S PROVE i \in S
    BY <1>3, <1>5, <1>8, <2>2
  <2> HIDE DEF S
  <2> QED BY <1>2, <2>1, <2>2, Induct
<1>10. f[N] = g[N]
  <2>1. N \in S
    <3> HIDE DEF S
    <3> QED BY <1>2, <1>9
  <2> QED BY <2>1
<1>11. Reads(c, msgs, g) /\ OnMsgs(c, msgs) = g[Len(msgs)]
  BY <1>4, <1>5, <1>7, <1>10 DEF Reads, N
<1> QED BY <1>11

\* There is one way to read them.
LEMMA ReadsIs ==
  ASSUME NEW c \in ClientRec, NEW msgs \in Seq(Replies), NEW g, Reads(c, msgs, g)
  PROVE  OnMsgs(c, msgs) = g[Len(msgs)]
<1> DEFINE N == Len(msgs)
<1>1. PICK h : Reads(c, msgs, h) /\ OnMsgs(c, msgs) = h[N]
  BY CanRead
<1>2. N \in Nat
  OBVIOUS
<1>3. /\ g[0] = c /\ \A i \in 1 .. N : g[i] = OnMsg(g[i - 1], msgs[i])
      /\ h[0] = c /\ \A i \in 1 .. N : h[i] = OnMsg(h[i - 1], msgs[i])
  BY <1>1 DEF Reads
<1> HIDE DEF N
<1> DEFINE S == {i \in Nat : g[i] = h[i]}
<1>4. 0 \in S
  BY <1>3
<1>5. ASSUME NEW i \in 1 .. N, i - 1 \in S PROVE i \in S
  BY <1>2, <1>3, <1>5
<1>6. N \in S
  <2> HIDE DEF S
  <2>1. \A i \in 0 .. N : i \in S
    BY <1>2, <1>4, <1>5, Induct
  <2> QED BY <1>2, <2>1
<1> QED BY <1>1, <1>6 DEF N

\* What it is after none of them, after one more, and after the first n.
LEMMA ReadNone == \A c \in ClientRec : OnMsgs(c, <<>>) = c
<1> SUFFICES ASSUME NEW c \in ClientRec PROVE OnMsgs(c, <<>>) = c
  OBVIOUS
<1> DEFINE none == <<>>
<1>1. none \in Seq(Replies) /\ Len(none) = 0
  OBVIOUS
<1> HIDE DEF none
<1>2. PICK g : Reads(c, none, g) /\ OnMsgs(c, none) = g[Len(none)]
  BY <1>1, CanRead
<1> QED BY <1>1, <1>2 DEF Reads, none

LEMMA ReadMore ==
  ASSUME NEW c \in ClientRec, NEW msgs \in Seq(Replies), NEW m \in Replies
  PROVE  OnMsgs(c, Append(msgs, m)) = OnMsg(OnMsgs(c, msgs), m)
<1> DEFINE more == Append(msgs, m)
           N    == Len(msgs)
<1>1. /\ N \in Nat /\ more \in Seq(Replies) /\ Len(more) = N + 1 /\ more[N + 1] = m
      /\ \A i \in 1 .. N : more[i] = msgs[i]
  OBVIOUS
<1> HIDE DEF more, N
<1>2. PICK g : Reads(c, more, g) /\ OnMsgs(c, more) = g[N + 1]
  <2>1. \E g : Reads(c, more, g) /\ OnMsgs(c, more) = g[Len(more)]
    BY <1>1, CanRead
  <2> QED BY <1>1, <2>1
<1>3. /\ g \in [0 .. N + 1 -> ClientRec] /\ g[0] = c
      /\ \A i \in 1 .. N + 1 : g[i] = OnMsg(g[i - 1], more[i])
  BY <1>1, <1>2 DEF Reads
<1>4. N + 1 \in 1 .. N + 1 /\ (N + 1) - 1 = N /\ N \in 0 .. N
      /\ 0 .. N \subseteq 0 .. N + 1 /\ 1 .. N \subseteq 1 .. N + 1
      /\ \A i \in 1 .. N : i - 1 \in 0 .. N /\ i \in 0 .. N
  BY <1>1
<1> DEFINE h == [i \in 0 .. N |-> g[i]]
<1>5. h \in [0 .. N -> ClientRec] /\ h[0] = c /\ h[N] = g[N]
      /\ \A i \in 1 .. N : h[i] = OnMsg(h[i - 1], msgs[i])
  BY <1>1, <1>3, <1>4
<1> HIDE DEF h
<1>6. OnMsgs(c, msgs) = h[N]
  <2>1. Reads(c, msgs, h)
    BY <1>5 DEF Reads, N
  <2> QED BY <2>1, ReadsIs DEF N
<1>7. g[N + 1] = OnMsg(g[N], m)
  BY <1>1, <1>3, <1>4
<1> QED BY <1>2, <1>5, <1>6, <1>7 DEF more

LEMMA ReadOn ==
  ASSUME NEW c \in ClientRec, NEW msgs \in Seq(Replies), NEW n \in 1 .. Len(msgs)
  PROVE  /\ OnMsgs(c, SubSeq(msgs, 1, n)) \in ClientRec
         /\ OnMsgs(OnMsgs(c, SubSeq(msgs, 1, n)), SubSeq(msgs, n + 1, Len(msgs))) = OnMsgs(c, msgs)
<1> DEFINE N     == Len(msgs)
           first == SubSeq(msgs, 1, n)
           last  == SubSeq(msgs, n + 1, N)
<1>1. /\ N \in Nat /\ n \in 1 .. N
      /\ first \in Seq(Replies) /\ Len(first) = n /\ last \in Seq(Replies) /\ Len(last) = N - n
      /\ \A i \in 1 .. n : first[i] = msgs[i]
      /\ \A i \in 1 .. N - n : last[i] = msgs[n + i]
  OBVIOUS
<1> HIDE DEF N, first, last
<1>2. PICK g : Reads(c, msgs, g) /\ OnMsgs(c, msgs) = g[N]
  BY CanRead DEF N
<1>3. /\ g \in [0 .. N -> ClientRec] /\ g[0] = c
      /\ \A i \in 1 .. N : g[i] = OnMsg(g[i - 1], msgs[i])
  BY <1>2 DEF Reads, N
<1> DEFINE h == [i \in 0 .. n |-> g[i]]
           k == [i \in 0 .. N - n |-> g[n + i]]
<1>4. Reads(c, first, h) /\ h[n] = g[n]
  <2>1. \A i \in 1 .. n : i - 1 \in 0 .. n /\ i \in 0 .. n /\ i \in 1 .. N
    BY <1>1
  <2>2. 0 .. n \subseteq 0 .. N /\ 0 \in 0 .. n /\ n \in 0 .. n
    BY <1>1
  <2>3. h \in [0 .. n -> ClientRec] /\ h[0] = c /\ h[n] = g[n]
        /\ \A i \in 1 .. n : h[i] = OnMsg(h[i - 1], first[i])
    BY <1>1, <1>3, <2>1, <2>2
  <2> HIDE DEF h
  <2> QED BY <1>1, <2>3 DEF Reads
<1>5. g[n] \in ClientRec /\ OnMsgs(c, first) = g[n]
  <2>1. g[n] \in ClientRec
    BY <1>1, <1>3
  <2> HIDE DEF h
  <2> QED BY <1>1, <1>4, <2>1, ReadsIs
<1>6. Reads(g[n], last, k) /\ k[N - n] = g[N]
  <2>1. \A i \in 1 .. N - n : /\ i - 1 \in 0 .. N - n /\ i \in 0 .. N - n /\ n + i \in 1 .. N
                             /\ n + (i - 1) = (n + i) - 1
    BY <1>1
  <2>2. /\ \A i \in 0 .. N - n : n + i \in 0 .. N
        /\ 0 \in 0 .. N - n /\ N - n \in 0 .. N - n /\ n + (N - n) = N /\ n + 0 = n
    BY <1>1
  <2>3. k \in [0 .. N - n -> ClientRec] /\ k[0] = g[n] /\ k[N - n] = g[N]
    BY <1>3, <2>2
  <2>4. ASSUME NEW i \in 1 .. N - n PROVE k[i] = OnMsg(k[i - 1], last[i])
    <3>1. k[i] = g[n + i] /\ k[i - 1] = g[(n + i) - 1] /\ last[i] = msgs[n + i]
      BY <1>1, <2>1
    <3>2. g[n + i] = OnMsg(g[(n + i) - 1], msgs[n + i])
      BY <1>3, <2>1
    <3> QED BY <3>1, <3>2
  <2> HIDE DEF k
  <2> QED BY <1>1, <2>3, <2>4 DEF Reads
<1>7. OnMsgs(g[n], last) = g[N]
  <2> HIDE DEF k
  <2> QED BY <1>1, <1>5, <1>6, ReadsIs
<1> QED BY <1>2, <1>5, <1>7 DEF first, last, N

\* It stays a client, and in its loop, and what is not about its state leaves it.
Idle == {"ACK", "REJECT", "TICK"}

\* What it makes of any messages is a client.
LEMMA ReadTyped ==
  ASSUME NEW c \in ClientRec, NEW msgs \in Seq(Replies)
  PROVE  /\ OnMsgs(c, msgs) \in ClientRec /\ OnMsgs(c, msgs).selftest = c.selftest
         /\ c.state \in InLoop => OnMsgs(c, msgs).state \in InLoop
         /\ (\A i \in DOMAIN msgs : msgs[i] \in Idle) => OnMsgs(c, msgs) = c
<1> DEFINE N == Len(msgs)
<1>1. PICK g : Reads(c, msgs, g) /\ OnMsgs(c, msgs) = g[N]
  BY CanRead
<1>2. N \in Nat /\ DOMAIN msgs = 1 .. N /\ \A i \in 1 .. N : msgs[i] \in Replies
  OBVIOUS
<1>3. /\ \A i \in 0 .. N : g[i] \in ClientRec
      /\ g[0] = c /\ \A i \in 1 .. N : g[i] = OnMsg(g[i - 1], msgs[i])
  BY <1>1 DEF Reads
<1>4. \A i \in 1 .. N : i - 1 \in 0 .. N /\ i \in 0 .. N
  BY <1>2
<1> HIDE DEF N
<1> DEFINE Stays(d) == d.selftest = c.selftest /\ (c.state \in InLoop => d.state \in InLoop)
                       /\ ((\A i \in DOMAIN msgs : msgs[i] \in Idle) => d = c)
           S == {i \in 0 .. N : Stays(g[i])}
<1>5. 0 \in S
  BY <1>2, <1>3
<1>6. ASSUME NEW i \in 1 .. N, i - 1 \in S PROVE i \in S
  <2>1. /\ g[i - 1] \in ClientRec /\ msgs[i] \in Replies /\ i \in DOMAIN msgs
        /\ g[i] = OnMsg(g[i - 1], msgs[i]) /\ Stays(g[i - 1])
    BY <1>2, <1>3, <1>4, <1>6
  <2>2. /\ g[i].selftest = g[i - 1].selftest
        /\ g[i - 1].state \in InLoop => g[i].state \in InLoop
    BY <2>1, OnMsgTyped
  <2>3. msgs[i] \in Idle => g[i] = g[i - 1]
    BY <2>1 DEF OnMsg, Idle
  <2>4. Stays(g[i])
    BY <2>1, <2>2, <2>3
  <2> QED BY <1>4, <2>4
<1>7. N \in S
  <2> HIDE DEF S
  <2>1. \A i \in 0 .. N : i \in S
    BY <1>2, <1>5, <1>6, Induct
  <2> QED BY <1>2, <2>1
<1>8. g[N] \in ClientRec
  BY <1>2, <1>3
<1> QED BY <1>1, <1>7, <1>8

\* What two clients in the same state make of the same messages.
Like(c, d) == c.state = d.state /\ (c.asked => d.asked)

LEMMA OnMsgLike ==
  ASSUME NEW c \in ClientRec, NEW d \in ClientRec, NEW m \in Replies, Like(c, d)
  PROVE  Like(OnMsg(c, m), OnMsg(d, m))
BY DEF Like, OnMsg, ClientRec

LEMMA ReadLike ==
  ASSUME NEW c \in ClientRec, NEW d \in ClientRec, NEW msgs \in Seq(Replies), Like(c, d)
  PROVE  Like(OnMsgs(c, msgs), OnMsgs(d, msgs))
<1> DEFINE N == Len(msgs)
<1>1. PICK g : Reads(c, msgs, g) /\ OnMsgs(c, msgs) = g[N]
  BY CanRead
<1>2. PICK h : Reads(d, msgs, h) /\ OnMsgs(d, msgs) = h[N]
  BY CanRead
<1>3. N \in Nat /\ \A i \in 1 .. N : msgs[i] \in Replies
  OBVIOUS
<1>4. /\ \A i \in 0 .. N : g[i] \in ClientRec /\ h[i] \in ClientRec
      /\ g[0] = c /\ \A i \in 1 .. N : g[i] = OnMsg(g[i - 1], msgs[i])
      /\ h[0] = d /\ \A i \in 1 .. N : h[i] = OnMsg(h[i - 1], msgs[i])
  BY <1>1, <1>2 DEF Reads
<1>5. \A i \in 1 .. N : i - 1 \in 0 .. N /\ i \in 0 .. N
  BY <1>3
<1> HIDE DEF N
<1> DEFINE S == {i \in 0 .. N : Like(g[i], h[i])}
<1>6. 0 \in S
  BY <1>3, <1>4
<1>7. ASSUME NEW i \in 1 .. N, i - 1 \in S PROVE i \in S
  <2>1. /\ g[i - 1] \in ClientRec /\ h[i - 1] \in ClientRec /\ msgs[i] \in Replies
        /\ Like(g[i - 1], h[i - 1])
    BY <1>3, <1>4, <1>5, <1>7
  <2>2. Like(OnMsg(g[i - 1], msgs[i]), OnMsg(h[i - 1], msgs[i]))
    BY <2>1, OnMsgLike
  <2> QED BY <1>4, <1>5, <2>2
<1>8. N \in S
  <2> HIDE DEF S
  <2>1. \A i \in 0 .. N : i \in S
    BY <1>3, <1>6, <1>7, Induct
  <2> QED BY <1>3, <2>1
<1> QED BY <1>1, <1>2, <1>8

\* The members of a sequence, and two of them joined.
LEMMA Members == \A S : \A s \in Seq(S) : \A i \in DOMAIN s : s[i] \in S
OBVIOUS

\* Two sequences of a set joined are one of it.
LEMMA Joined == \A S : \A s, t \in Seq(S) : s \o t \in Seq(S)
OBVIOUS

\* What is sent is a request, and what is said a reply.
LEMMA AreRequests ==
  /\ Req("HELLO") \in Requests /\ Req("AUTH") \in Requests /\ Req("QUEUE") \in Requests
  /\ Req("READY") \in Requests /\ Req("CALL") \in Requests
  /\ \A p \in Parts : PlaceReq(p) \in Requests
BY DEF Req, PlaceReq, Requests

LEMMA SentTyped ==
  \A msgs \in Seq(Replies) :
    Sent(msgs) \in Seq(Requests) /\ Only(Sent(msgs), {"PLACE", "READY"})
<1> SUFFICES ASSUME NEW msgs \in Seq(Replies)
             PROVE  Sent(msgs) \in Seq(Requests) /\ Only(Sent(msgs), {"PLACE", "READY"})
  OBVIOUS
<1>1. /\ Tried.sent \in Seq([type : {"PLACE"}, part : Parts])
      /\ [type : {"PLACE"}, part : Parts] \subseteq Requests
  BY TriedIs DEF TriedRec, Requests
<1>2. Tried.sent \in Seq(Requests)
  BY <1>1, SeqMonotonic
<1>3. \A i \in DOMAIN Tried.sent : Tried.sent[i].type = "PLACE"
  <2>1. \A i \in DOMAIN Tried.sent : Tried.sent[i] \in [type : {"PLACE"}, part : Parts]
    BY <1>1, Members
  <2> QED BY <2>1
<1>4. Req("READY") \in Requests /\ Req("READY").type = "READY"
  BY AreRequests DEF Req
<1>5. Append(Tried.sent, Req("READY")) \in Seq(Requests)
      /\ Only(Append(Tried.sent, Req("READY")), {"PLACE", "READY"})
  BY <1>2, <1>3, <1>4 DEF Only
<1>6. <<>> \in Seq(Requests) /\ Only(<<>>, {"PLACE", "READY"})
  BY DEF Only
<1> QED BY <1>5, <1>6 DEF Sent

\* The client's own steps leave it one.
LEMMA ClientStepTyped ==
  ASSUME ClientTyped, Client
  PROVE  ClientTyped'
<1>0. me \in ClientRec /\ up \in Seq(Requests) /\ down \in Seq(Replies)
      /\ me.selftest = setup.selftest
  BY DEF ClientTyped
<1>1. UNCHANGED <<setup, srv, match>>
  BY DEF Client, Keys, KeyPlace, TryPlace, KeyReady, KeyCall, Quit, Poll, Probe, NoResponse, Greeted
<1>2. ServerSound'
  BY <1>1, ServerStill DEF ClientTyped
<1>3. CASE KeyPlace
  <2>1. PICK p \in Parts : TryPlace(p)
    BY <1>3 DEF KeyPlace
  <2>2. PlaceReq(p) \in Requests
    BY AreRequests
  <2>3. /\ down' = down /\ up' \in {up, Append(up, PlaceReq(p))}
        /\ me' \in {me, [me EXCEPT !.ship = @ \cup {p}]}
    BY <2>1 DEF TryPlace
  <2>4. me' \in ClientRec /\ me'.selftest = me.selftest
    BY <1>0, <2>3 DEF ClientRec
  <2>5. up' \in Seq(Requests)
    BY <1>0, <2>2, <2>3
  <2> QED BY <1>0, <1>1, <1>2, <2>3, <2>4, <2>5 DEF ClientTyped
<1>4. CASE KeyReady \/ KeyCall
  <2>1. /\ down' = down /\ up' \in {Append(up, Req("READY")), Append(up, Req("CALL"))}
        /\ me' \in {[me EXCEPT !.ready = TRUE], [me EXCEPT !.asked = FALSE]}
    BY <1>4 DEF KeyReady, KeyCall
  <2>2. me' \in ClientRec /\ me'.selftest = me.selftest
    BY <1>0, <2>1 DEF ClientRec
  <2>3. Req("READY") \in Requests /\ Req("CALL") \in Requests
    BY AreRequests
  <2>4. up' \in Seq(Requests)
    <3>1. \A m \in Requests : Append(up, m) \in Seq(Requests)
      BY <1>0
    <3> QED BY <2>1, <2>3, <3>1
  <2>5. down' \in Seq(Replies) /\ me'.selftest = setup'.selftest
    BY <1>0, <1>1, <2>1, <2>2
  <2> QED BY <1>2, <2>2, <2>4, <2>5 DEF ClientTyped
<1>5. CASE Quit \/ NoResponse
  <2>1. down' = down /\ up' = up /\ me' = [me EXCEPT !.state = "gone"]
    BY <1>5 DEF Quit, NoResponse, Die
  <2>2. me' \in ClientRec /\ me'.selftest = me.selftest
    BY <1>0, <2>1 DEF ClientRec, ClientStates
  <2> QED BY <1>0, <1>1, <1>2, <2>1, <2>2 DEF ClientTyped
<1>6. ASSUME NEW n \in 1 .. Len(down), Poll(n) PROVE ClientTyped'
  <2> DEFINE msgs == SubSeq(down, 1, n)
  <2>1. msgs \in Seq(Replies) /\ SubSeq(down, n + 1, Len(down)) \in Seq(Replies)
    BY <1>0
  <2>2. down' = SubSeq(down, n + 1, Len(down))
    BY <1>6 DEF Poll
  <2>3. \/ me' = [me EXCEPT !.state = "error"] /\ up' = up
        \/ me' = OnMsgs(me, msgs) /\ up' = up \o Sent(msgs)
    BY <1>6 DEF Poll
  <2> HIDE DEF msgs
  <2>4. OnMsgs(me, msgs) \in ClientRec /\ OnMsgs(me, msgs).selftest = me.selftest
    BY <1>0, <2>1, ReadTyped
  <2>5. Sent(msgs) \in Seq(Requests)
    BY <2>1, SentTyped
  <2>6. [me EXCEPT !.state = "error"] \in ClientRec
        /\ [me EXCEPT !.state = "error"].selftest = me.selftest
    BY <1>0 DEF ClientRec, ClientStates
  <2>7. me' \in ClientRec /\ me'.selftest = me.selftest
    BY <2>3, <2>4, <2>6
  <2>8. up' \in Seq(Requests)
    <3> DEFINE sent == Sent(msgs)
    <3>1. (up' = up \/ up' = up \o sent) /\ sent \in Seq(Requests)
      BY <2>3, <2>5
    <3> HIDE DEF sent
    <3> QED BY <1>0, <3>1, Joined
  <2> QED BY <1>0, <1>1, <1>2, <2>1, <2>2, <2>7, <2>8 DEF ClientTyped
<1>7. CASE Probe
  <2>1. me' = [me EXCEPT !.state = "greet"] /\ up' = Append(up, Req("AUTH"))
        /\ down' \in {<<"EOF">>, down}
    BY <1>7 DEF Probe, SendAuth
  <2>2. me' \in ClientRec /\ me'.selftest = me.selftest
    BY <1>0, <2>1 DEF ClientRec, ClientStates
  <2>3. up' \in Seq(Requests)
    <3>1. Req("AUTH") \in Requests /\ Req("QUEUE") \in Requests
      BY AreRequests
    <3> QED BY <1>0, <2>1, <3>1
  <2>4. down' \in Seq(Replies)
    <3>1. <<"EOF">> \in Seq(Replies)
      BY DEF Replies
    <3> QED BY <1>0, <2>1, <3>1
  <2> QED BY <1>0, <1>1, <1>2, <2>2, <2>3, <2>4 DEF ClientTyped
<1>8. CASE Greeted
  <2>1. down # <<>> /\ down' = Tail(down) /\ up' \in {up, Append(up, Req("QUEUE"))}
        /\ me' \in {[me EXCEPT !.state = "queued"], [me EXCEPT !.state = "gone"]}
    BY <1>8 DEF Greeted, Die
  <2>2. me' \in ClientRec /\ me'.selftest = me.selftest
    BY <1>0, <2>1 DEF ClientRec, ClientStates
  <2>3. up' \in Seq(Requests)
    <3>1. Req("AUTH") \in Requests /\ Req("QUEUE") \in Requests
      BY AreRequests
    <3> QED BY <1>0, <2>1, <3>1
  <2>4. down' \in Seq(Replies)
    BY <1>0, <2>1
  <2> QED BY <1>0, <1>1, <1>2, <2>2, <2>3, <2>4 DEF ClientTyped
<1> QED BY <1>3, <1>4, <1>5, <1>6, <1>7, <1>8 DEF Client, Keys

\* What the server says, and what it leaves of the requests.
LEMMA ServerSays ==
  ASSUME ClientTyped, Timers \/ Rival \/ Server
  PROVE  /\ me' = me /\ setup' = setup /\ (up' = up \/ (up # <<>> /\ up' = Tail(up)))
         /\ down' \in Seq(Replies)
<1>0. down \in Seq(Replies)
  BY DEF ClientTyped
<1>1. me' = me /\ setup' = setup /\ (up' = up \/ (up # <<>> /\ up' = Tail(up)))
  BY DEF Timers, PackDeadline, BreakDeadline, RunTick, Rival, OpponentReady, OpponentCalls,
         OpponentLeaves, Server, Handle, Verified, Pair, Close, Shutdown
<1>2. \/ down' = down
      \/ \E msgs \in {<<"ERROR">>, <<"START">>, <<"RESULT">>, <<"ACK">>, <<"REJECT">>, <<"WELCOME">>,
                      <<"QUEUED">>, <<"FOUND">>, <<"END">>, <<"EOF">>, <<"TICK">>, <<"TICK", "END">>,
                      <<"TICK", "BREAK">>, <<"END", "EOF">>} : down' = down \o msgs
  <2>1. CASE Timers
    BY <2>1 DEF Timers, PackDeadline, BreakDeadline, RunTick, StartCombat, Resolve, Say
  <2>2. CASE Rival
    BY <2>2 DEF Rival, OpponentReady, OpponentCalls, OpponentLeaves, ReadyFrom, CallFrom,
                StartCombat, Resolve, EndMatch, Say
  <2>3. CASE Handle
    BY <2>3 DEF Handle, OnRequest, PlaceFrom, ReadyFrom, CallFrom, StartCombat, Resolve, Refuse, Say
  <2>4. CASE Verified \/ Pair \/ Close \/ Shutdown
    BY <2>4 DEF Verified, Pair, Close, Shutdown, Refuse, Say
  <2> QED BY <2>1, <2>2, <2>3, <2>4 DEF Server
<1>3. down' \in Seq(Replies)
  BY <1>0, <1>2 DEF Replies
<1> QED BY <1>1, <1>3

\* Every step keeps the types.
LEMMA StepTyped == ClientTyped /\ [Next]_vars => ClientTyped'
<1> SUFFICES ASSUME ClientTyped, [Next]_vars PROVE ClientTyped'
  OBVIOUS
<1>1. CASE Client
  BY <1>1, ClientStepTyped
<1>2. CASE Timers \/ Rival \/ Server
  <2>1. ServerSound /\ up \in Seq(Requests \cup {Req("CUT")}) /\ up \in Seq(Requests)
    BY SeqMonotonic DEF ClientTyped
  <2>2. ServerSound'
    BY <1>2, <2>1, ServerKeeps DEF Server
  <2>3. /\ me' = me /\ setup' = setup /\ (up' = up \/ (up # <<>> /\ up' = Tail(up)))
        /\ down' \in Seq(Replies)
    BY <1>2, ServerSays
  <2>4. up' \in Seq(Requests)
    BY <2>1, <2>3
  <2> QED BY <2>2, <2>3, <2>4 DEF ClientTyped
<1>3. CASE UNCHANGED vars
  BY <1>3, ServerStill DEF vars, ClientTyped
<1> QED BY <1>1, <1>2, <1>3 DEF Next

\* What the server says adds to what the client will make of what is under way.
LEMMA ViewIs == ClientTyped => View \in ClientRec
BY ReadTyped DEF ClientTyped, View

\* What the client will be is not changed by what it does not see.
LEMMA ViewStill == me' = me /\ down' = down => View' = View
BY DEF View

\* What the server says next is what the client will read last.
LEMMA ViewSays ==
  ASSUME ClientTyped, me' = me, NEW m \in Replies, down' = down \o <<m>>
  PROVE  View' = OnMsg(View, m) /\ View' \in ClientRec
<1>0. me \in ClientRec /\ down \in Seq(Replies)
  BY DEF ClientTyped
<1>1. down' = Append(down, m)
  BY <1>0
<1>2. OnMsgs(me, Append(down, m)) = OnMsg(OnMsgs(me, down), m)
  BY <1>0, ReadMore
<1>3. OnMsg(OnMsgs(me, down), m) \in ClientRec
  BY <1>0, ReadTyped, OnMsgTyped
<1> QED BY <1>1, <1>2, <1>3 DEF View

\* Nothing the server says but EOF is the end of what the client reads.
LEMMA NoEndSays ==
  ASSUME ClientTyped, NoEnd, NEW m \in Replies \ {"EOF"}, down' = down \o <<m>>
  PROVE  NoEnd'
BY DEF ClientTyped, NoEnd

\* What is left of the requests is some of them.
LEMMA OnlyLess ==
  ASSUME NEW types, ClientTyped, up # <<>>, up' = Tail(up), Only(up, types)
  PROVE  Only(up', types) /\ Head(up).type \in types /\ Head(up) \in Requests
<1>1. /\ up \in Seq(Requests) /\ Len(up) \in Nat \ {0} /\ DOMAIN up = 1 .. Len(up)
      /\ DOMAIN up' = 1 .. Len(up) - 1 /\ \A i \in 1 .. Len(up) - 1 : up'[i] = up[i + 1]
      /\ Head(up) = up[1]
  BY DEF ClientTyped
<1>2. 1 \in 1 .. Len(up) /\ \A i \in 1 .. Len(up) - 1 : i + 1 \in 1 .. Len(up)
  BY <1>1
<1>3. Head(up) \in Requests
  BY <1>1, <1>2
<1> QED BY <1>1, <1>2, <1>3 DEF Only

\* A match that begins finds the client on its way to it.
LEMMA StartsFight ==
  ASSUME ClientTyped, me.state \in InLoop, me' = me, NoQueue', NoEnd, ~View.asked,
         ~srv.closing, ~match.open, NEW ready, StartCombat(ready)
  PROVE  Fighting' /\ ~srv'.closing
<1>1. /\ match' = [match EXCEPT !.ready = ready] /\ srv' = [srv EXCEPT !.state = "combat"]
      /\ down' = down \o <<"START">>
  BY DEF StartCombat, Say
<1>2. "START" \in Replies \ {"EOF"}
  BY DEF Replies
<1>3. View' = OnMsg(View, "START") /\ View \in ClientRec
  BY <1>1, <1>2, ViewSays, ViewIs
<1>4. View'.state = "combat" /\ ~View'.asked
  BY <1>3 DEF OnMsg, ClientRec
<1>5. NoEnd'
  BY <1>1, <1>2, NoEndSays
<1>6. srv \in ServerRec /\ match \in MatchRec
  BY DEF ClientTyped, ServerSound
<1>7. srv'.state = "combat" /\ ~srv'.closing /\ ~match'.open
  BY <1>1, <1>6 DEF ServerRec, MatchRec
<1> QED BY <1>4, <1>5, <1>7 DEF Fighting, NoEnd

\* The two messages of a match that is dealt.
LEMMA DealtWords ==
  /\ Append(<<"QUEUED">>, "FOUND") = <<"QUEUED", "FOUND">>
  /\ <<"QUEUED">> \o <<"FOUND">> = <<"QUEUED", "FOUND">>
<1> DEFINE s == Append(<<"QUEUED">>, "FOUND")
           t == <<"QUEUED", "FOUND">>
           u == <<"QUEUED">> \o <<"FOUND">>
<1>1. "QUEUED" \in Replies /\ "FOUND" \in Replies
  BY DEF Replies
<1>2. s \in Seq(Replies) /\ Len(s) = 2 /\ s[1] = "QUEUED" /\ s[2] = "FOUND"
  BY <1>1
<1>3. t \in Seq(Replies) /\ Len(t) = 2 /\ t[1] = "QUEUED" /\ t[2] = "FOUND"
  BY <1>1
<1>4. u \in Seq(Replies) /\ Len(u) = 2 /\ u[1] = "QUEUED" /\ u[2] = "FOUND"
  BY <1>1
<1> HIDE DEF s, t, u
<1>5. \A i \in 1 .. Len(s) : s[i] = t[i] /\ u[i] = t[i]
  BY <1>2, <1>3, <1>4
<1>6. s = t
  BY <1>2, <1>3, <1>5, SeqEqual
<1>7. u = t
  BY <1>2, <1>3, <1>4, <1>5, SeqEqual
<1> QED BY <1>6, <1>7 DEF s, t, u

\* What one message makes of a client, and those two.
LEMMA ReadOne == \A c \in ClientRec, m \in Replies : OnMsgs(c, <<m>>) = OnMsg(c, m)
<1> SUFFICES ASSUME NEW c \in ClientRec, NEW m \in Replies
             PROVE  OnMsgs(c, <<m>>) = OnMsg(c, m)
  OBVIOUS
<1>1. <<>> \in Seq(Replies) /\ Append(<<>>, m) = <<m>>
  OBVIOUS
<1> QED BY <1>1, ReadMore, ReadNone

\* What a client that has been dealt a match will make of the news of it.
LEMMA ReadDealt ==
  \A c \in ClientRec : OnMsgs(c, <<"QUEUED", "FOUND">>) = OnMsg(OnMsg(c, "QUEUED"), "FOUND")
<1> SUFFICES ASSUME NEW c \in ClientRec
             PROVE  OnMsgs(c, <<"QUEUED", "FOUND">>) = OnMsg(OnMsg(c, "QUEUED"), "FOUND")
  OBVIOUS
<1>1. "QUEUED" \in Replies /\ "FOUND" \in Replies
  BY DEF Replies
<1>2. OnMsgs(c, <<"QUEUED">>) = OnMsg(c, "QUEUED")
  BY <1>1, ReadOne
<1>3. <<"QUEUED">> \in Seq(Replies)
  BY <1>1
<1>4. OnMsgs(c, Append(<<"QUEUED">>, "FOUND")) = OnMsg(OnMsgs(c, <<"QUEUED">>), "FOUND")
  BY <1>1, <1>3, ReadMore
<1> QED BY <1>2, <1>4, DealtWords

\* The ways to read one message, and those two.
LEMMA PartsOfOne == \A m \in Replies : SubSeq(<<m>>, 1, 1) = <<m>> /\ SubSeq(<<m>>, 2, 1) = <<>>
<1> SUFFICES ASSUME NEW m \in Replies
             PROVE  SubSeq(<<m>>, 1, 1) = <<m>> /\ SubSeq(<<m>>, 2, 1) = <<>>
  OBVIOUS
<1>1. <<m>> \in Seq(Replies) /\ Len(<<m>>) = 1
  OBVIOUS
<1>2. SubSeq(<<m>>, 1, Len(<<m>>)) = <<m>>
  BY <1>1, SubSeqFull
<1>3. SubSeq(<<m>>, 2, 1) = <<>>
  BY SubSeqEmpty
<1> QED BY <1>1, <1>2, <1>3

LEMMA PartsOfDealt ==
  LET t == <<"QUEUED", "FOUND">>
  IN  /\ SubSeq(t, 1, 1) = <<"QUEUED">> /\ SubSeq(t, 2, 2) = <<"FOUND">>
      /\ SubSeq(t, 1, 2) = t /\ SubSeq(t, 3, 2) = <<>>
<1> DEFINE t == <<"QUEUED", "FOUND">>
<1>1. "QUEUED" \in Replies /\ "FOUND" \in Replies
  BY DEF Replies
<1>2. t \in Seq(Replies) /\ Len(t) = 2 /\ t[1] = "QUEUED" /\ t[2] = "FOUND"
  BY <1>1
<1> HIDE DEF t
<1>3. SubSeq(t, 1, 2) = t /\ SubSeq(t, 3, 2) = <<>>
  BY <1>2, SubSeqFull, SubSeqEmpty
<1>4. SubSeq(t, 2, 2) = <<"FOUND">>
  <2>1. SubSeq(t, 2, 2) = <<t[2]>> \o SubSeq(t, 3, 2)
    BY <1>2, SubSeqRecursiveFirst
  <2>2. <<"FOUND">> \o <<>> = <<"FOUND">>
    OBVIOUS
  <2> QED BY <1>2, <1>3, <2>1, <2>2
<1>5. SubSeq(t, 1, 1) = <<"QUEUED">>
  <2>1. SubSeq(t, 1, 1) = <<t[1]>> \o SubSeq(t, 2, 1)
    BY <1>2, SubSeqRecursiveFirst
  <2>2. SubSeq(t, 2, 1) = <<>>
    BY SubSeqEmpty
  <2>3. <<"QUEUED">> \o <<>> = <<"QUEUED">>
    OBVIOUS
  <2> QED BY <1>2, <2>1, <2>2, <2>3
<1> QED BY <1>3, <1>4, <1>5 DEF t

\* A client that is dealt a match, or packs for one, will know it is in it.
LEMMA DealtSees == ClientTyped /\ Dealt => me.state \in InLoop /\ NoQueue /\ NoEnd /\ ~View.asked
<1> SUFFICES ASSUME ClientTyped, Dealt
             PROVE  me.state \in InLoop /\ NoQueue /\ NoEnd /\ ~View.asked
  OBVIOUS
<1>1. /\ me \in ClientRec /\ me.state = "queued" /\ ~me.asked
      /\ down \in {<<"QUEUED", "FOUND">>, <<"FOUND">>} /\ up = <<>>
  BY DEF ClientTyped, Dealt
<1>2. me.state \in InLoop /\ NoQueue /\ NoEnd
  BY <1>1 DEF InLoop, NoQueue, NoEnd, Only
<1>3. "FOUND" \in Replies
  BY DEF Replies
<1>4. OnMsgs(me, <<"FOUND">>) = OnMsg(me, "FOUND")
  BY <1>1, <1>3, ReadOne
<1>5. OnMsgs(me, <<"QUEUED", "FOUND">>) = OnMsg(OnMsg(me, "QUEUED"), "FOUND")
  BY <1>1, ReadDealt
<1>6. ~OnMsg(me, "FOUND").asked /\ ~OnMsg(OnMsg(me, "QUEUED"), "FOUND").asked
  BY <1>1 DEF OnMsg, ClientRec
<1> QED BY <1>1, <1>2, <1>4, <1>5, <1>6 DEF View

\* A client that packs has nothing under way to it that would move it.
LEMMA PackingSees == ClientTyped /\ Packing => me.state \in InLoop /\ NoQueue /\ NoEnd /\ View = me
<1> SUFFICES ASSUME ClientTyped, Packing
             PROVE  me.state \in InLoop /\ NoQueue /\ NoEnd /\ View = me
  OBVIOUS
<1>1. me.state \in InLoop /\ NoQueue /\ NoEnd
  BY DEF Packing, InLoop, NoQueue, NoEnd, Only
<1>2. \A i \in DOMAIN down : down[i] \in Idle
  BY DEF Packing, Idle
<1>3. View = me
  BY <1>2, ReadTyped DEF ClientTyped, View
<1> QED BY <1>1, <1>3

\* A session that is lost stays so.
LEMMA LostStays == ClientTyped /\ Lost /\ [Next]_vars => Lost'
<1> SUFFICES ASSUME ClientTyped, Lost, [Next]_vars PROVE Lost'
  OBVIOUS
<1>0. srv \in ServerRec /\ me \in ClientRec
  BY DEF ClientTyped, ServerSound
<1>1. CASE Client
  <2>1. srv' = srv
    BY <1>1 DEF Client, Keys, KeyPlace, TryPlace, KeyReady, KeyCall, Quit, Poll, Probe,
                NoResponse, Greeted
  <2>2. me.state # "gone"
    BY <1>1 DEF Client, Keys, KeyPlace, KeyReady, KeyCall, Playing, Quit, Poll, Probe,
                NoResponse, Greeted, InLoop
  <2> QED BY <2>1, <2>2 DEF Lost
<1>2. CASE Timers \/ Rival \/ Server
  <2>1. me' = me
    BY <1>2, ServerSays
  <2>2. srv.state = "closed" => srv' = srv
    BY <1>2 DEF Timers, PackDeadline, BreakDeadline, RunTick, Rival, OpponentReady, OpponentCalls,
                OpponentLeaves, Server, Handle, Verified, Pair, Close, Shutdown, InMatch
  <2>3. ASSUME srv.closing, srv.state \notin {"queued", "packing"}
        PROVE  srv'.closing /\ srv'.state \notin {"queued", "packing"}
    <3>1. CASE BreakDeadline \/ OpponentCalls
      BY <1>0, <2>3, <3>1 DEF BreakDeadline, OpponentCalls, CallFrom, Resolve
    <3>2. CASE RunTick \/ OpponentLeaves
      <4>1. srv' \in {srv, [srv EXCEPT !.state = "ready"]}
        BY <3>2 DEF RunTick, OpponentLeaves, EndMatch
      <4> QED BY <1>0, <2>3, <4>1 DEF ServerRec
    <3>3. CASE Close \/ Shutdown
      <4>1. srv' = [srv EXCEPT !.state = "closed"]
        BY <3>3 DEF Close, Shutdown
      <4> QED BY <1>0, <2>3, <4>1 DEF ServerRec
    <3>4. ~(PackDeadline \/ OpponentReady \/ Pair \/ Handle \/ Verified)
      BY <2>3 DEF PackDeadline, OpponentReady, Pair, Handle, Verified
    <3> QED BY <1>2, <3>1, <3>2, <3>3, <3>4 DEF Timers, Rival, Server
  <2> QED BY <2>1, <2>2, <2>3 DEF Lost
<1>3. CASE UNCHANGED vars
  BY <1>3 DEF Lost, vars
<1> QED BY <1>1, <1>2, <1>3 DEF Next

\* Where a step of the server's leaves a session that it keeps.
Kept == Lost \/ (~srv.closing /\ Stages)

LEMMA FightKept == Fighting' /\ ~srv'.closing => Kept'
BY DEF Kept, Stages

\* A session the server closes is over for both.
LEMMA LeavesSession == Close \/ Shutdown => Kept'
<1> SUFFICES ASSUME Close \/ Shutdown PROVE Lost'
  BY DEF Kept
<1>1. srv' = [srv EXCEPT !.state = "closed"]
  BY DEF Close, Shutdown
<1> QED BY <1>1 DEF Lost

\* A connection that was refused something is given up.
LEMMA RefuseLoses ==
  ASSUME ClientTyped, Refuse, srv.state \notin {"queued", "packing"}
  PROVE  Kept'
<1>1. srv' = [srv EXCEPT !.closing = TRUE] /\ srv \in ServerRec
  BY DEF Refuse, ClientTyped, ServerSound
<1> QED BY <1>1 DEF Kept, Lost, ServerRec

\* The match begins, by the opponent or by the clock.
LEMMA ReadyOrDeadline ==
  ASSUME ClientTyped, ~srv.closing, Stages, PackDeadline \/ OpponentReady
  PROVE  Kept'
<1>0. me' = me /\ up' = up /\ srv.state = "packing" /\ srv \in ServerRec
  BY DEF PackDeadline, OpponentReady, ClientTyped, ServerSound
<1>1. Dealt \/ Packing
  BY <1>0 DEF Stages, Greeting, Asking, InQueue, Fighting, Over
<1>2. me.state \in InLoop /\ NoQueue /\ NoEnd /\ ~View.asked
  BY <1>1, DealtSees, PackingSees DEF Packing
<1>3. ~match.open
  BY <1>0 DEF ClientTyped, ServerSound
<1>4. NoQueue'
  BY <1>0, <1>2 DEF NoQueue, Only
<1>5. ASSUME NEW ready, StartCombat(ready) PROVE Kept'
  BY <1>0, <1>2, <1>3, <1>4, <1>5, StartsFight, FightKept
<1>6. CASE PackDeadline
  BY <1>5, <1>6 DEF PackDeadline
<1>7. CASE OpponentReady
  <2>1. CASE match.ready \cup {1} = {0, 1}
    BY <1>5, <1>7, <2>1 DEF OpponentReady, ReadyFrom
  <2>2. CASE match.ready \cup {1} # {0, 1}
    <3>1. srv' = srv /\ down' = down
      BY <1>7, <2>2 DEF OpponentReady, ReadyFrom
    <3>2. Dealt' \/ Packing'
      BY <1>0, <1>1, <3>1 DEF Dealt, Packing, MirrorAgrees, Only, Distinct, PartsIn
    <3> QED BY <3>1, <3>2 DEF Kept, Stages
  <2> QED BY <2>1, <2>2
<1> QED BY <1>6, <1>7

LEMMA LeavesMatch ==
  ASSUME ClientTyped, ~srv.closing, Stages, OpponentLeaves
  PROVE  Kept'
<1>0. /\ me' = me /\ up' = up /\ srv.state \in InMatch /\ srv \in ServerRec
      /\ srv' = [srv EXCEPT !.state = "ready"]
  BY DEF OpponentLeaves, EndMatch, ClientTyped, ServerSound
<1>1. Dealt \/ Packing \/ Fighting
  BY <1>0 DEF Stages, Greeting, Asking, InQueue, Over, InMatch
<1>2. me.state \in InLoop /\ NoQueue
  BY <1>1, DealtSees, PackingSees DEF Fighting
<1>3. Over' /\ ~srv'.closing
  BY <1>0, <1>2 DEF Over, NoQueue, Only, ServerRec
<1> QED BY <1>3 DEF Kept, Stages

\* A client that has asked is dealt a match.
LEMMA Dealing ==
  ASSUME ClientTyped, ~srv.closing, Stages, Pair
  PROVE  Kept'
<1>0. /\ me' = me /\ up' = up /\ srv.state = "queued" /\ srv \in ServerRec
      /\ srv' = [srv EXCEPT !.state = "packing", !.ship = {}] /\ down' = down \o <<"FOUND">>
  BY DEF Pair, Say, ClientTyped, ServerSound
<1>1. InQueue
  BY <1>0 DEF Stages, Greeting, Asking, Dealt, Packing, Fighting, Over
<1>2. srv'.state = "packing" /\ srv'.ship = {} /\ ~srv'.closing
  BY <1>0 DEF ServerRec
<1>3. down' \in {<<"QUEUED", "FOUND">>, <<"FOUND">>}
  <2>1. <<>> \o <<"FOUND">> = <<"FOUND">>
    OBVIOUS
  <2>2. <<"QUEUED">> \o <<"FOUND">> = <<"QUEUED", "FOUND">>
    BY DealtWords
  <2> QED BY <1>0, <1>1, <2>1, <2>2 DEF InQueue
<1>4. Dealt'
  BY <1>0, <1>1, <1>2, <1>3 DEF InQueue, Dealt
<1> QED BY <1>2, <1>4 DEF Kept, Stages

\* A break that is over is over for the player too, once they have read so.
LEMMA ResolveKept ==
  ASSUME ClientTyped, Fighting, ~srv.closing, me' = me, NoQueue', Resolve
  PROVE  Kept'
<1>1. match' = [match EXCEPT !.open = FALSE, !.called = {}] /\ srv' = srv /\ down' = down \o <<"RESULT">>
  BY DEF Resolve, Say
<1>2. "RESULT" \in Replies \ {"EOF"}
  BY DEF Replies
<1>3. View' = OnMsg(View, "RESULT") /\ View \in ClientRec
  BY <1>1, <1>2, ViewSays, ViewIs
<1>4. View'.state = "combat" /\ ~View'.asked
  BY <1>3 DEF OnMsg, ClientRec, Fighting
<1>5. ~match'.open
  BY <1>1 DEF ClientTyped, ServerSound, MatchRec
<1>6. NoEnd'
  BY <1>1, <1>2, NoEndSays DEF Fighting
<1>7. Fighting'
  BY <1>1, <1>4, <1>5, <1>6 DEF Fighting
<1> QED BY <1>1, <1>7, FightKept

\* The calls of both seats, and the break they end.
LEMMA CallKept ==
  ASSUME ClientTyped, Fighting, ~srv.closing, me' = me, NoQueue', NEW seat \in {0, 1},
         match.open, CallFrom(seat),
         seat = 0 \/ (Req("CALL") \in ToSet(up) => Req("CALL") \in ToSet(up'))
  PROVE  Kept'
<1>1. CASE match.called \cup {seat} = {0, 1}
  BY <1>1, ResolveKept DEF CallFrom
<1>2. CASE match.called \cup {seat} # {0, 1}
  <2>1. match' = [match EXCEPT !.called = @ \cup {seat}] /\ srv' = srv /\ down' = down
    BY <1>2 DEF CallFrom
  <2>2. match'.open = match.open /\ match'.called = match.called \cup {seat}
    BY <2>1 DEF ClientTyped, ServerSound, MatchRec
  <2>3. View' = View
    BY <2>1, ViewStill
  <2>4. View'.asked \/ Req("CALL") \in ToSet(up') \/ 0 \in match'.called
    BY <2>2, <2>3 DEF Fighting
  <2>5. NoEnd'
    BY <2>1 DEF Fighting, NoEnd
  <2>6. Fighting'
    BY <2>1, <2>2, <2>3, <2>4, <2>5 DEF Fighting
  <2> QED BY <2>1, <2>6, FightKept
<1> QED BY <1>1, <1>2

LEMMA BreakOver ==
  ASSUME ClientTyped, ~srv.closing, Stages, BreakDeadline \/ OpponentCalls
  PROVE  Kept'
<1>1. me' = me /\ up' = up /\ srv.state = "combat"
  BY DEF BreakDeadline, OpponentCalls
<1>2. Fighting
  BY <1>1 DEF Stages, Greeting, Asking, InQueue, Dealt, Packing, Over
<1>3. NoQueue'
  BY <1>1, <1>2 DEF Fighting, NoQueue, Only
<1>4. CASE BreakDeadline
  BY <1>1, <1>2, <1>3, <1>4, ResolveKept DEF BreakDeadline
<1>5. CASE OpponentCalls
  <2>1. match.open /\ CallFrom(1)
    BY <1>5 DEF OpponentCalls
  <2> QED BY <1>1, <1>2, <1>3, <2>1, CallKept
<1> QED BY <1>4, <1>5

\* A second of combat as the client will hear of it.
LEMMA TickKept ==
  ASSUME ClientTyped, ~srv.closing, Stages, RunTick
  PROVE  Kept'
<1> DEFINE t     == match.ticks + 1
           opens == t % RoundTicks = 0
<1>0. me' = me /\ up' = up /\ srv.state = "combat" /\ srv \in ServerRec /\ match \in MatchRec
      /\ ~match.open
  BY DEF RunTick, ClientTyped, ServerSound
<1>1. Fighting
  BY <1>0 DEF Stages, Greeting, Asking, InQueue, Dealt, Packing, Over
<1>2. NoQueue'
  BY <1>0, <1>1 DEF Fighting, NoQueue, Only
<1>3. \/ srv' = [srv EXCEPT !.state = "ready"]
      \/ /\ srv' = srv /\ match' = [match EXCEPT !.ticks = t, !.open = opens]
         /\ down' = down \o (IF opens THEN <<"TICK", "BREAK">> ELSE <<"TICK">>)
  BY DEF RunTick, Say
<1> HIDE DEF t, opens
<1>4. ASSUME srv' = [srv EXCEPT !.state = "ready"] PROVE Kept'
  <2>1. Over' /\ ~srv'.closing
    BY <1>0, <1>1, <1>2, <1>4 DEF Over, Fighting, ServerRec
  <2> QED BY <2>1 DEF Kept, Stages
<1>5. /\ "TICK" \in Replies \ {"EOF"} /\ "BREAK" \in Replies \ {"EOF"}
      /\ View \in ClientRec /\ View.state = "combat" /\ ~View.asked
      /\ me \in ClientRec /\ down \in Seq(Replies)
  BY <1>0, <1>1, ViewIs DEF Replies, Fighting, ClientTyped
<1>6. ASSUME srv' = srv, match' = [match EXCEPT !.ticks = t, !.open = opens], ~opens,
             down' = down \o <<"TICK">>
      PROVE  Kept'
  <2>1. View' = OnMsg(View, "TICK")
    BY <1>0, <1>5, <1>6, ViewSays
  <2>2. View' = View
    BY <2>1 DEF OnMsg
  <2>3. ~match'.open
    BY <1>0, <1>6 DEF MatchRec
  <2>4. NoEnd'
    BY <1>1, <1>5, <1>6, NoEndSays DEF Fighting
  <2>5. Fighting'
    BY <1>0, <1>1, <1>2, <1>5, <1>6, <2>2, <2>3, <2>4 DEF Fighting
  <2> QED BY <1>6, <2>5, FightKept
<1>7. ASSUME srv' = srv, match' = [match EXCEPT !.ticks = t, !.open = opens], opens,
             down' = down \o <<"TICK", "BREAK">>
      PROVE  Kept'
  <2>1. down' = Append(Append(down, "TICK"), "BREAK")
    BY <1>5, <1>7
  <2>2. OnMsgs(me, Append(Append(down, "TICK"), "BREAK")) = OnMsg(OnMsg(View, "TICK"), "BREAK")
    <3>1. OnMsgs(me, Append(down, "TICK")) = OnMsg(View, "TICK")
      BY <1>5, ReadMore DEF View
    <3>2. Append(down, "TICK") \in Seq(Replies)
      BY <1>5
    <3> QED BY <1>5, <3>1, <3>2, ReadMore
  <2>3. View' = OnMsg(OnMsg(View, "TICK"), "BREAK")
    BY <1>0, <2>1, <2>2 DEF View
  <2>4. View'.state = "combat" /\ View'.asked
    BY <1>5, <2>3 DEF OnMsg, ClientRec
  <2>5. match'.open
    BY <1>0, <1>7 DEF MatchRec
  <2>6. NoEnd'
    BY <1>1, <1>5, <2>1 DEF Fighting, NoEnd
  <2>7. Fighting'
    BY <1>0, <1>1, <1>2, <1>7, <2>4, <2>5, <2>6 DEF Fighting
  <2> QED BY <1>7, <2>7, FightKept
<1> QED BY <1>3, <1>4, <1>6, <1>7

\* The answers of the server before there is a match.
LEMMA VerifiedKept ==
  ASSUME ClientTyped, ~srv.closing, Stages, Verified
  PROVE  Kept'
<1>1. srv.state = "verifying" /\ me' = me /\ up' = up /\ srv \in ServerRec
  BY DEF Verified, ClientTyped, ServerSound
<1>2. Greeting /\ down = <<>>
  BY <1>1 DEF Stages, Greeting, Asking, InQueue, Dealt, Packing, Fighting, Over
<1>3. CASE Refuse
  BY <1>1, <1>3, RefuseLoses
<1>4. CASE srv' = [srv EXCEPT !.state = "ready"] /\ down' = down \o <<"WELCOME">>
  <2>1. down' = <<"WELCOME">>
    BY <1>2, <1>4
  <2>2. Greeting' /\ ~srv'.closing
    BY <1>1, <1>2, <1>4, <2>1 DEF Greeting, Only, ServerRec
  <2> QED BY <2>2 DEF Kept, Stages
<1> QED BY <1>3, <1>4 DEF Verified, Say

\* The server's answer to a request, at each stage.
LEMMA HandleGreeting ==
  ASSUME ClientTyped, ~srv.closing, Greeting, Handle
  PROVE  Kept'
<1> DEFINE m == Head(up)
<1>1. me' = me /\ up # <<>> /\ up' = Tail(up) /\ OnRequest(m) /\ srv \in ServerRec
  BY DEF Handle, ClientTyped, ServerSound
<1>2. Only(up', {"HELLO", "AUTH"}) /\ m.type \in {"HELLO", "AUTH"}
  BY <1>1, OnlyLess DEF Greeting
<1> HIDE DEF m
<1>3. srv.state \notin {"queued", "packing"}
  BY DEF Greeting
<1>4. CASE m.type = "HELLO" /\ srv.state = "connected"
  <2>1. \/ srv' = [srv EXCEPT !.state = "needauth"] /\ down' = down
        \/ srv' = [srv EXCEPT !.state = "ready"] /\ down' = down \o <<"WELCOME">>
    BY <1>1, <1>4 DEF OnRequest, Say
  <2>2. down = <<>>
    BY <1>4 DEF Greeting
  <2>3. <<>> \o <<"WELCOME">> = <<"WELCOME">>
    OBVIOUS
  <2>4. ~srv'.closing
        /\ \/ srv'.state = "needauth" /\ down' = <<>>
           \/ srv'.state = "ready" /\ down' = <<"WELCOME">>
    BY <1>1, <2>1, <2>2, <2>3 DEF ServerRec
  <2>5. Greeting'
    BY <1>1, <1>2, <2>4 DEF Greeting
  <2> QED BY <2>4, <2>5 DEF Kept, Stages
<1>5. CASE m.type = "AUTH" /\ srv.state = "needauth"
  <2>1. srv' = [srv EXCEPT !.state = "verifying"] /\ down' = down
    BY <1>1, <1>5 DEF OnRequest
  <2>2. Greeting' /\ ~srv'.closing
    BY <1>1, <1>2, <1>5, <2>1 DEF Greeting, ServerRec
  <2> QED BY <2>2 DEF Kept, Stages
<1>6. CASE Refuse
  BY <1>3, <1>6, RefuseLoses
<1> QED BY <1>1, <1>2, <1>4, <1>5, <1>6 DEF OnRequest

\* What the server makes of a request, at each stage.
LEMMA HandleAsking ==
  ASSUME ClientTyped, ~srv.closing, Asking, Handle
  PROVE  Kept'
<1> DEFINE m == Head(up)
<1>1. me' = me /\ up # <<>> /\ up' = Tail(up) /\ OnRequest(m) /\ srv \in ServerRec
      /\ srv.state = "ready"
  BY DEF Handle, Asking, ClientTyped, ServerSound
<1>2. PICK msgs \in Seq(Requests) : up = Append(msgs, Req("QUEUE")) /\ Only(msgs, {"HELLO", "AUTH"})
  BY DEF Asking
<1>3. (m.type = "QUEUE" /\ up' = <<>>) \/ m.type \in {"HELLO", "AUTH"}
  <2>1. CASE msgs = <<>>
    <3>1. up = <<Req("QUEUE")>>
      BY <1>2, <2>1
    <3> QED BY <1>1, <3>1 DEF Req
  <2>2. CASE msgs # <<>>
    <3>1. m = msgs[1] /\ 1 \in DOMAIN msgs
      BY <1>2, <2>2
    <3> QED BY <1>2, <3>1 DEF Only
  <2> QED BY <2>1, <2>2
<1> HIDE DEF m
<1>4. CASE Refuse
  BY <1>1, <1>4, RefuseLoses
<1>5. CASE m.type = "QUEUE"
  <2>1. srv' = [srv EXCEPT !.state = "queued"] /\ down' = down \o <<"QUEUED">>
    BY <1>1, <1>5 DEF OnRequest, Say
  <2>2. down' = <<"QUEUED">>
    BY <2>1 DEF Asking
  <2>3. InQueue' /\ ~srv'.closing
    BY <1>1, <1>3, <1>5, <2>1, <2>2 DEF Asking, InQueue, ServerRec
  <2> QED BY <2>3 DEF Kept, Stages
<1> QED BY <1>1, <1>3, <1>4, <1>5 DEF OnRequest

\* What the client's copy of its ship allows, the server's does when it gets there.
LEMMA HandlePacking ==
  ASSUME ClientTyped, ~srv.closing, Packing, Handle
  PROVE  Kept'
<1> DEFINE m == Head(up)
<1>1. me' = me /\ up # <<>> /\ up' = Tail(up) /\ OnRequest(m) /\ srv \in ServerRec
      /\ srv.state = "packing" /\ up \in Seq(Requests) /\ down \in Seq(Replies)
  BY DEF Handle, Packing, ClientTyped, ServerSound
<1>2. Only(up', {"PLACE", "READY"}) /\ m.type \in {"PLACE", "READY"}
  BY <1>1, OnlyLess DEF Packing
<1>3. Distinct(up)
  BY DEF Packing
<1>4. /\ Distinct(up')
      /\ m.type # "PLACE" => PartsIn(up') = PartsIn(up)
      /\ m.type = "PLACE" => m.part \in PartsIn(up) /\ PartsIn(up') = PartsIn(up) \ {m.part}
  BY <1>1, <1>3, AskedLess
<1>5. /\ me.ship = srv.ship \cup PartsIn(up)
      /\ \A p, q \in me.ship : <<p, q>> \notin Clash
      /\ srv.ship \cap PartsIn(up) = {}
  BY <1>1 DEF Packing, MirrorAgrees
<1> HIDE DEF m
<1>6. CASE m.type = "PLACE"
  <2>1. Legal(srv.ship, m.part)
    BY <1>4, <1>5, <1>6 DEF Legal
  <2>2. PlaceFrom(m.part)
    BY <1>1, <1>6 DEF OnRequest
  <2>3. srv' = [srv EXCEPT !.ship = @ \cup {m.part}] /\ down' = down \o <<"ACK">>
    BY <1>1, <2>1, <2>2 DEF PlaceFrom, Say
  <2>4. srv'.state = "packing" /\ ~srv'.closing /\ srv'.ship = srv.ship \cup {m.part}
    BY <1>1, <2>3 DEF ServerRec
  <2>5. \A i \in DOMAIN down' : down'[i] = "ACK"
    BY <1>1, <2>3 DEF Packing
  <2>6. /\ me'.ship = srv'.ship \cup PartsIn(up')
        /\ \A p, q \in me'.ship : <<p, q>> \notin Clash
        /\ srv'.ship \cap PartsIn(up') = {}
    BY <1>1, <1>4, <1>5, <1>6, <2>4
  <2>7. MirrorAgrees'
    BY <2>6 DEF MirrorAgrees
  <2>8. Packing'
    BY <1>1, <1>2, <1>4, <2>4, <2>5, <2>7 DEF Packing
  <2> QED BY <2>4, <2>8 DEF Kept, Stages
<1>7. CASE m.type = "READY"
  <2>1. ReadyFrom(0)
    BY <1>1, <1>7 DEF OnRequest
  <2>2. CASE match.ready \cup {0} = {0, 1}
    <3>1. StartCombat({0, 1})
      BY <2>1, <2>2 DEF ReadyFrom
    <3>2. me.state \in InLoop /\ NoEnd /\ ~View.asked
      BY PackingSees DEF Packing
    <3>3. ~match.open
      BY <1>1 DEF ClientTyped, ServerSound
    <3>4. NoQueue'
      BY <1>2 DEF NoQueue, Only
    <3> QED BY <1>1, <3>1, <3>2, <3>3, <3>4, StartsFight, FightKept
  <2>3. CASE match.ready \cup {0} # {0, 1}
    <3>1. srv' = srv /\ down' = down
      BY <2>1, <2>3 DEF ReadyFrom
    <3>2. PartsIn(up') = PartsIn(up)
      BY <1>4, <1>7
    <3>3. MirrorAgrees'
      BY <1>1, <1>5, <3>1, <3>2 DEF MirrorAgrees
    <3>4. Packing'
      BY <1>1, <1>2, <1>4, <3>1, <3>3 DEF Packing
    <3> QED BY <3>1, <3>4 DEF Kept, Stages
  <2> QED BY <2>2, <2>3
<1> QED BY <1>2, <1>6, <1>7

LEMMA HandleFighting ==
  ASSUME ClientTyped, ~srv.closing, Fighting, Handle
  PROVE  Kept'
<1> DEFINE m == Head(up)
<1>1. me' = me /\ up # <<>> /\ up' = Tail(up) /\ OnRequest(m) /\ srv \in ServerRec
      /\ srv.state = "combat" /\ up \in Seq(Requests)
  BY DEF Handle, Fighting, ClientTyped, ServerSound
<1>2. NoQueue' /\ m.type \in {"PLACE", "READY", "CALL"} /\ m \in Requests
  BY <1>1, OnlyLess DEF Fighting, NoQueue
<1>3. m = Req("CALL") \/ (Req("CALL") \in ToSet(up) => Req("CALL") \in ToSet(up'))
  <2>1. \A x \in ToSet(up) : x = m \/ x \in ToSet(up')
    <3>1. ASSUME NEW i \in DOMAIN up PROVE up[i] = m \/ up[i] \in ToSet(up')
      <4>1. CASE i = 1
        BY <1>1, <4>1
      <4>2. CASE i # 1
        <5>1. i - 1 \in DOMAIN up' /\ up'[i - 1] = up[i]
          BY <1>1, <4>2
        <5> QED BY <5>1 DEF ToSet
      <4> QED BY <4>1, <4>2
    <3> QED BY <3>1 DEF ToSet
  <2> QED BY <2>1
<1> HIDE DEF m
<1>4. CASE Refuse
  BY <1>1, <1>4, RefuseLoses
<1>5. CASE m.type = "PLACE"
  <2>1. m # Req("CALL")
    BY <1>5 DEF Req
  <2>2. PlaceFrom(m.part)
    BY <1>1, <1>5 DEF OnRequest
  <2>3. srv' = srv /\ match' = match /\ down' = down \o <<"REJECT">>
    BY <1>1, <2>2 DEF PlaceFrom, Say
  <2>4. "REJECT" \in Replies \ {"EOF"}
    BY DEF Replies
  <2>5. View' = OnMsg(View, "REJECT")
    BY <1>1, <2>3, <2>4, ViewSays
  <2>6. View' = View
    BY <2>5 DEF OnMsg
  <2>7. NoEnd'
    BY <2>3, <2>4, NoEndSays DEF Fighting
  <2>8. Fighting'
    BY <1>1, <1>2, <1>3, <2>1, <2>3, <2>6, <2>7 DEF Fighting
  <2> QED BY <2>3, <2>8, FightKept
<1>6. CASE m.type = "CALL" /\ match.open
  <2>1. CallFrom(0)
    BY <1>1, <1>6 DEF OnRequest
  <2> QED BY <1>1, <1>2, <1>6, <2>1, CallKept
<1> QED BY <1>1, <1>2, <1>4, <1>5, <1>6 DEF OnRequest

LEMMA HandleOver ==
  ASSUME ClientTyped, ~srv.closing, Over, Handle
  PROVE  Kept'
<1> DEFINE m == Head(up)
<1>1. me' = me /\ up # <<>> /\ up' = Tail(up) /\ OnRequest(m) /\ srv \in ServerRec
      /\ srv.state = "ready"
  BY DEF Handle, Over, ClientTyped, ServerSound
<1>2. NoQueue' /\ m.type \in {"PLACE", "READY", "CALL"}
  BY <1>1, OnlyLess DEF Over, NoQueue
<1> HIDE DEF m
<1>3. CASE Refuse
  BY <1>1, <1>3, RefuseLoses
<1>4. CASE m.type = "PLACE"
  <2>1. PlaceFrom(m.part)
    BY <1>1, <1>4 DEF OnRequest
  <2>2. srv' = srv
    BY <1>1, <2>1 DEF PlaceFrom
  <2>3. Over'
    BY <1>1, <1>2, <2>2 DEF Over
  <2> QED BY <2>2, <2>3 DEF Kept, Stages
<1> QED BY <1>1, <1>2, <1>3, <1>4 DEF OnRequest

LEMMA HandleKept ==
  ASSUME ClientTyped, ~srv.closing, Stages, Handle
  PROVE  Kept'
<1>1. ~InQueue /\ ~Dealt
  BY DEF Handle, InQueue, Dealt
<1> QED BY <1>1, HandleGreeting, HandleAsking, HandlePacking, HandleFighting, HandleOver DEF Stages

\* A player who has left has lost the session.
LEMMA QuitKept == ClientTyped /\ (Quit \/ NoResponse) => Kept'
<1> SUFFICES ASSUME ClientTyped, Quit \/ NoResponse PROVE Kept'
  OBVIOUS
<1>1. me' = [me EXCEPT !.state = "gone"] /\ me \in ClientRec
  BY DEF Quit, NoResponse, Die, ClientTyped
<1> QED BY <1>1 DEF Kept, Lost, ClientRec

\* The greeting, from the client's side.
LEMMA GreetKept ==
  ASSUME ClientTyped, ~srv.closing, Stages, Probe \/ Greeted
  PROVE  Kept'
<1>1. me.state \in {"probe", "greet"} /\ srv' = srv /\ me \in ClientRec /\ up \in Seq(Requests)
  BY DEF Probe, Greeted, ClientTyped
<1>2. Greeting
  BY <1>1 DEF Stages, Asking, InQueue, Dealt, Packing, Fighting, Over, InLoop
<1>3. CASE Probe
  <2>1. me' = [me EXCEPT !.state = "greet"] /\ up' = Append(up, Req("AUTH"))
    BY <1>3 DEF Probe, SendAuth
  <2>2. down' = down
    BY <1>2, <1>3 DEF Probe, Greeting
  <2>3. Only(up', {"HELLO", "AUTH"})
    BY <1>1, <1>2, <2>1 DEF Greeting, Only, Req
  <2>4. me'.state = "greet" /\ ~me'.asked
    BY <1>1, <1>2, <2>1 DEF ClientRec, Greeting
  <2>5. Greeting'
    BY <1>1, <1>2, <2>2, <2>3, <2>4 DEF Greeting
  <2> QED BY <1>1, <2>5 DEF Kept, Stages
<1>4. CASE Greeted
  <2>1. srv.state = "ready" /\ down = <<"WELCOME">>
    BY <1>2, <1>4 DEF Greeted, Greeting
  <2>2. me' = [me EXCEPT !.state = "queued"] /\ up' = Append(up, Req("QUEUE")) /\ down' = <<>>
    BY <1>4, <2>1 DEF Greeted
  <2>3. me'.state = "queued" /\ ~me'.asked
    BY <1>1, <1>2, <2>2 DEF ClientRec, Greeting
  <2>4. \E msgs \in Seq(Requests) : up' = Append(msgs, Req("QUEUE")) /\ Only(msgs, {"HELLO", "AUTH"})
    BY <1>1, <1>2, <2>2 DEF Greeting
  <2>5. Asking'
    BY <1>1, <2>1, <2>2, <2>3, <2>4 DEF Asking
  <2> QED BY <1>1, <2>5 DEF Kept, Stages
<1> QED BY <1>3, <1>4

\* The keys.
LEMMA MoreAsked ==
  ASSUME NEW m \in Requests, m.type \in {"PLACE", "READY", "CALL"}, ClientTyped, NoQueue,
         up' = Append(up, m)
  PROVE  NoQueue' /\ (Req("CALL") \in ToSet(up) => Req("CALL") \in ToSet(up')) /\ m \in ToSet(up')
<1>1. /\ up \in Seq(Requests) /\ Len(up) \in Nat /\ DOMAIN up = 1 .. Len(up)
      /\ DOMAIN up' = 1 .. Len(up) + 1
      /\ up'[Len(up) + 1] = m /\ \A i \in 1 .. Len(up) : up'[i] = up[i]
  BY DEF ClientTyped
<1>2. 1 .. Len(up) \subseteq 1 .. Len(up) + 1 /\ Len(up) + 1 \in 1 .. Len(up) + 1
      /\ \A i \in 1 .. Len(up) + 1 : i \in 1 .. Len(up) \/ i = Len(up) + 1
  BY <1>1
<1>3. NoQueue'
  BY <1>1, <1>2 DEF NoQueue, Only
<1>4. \A x \in ToSet(up) : x \in ToSet(up')
  BY <1>1, <1>2 DEF ToSet
<1>5. m \in ToSet(up')
  BY <1>1, <1>2 DEF ToSet
<1> QED BY <1>3, <1>4, <1>5

\* Keys are no news to a player in combat, or after it.
LEMMA KeysFight ==
  ASSUME ClientTyped, ~srv.closing, Fighting \/ Over, ClientTyped', srv' = srv, match' = match,
         down' = down, me'.state = me.state, me'.asked = me.asked,
         NoQueue', Req("CALL") \in ToSet(up) => Req("CALL") \in ToSet(up')
  PROVE  Kept'
<1>1. me \in ClientRec /\ me' \in ClientRec /\ down \in Seq(Replies)
  BY DEF ClientTyped
<1>2. Like(me, me') /\ Like(me', me)
  BY DEF Like
<1>3. Like(OnMsgs(me, down), OnMsgs(me', down)) /\ Like(OnMsgs(me', down), OnMsgs(me, down))
  BY <1>1, <1>2, ReadLike
<1>4. View'.state = View.state /\ (View'.asked => View.asked) /\ (View.asked => View'.asked)
  BY <1>3 DEF Like, View
<1>5. CASE Fighting
  <2>1. NoEnd'
    BY <1>5 DEF Fighting, NoEnd
  <2>2. Fighting'
    BY <1>4, <1>5, <2>1 DEF Fighting
  <2> QED BY <2>2, FightKept
<1>6. CASE Over
  <2>1. Over'
    BY <1>6 DEF Over
  <2> QED BY <2>1 DEF Kept, Stages
<1> QED BY <1>5, <1>6

\* What the player does: a part, READY, a call.
LEMMA KeyPlaceKept ==
  ASSUME ClientTyped, ~srv.closing, Stages, KeyPlace, ClientTyped'
  PROVE  Kept'
<1>1. PICK p \in Parts : TryPlace(p)
  BY DEF KeyPlace
<1>2. /\ me.state = "packing" /\ srv' = srv /\ match' = match /\ down' = down /\ me \in ClientRec
      /\ up \in Seq(Requests) /\ srv \in ServerRec
  BY <1>1 DEF KeyPlace, Playing, TryPlace, ClientTyped, ServerSound
<1>3. Packing \/ Fighting \/ Over
  BY <1>2 DEF Stages, Greeting, Asking, InQueue, Dealt
<1>4. CASE ~Legal(me.ship, p)
  <2>1. UNCHANGED vars
    BY <1>1, <1>4 DEF TryPlace, vars
  <2>2. Packing' \/ Fighting' \/ Over'
    BY <1>3, <2>1 DEF vars, Packing, MirrorAgrees, Fighting, Over, View, NoQueue, NoEnd
  <2> QED BY <1>2, <2>2 DEF Kept, Stages
<1>5. CASE Legal(me.ship, p)
  <2>1. me' = [me EXCEPT !.ship = @ \cup {p}] /\ up' = Append(up, PlaceReq(p))
    BY <1>1, <1>5 DEF TryPlace
  <2>2. me'.state = me.state /\ me'.asked = me.asked /\ me'.ship = me.ship \cup {p}
    BY <1>2, <2>1 DEF ClientRec
  <2>3. PlaceReq(p) \in Requests /\ PlaceReq(p).type = "PLACE"
    BY AreRequests DEF PlaceReq
  <2>4. CASE Fighting \/ Over
    <3>1. NoQueue
      BY <2>4 DEF Fighting, Over
    <3>2. NoQueue' /\ (Req("CALL") \in ToSet(up) => Req("CALL") \in ToSet(up'))
      BY <2>1, <2>3, <3>1, MoreAsked
    <3> QED BY <1>2, <2>2, <2>4, <3>2, KeysFight
  <2>5. CASE Packing
    <3>1. /\ me.ship = srv.ship \cup PartsIn(up) /\ srv.ship \cap PartsIn(up) = {}
          /\ \A a, b \in me.ship : <<a, b>> \notin Clash
          /\ Distinct(up) /\ Only(up, {"PLACE", "READY"}) /\ srv.state = "packing" /\ ~me.asked
          /\ \A i \in DOMAIN down : down[i] = "ACK"
      BY <1>2, <2>5 DEF Packing, MirrorAgrees
    <3>2. p \notin me.ship /\ \A q \in me.ship : <<p, q>> \notin Clash /\ <<q, p>> \notin Clash
      BY <1>5 DEF Legal
    <3>3. PartsIn(up') = PartsIn(up) \cup {p} /\ Distinct(up')
      BY <1>2, <2>1, <3>1, <3>2, AskedMore
    <3>4. Only(up', {"PLACE", "READY"})
      BY <1>2, <2>1, <2>3, <3>1 DEF Only
    <3>5. <<p, p>> \notin Clash
      BY ClientAssumption
    <3>6. \A a, b \in me'.ship : <<a, b>> \notin Clash
      BY <2>2, <3>1, <3>2, <3>5
    <3>7. me'.ship = srv'.ship \cup PartsIn(up') /\ srv'.ship \cap PartsIn(up') = {}
      BY <1>2, <2>2, <3>1, <3>2, <3>3
    <3>8. MirrorAgrees'
      BY <3>6, <3>7 DEF MirrorAgrees
    <3>9. Packing'
      BY <1>2, <2>2, <3>1, <3>3, <3>4, <3>8 DEF Packing
    <3> QED BY <1>2, <3>9 DEF Kept, Stages
  <2> QED BY <1>3, <2>4, <2>5
<1> QED BY <1>4, <1>5

LEMMA KeyReadyKept ==
  ASSUME ClientTyped, ~srv.closing, Stages, KeyReady, ClientTyped'
  PROVE  Kept'
<1>1. /\ me.state = "packing" /\ srv' = srv /\ match' = match /\ down' = down /\ me \in ClientRec
      /\ up \in Seq(Requests) /\ srv \in ServerRec
      /\ me' = [me EXCEPT !.ready = TRUE] /\ up' = Append(up, Req("READY"))
  BY DEF KeyReady, Playing, ClientTyped, ServerSound
<1>2. Packing \/ Fighting \/ Over
  BY <1>1 DEF Stages, Greeting, Asking, InQueue, Dealt
<1>3. me'.state = me.state /\ me'.asked = me.asked /\ me'.ship = me.ship
  BY <1>1 DEF ClientRec
<1>4. Req("READY") \in Requests /\ Req("READY").type = "READY"
  BY AreRequests DEF Req
<1>5. CASE Fighting \/ Over
  <2>1. NoQueue
    BY <1>5 DEF Fighting, Over
  <2>2. NoQueue' /\ (Req("CALL") \in ToSet(up) => Req("CALL") \in ToSet(up'))
    BY <1>1, <1>4, <2>1, MoreAsked
  <2> QED BY <1>1, <1>3, <1>5, <2>2, KeysFight
<1>6. CASE Packing
  <2>1. Distinct(up) /\ Only(up, {"PLACE", "READY"})
    BY <1>6 DEF Packing
  <2>2. PartsIn(up') = PartsIn(up) /\ Distinct(up')
    BY <1>1, <2>1, AskedSame
  <2>3. Only(up', {"PLACE", "READY"})
    BY <1>1, <1>4, <2>1 DEF Only
  <2>4. MirrorAgrees'
    BY <1>1, <1>3, <1>6, <2>2 DEF Packing, MirrorAgrees
  <2>5. Packing'
    BY <1>1, <1>3, <1>6, <2>2, <2>3, <2>4 DEF Packing
  <2> QED BY <1>1, <2>5 DEF Kept, Stages
<1> QED BY <1>2, <1>5, <1>6

LEMMA KeyCallKept ==
  ASSUME ClientTyped, ~srv.closing, Stages, KeyCall, ClientTyped'
  PROVE  Kept'
<1>1. /\ me.state = "combat" /\ srv' = srv /\ match' = match /\ down' = down
      /\ me \in ClientRec /\ me' \in ClientRec /\ down \in Seq(Replies)
      /\ me' = [me EXCEPT !.asked = FALSE] /\ up' = Append(up, Req("CALL"))
  BY DEF KeyCall, Playing, ClientTyped
<1>2. NoQueue /\ (Fighting \/ Over)
  BY <1>1 DEF Stages, Greeting, Asking, InQueue, Dealt, Packing, Fighting, Over
<1>3. me'.state = me.state /\ ~me'.asked
  BY <1>1 DEF ClientRec
<1>4. Req("CALL") \in Requests /\ Req("CALL").type = "CALL"
  BY AreRequests DEF Req
<1>5. NoQueue' /\ Req("CALL") \in ToSet(up')
  BY <1>1, <1>2, <1>4, MoreAsked
<1>6. Like(me', me)
  BY <1>3 DEF Like
<1>7. View'.state = View.state /\ (View'.asked => View.asked)
  <2>1. Like(OnMsgs(me', down), OnMsgs(me, down))
    BY <1>1, <1>6, ReadLike
  <2> QED BY <1>1, <2>1 DEF Like, View
<1>8. CASE Fighting
  <2>1. NoEnd'
    BY <1>1, <1>8 DEF Fighting, NoEnd
  <2>2. Fighting'
    BY <1>1, <1>3, <1>5, <1>7, <1>8, <2>1 DEF Fighting
  <2> QED BY <1>1, <2>2, FightKept
<1>9. CASE Over
  <2>1. Over'
    BY <1>1, <1>3, <1>5, <1>9 DEF Over
  <2> QED BY <1>1, <2>1 DEF Kept, Stages
<1> QED BY <1>2, <1>8, <1>9

\* Reading some of what is under way takes it from there, and is as good as none of
\* it read for what the client will be in the end.
LEMMA PollReads ==
  ASSUME ClientTyped, NEW n \in 1 .. Len(down), Poll(n), NoEnd
  PROVE  /\ me' = OnMsgs(me, SubSeq(down, 1, n)) /\ up' = up \o Sent(SubSeq(down, 1, n))
         /\ View' = View /\ NoEnd'
         /\ me'.state \in InLoop
<1> DEFINE msgs == SubSeq(down, 1, n)
           rest == SubSeq(down, n + 1, Len(down))
<1>1. /\ me \in ClientRec /\ down \in Seq(Replies) /\ me.state \in InLoop /\ down' = rest
      /\ msgs \in Seq(Replies)
  BY DEF Poll, ClientTyped
<1>2. \A i \in 1 .. Len(msgs) : msgs[i] # "EOF"
  BY <1>1 DEF NoEnd
<1>3. ~Contains(msgs, "EOF")
  BY <1>2 DEF Contains
<1>4. me' = OnMsgs(me, msgs) /\ up' = up \o Sent(msgs)
  BY <1>3 DEF Poll
<1>5. OnMsgs(OnMsgs(me, msgs), rest) = OnMsgs(me, down)
  BY <1>1, ReadOn
<1>6. View' = View
  BY <1>1, <1>4, <1>5 DEF View
<1>7. NoEnd'
  BY <1>1 DEF NoEnd
<1>8. me'.state \in InLoop
  BY <1>1, <1>4, ReadTyped
<1> QED BY <1>4, <1>6, <1>7, <1>8

\* A client that is in its queue reads no more than that.
LEMMA PollQueued ==
  ASSUME ClientTyped, ~srv.closing, InQueue, NEW n \in 1 .. Len(down), Poll(n)
  PROVE  Kept'
<1>1. /\ me \in ClientRec /\ srv' = srv /\ up = <<>> /\ "QUEUED" \in Replies
      /\ down \in {<<"QUEUED">>, <<>>}
  BY DEF InQueue, Poll, ClientTyped, Replies
<1>2. down = <<"QUEUED">> /\ n = 1 /\ Len(down) = 1
  <2>1. Len(<<>>) = 0 /\ Len(<<"QUEUED">>) = 1
    OBVIOUS
  <2>2. down # <<>>
    BY <2>1
  <2>3. down = <<"QUEUED">>
    BY <1>1, <2>2
  <2> QED BY <2>1, <2>3
<1>3. NoEnd
  BY <1>2 DEF NoEnd
<1>4. me' = OnMsgs(me, <<"QUEUED">>) /\ up' = up \o Sent(<<"QUEUED">>) /\ down' = <<>>
  <2>1. SubSeq(down, 1, n) = <<"QUEUED">> /\ SubSeq(down, n + 1, Len(down)) = <<>>
    BY <1>1, <1>2, PartsOfOne
  <2> QED BY <1>3, <2>1, PollReads DEF Poll
<1>5. me' = me
  <2>1. OnMsg(me, "QUEUED") = me
    BY DEF OnMsg
  <2> QED BY <1>1, <1>4, <2>1, ReadOne
<1>6. up' = <<>>
  <2>1. ~Contains(<<"QUEUED">>, "FOUND")
    BY DEF Contains
  <2>2. Sent(<<"QUEUED">>) = <<>>
    BY <2>1 DEF Sent
  <2> QED BY <1>1, <1>4, <2>2
<1>7. InQueue'
  BY <1>1, <1>4, <1>5, <1>6 DEF InQueue
<1> QED BY <1>1, <1>7 DEF Kept, Stages

\* The ship of a client that begins to pack is what it has asked for.
LEMMA PacksAnew ==
  ASSUME srv.state = "packing", srv.ship = {}, me.selftest \in BOOLEAN,
         me' = OnMsg(me, "FOUND") \/ me' = OnMsg(OnMsg(me, "QUEUED"), "FOUND"),
         me \in ClientRec, ~me.asked, down' = <<>>, srv' = srv,
         up' = IF me.selftest THEN Append(Tried.sent, Req("READY")) ELSE <<>>
  PROVE  Packing'
<1>1. /\ me'.state = "packing" /\ ~me'.asked
      /\ me'.ship = IF me.selftest THEN Tried.ship ELSE {}
  BY DEF OnMsg, ClientRec
<1>2. \A i \in DOMAIN down' : down'[i] = "ACK"
  OBVIOUS
<1>3. Only(up', {"PLACE", "READY"}) /\ Distinct(up') /\ PartsIn(up') = me'.ship
      /\ \A p, q \in me'.ship : <<p, q>> \notin Clash
  <2>1. CASE me.selftest
    <3>1. /\ Tried.sent \in Seq([type : {"PLACE"}, part : Parts])
          /\ [type : {"PLACE"}, part : Parts] \subseteq Requests
          /\ PartsIn(Tried.sent) = Tried.ship /\ Distinct(Tried.sent)
          /\ \A p, q \in Tried.ship : <<p, q>> \notin Clash
      BY TriedIs DEF TriedRec, TriedOK, Requests
    <3>2. Tried.sent \in Seq(Requests)
      BY <3>1, SeqMonotonic
    <3>3. PartsIn(up') = Tried.ship /\ Distinct(up')
      BY <2>1, <3>1, <3>2, AskedSame
    <3>4. \A i \in DOMAIN Tried.sent : Tried.sent[i].type = "PLACE"
      <4>1. \A i \in DOMAIN Tried.sent : Tried.sent[i] \in [type : {"PLACE"}, part : Parts]
        BY <3>1, Members
      <4> QED BY <4>1
    <3>5. Only(up', {"PLACE", "READY"})
      BY <2>1, <3>2, <3>4 DEF Only, Req
    <3> QED BY <1>1, <2>1, <3>1, <3>3, <3>5
  <2>2. CASE ~me.selftest
    BY <1>1, <2>2 DEF Only, Distinct, PartsIn
  <2> QED BY <2>1, <2>2
<1>4. MirrorAgrees'
  BY <1>3 DEF MirrorAgrees
<1> QED BY <1>1, <1>2, <1>3, <1>4 DEF Packing

\* The client reads the news, at each stage.
LEMMA PollDealt ==
  ASSUME ClientTyped, ~srv.closing, Dealt, NEW n \in 1 .. Len(down), Poll(n)
  PROVE  Kept'
<1> DEFINE sent == IF me.selftest THEN Append(Tried.sent, Req("READY")) ELSE <<>>
<1>1. /\ me \in ClientRec /\ me.state = "queued" /\ ~me.asked /\ srv' = srv /\ up = <<>>
      /\ srv.state = "packing" /\ srv.ship = {} /\ me.selftest \in BOOLEAN
      /\ down \in {<<"QUEUED", "FOUND">>, <<"FOUND">>}
  BY DEF Dealt, Poll, ClientTyped, ClientRec
<1>2. "FOUND" \in Replies /\ "QUEUED" \in Replies
  BY DEF Replies
<1>3. \A msgs \in {<<"QUEUED", "FOUND">>, <<"FOUND">>} :
        msgs \in Seq(Replies) /\ Contains(msgs, "FOUND")
  <2>1. <<"QUEUED", "FOUND">> \in Seq(Replies) /\ <<"FOUND">> \in Seq(Replies)
    BY <1>2
  <2>2. Contains(<<"FOUND">>, "FOUND")
    BY DEF Contains
  <2>3. Contains(<<"QUEUED", "FOUND">>, "FOUND")
    <3>1. 2 \in 1 .. Len(<<"QUEUED", "FOUND">>) /\ <<"QUEUED", "FOUND">>[2] = "FOUND"
      OBVIOUS
    <3> QED BY <3>1 DEF Contains
  <2> QED BY <2>1, <2>2, <2>3
<1>4. \A msgs \in {<<"QUEUED", "FOUND">>, <<"FOUND">>} : Sent(msgs) = sent
  BY <1>3 DEF Sent
<1>5. sent \in Seq(Requests)
  BY <1>3, <1>4, SentTyped
<1>6. <<>> \o sent = sent
  <2> HIDE DEF sent
  <2> QED BY <1>5
<1> HIDE DEF sent
<1>7. NoEnd
  BY <1>1, DealtSees
<1>8. ASSUME down = <<"FOUND">> PROVE Kept'
  <2>1. n = 1 /\ Len(down) = 1
    BY <1>8
  <2>2. SubSeq(down, 1, n) = down /\ SubSeq(down, n + 1, Len(down)) = <<>>
    BY <1>2, <1>8, <2>1, PartsOfOne
  <2>3. me' = OnMsgs(me, down) /\ up' = up \o Sent(down) /\ down' = <<>>
    BY <1>7, <2>2, PollReads DEF Poll
  <2>4. me' = OnMsg(me, "FOUND") /\ up' = sent
    BY <1>1, <1>2, <1>4, <1>6, <1>8, <2>3, ReadOne
  <2>5. Packing'
    BY <1>1, <2>3, <2>4, PacksAnew DEF sent
  <2> QED BY <1>1, <2>5 DEF Kept, Stages
<1>9. ASSUME down = <<"QUEUED", "FOUND">>, n = 2 PROVE Kept'
  <2>1. SubSeq(down, 1, n) = down /\ SubSeq(down, n + 1, Len(down)) = <<>>
    BY <1>9, PartsOfDealt
  <2>2. me' = OnMsgs(me, down) /\ up' = up \o Sent(down) /\ down' = <<>>
    BY <1>7, <2>1, PollReads DEF Poll
  <2>3. me' = OnMsg(OnMsg(me, "QUEUED"), "FOUND") /\ up' = sent
    BY <1>1, <1>4, <1>6, <1>9, <2>2, ReadDealt
  <2>4. Packing'
    BY <1>1, <2>2, <2>3, PacksAnew DEF sent
  <2> QED BY <1>1, <2>4 DEF Kept, Stages
<1>10. ASSUME down = <<"QUEUED", "FOUND">>, n = 1 PROVE Kept'
  <2>1. SubSeq(down, 1, n) = <<"QUEUED">> /\ SubSeq(down, n + 1, Len(down)) = <<"FOUND">>
    BY <1>10, PartsOfDealt
  <2>2. me' = OnMsgs(me, <<"QUEUED">>) /\ up' = up \o Sent(<<"QUEUED">>) /\ down' = <<"FOUND">>
    BY <1>7, <2>1, PollReads DEF Poll
  <2>3. me' = me
    <3>1. OnMsg(me, "QUEUED") = me
      BY DEF OnMsg
    <3> QED BY <1>1, <1>2, <2>2, <3>1, ReadOne
  <2>4. up' = <<>>
    <3>1. ~Contains(<<"QUEUED">>, "FOUND")
      BY DEF Contains
    <3>2. Sent(<<"QUEUED">>) = <<>>
      BY <3>1 DEF Sent
    <3> QED BY <1>1, <2>2, <3>2
  <2>5. Dealt'
    BY <1>1, <2>2, <2>3, <2>4 DEF Dealt
  <2> QED BY <1>1, <2>5 DEF Kept, Stages
<1>11. down = <<"QUEUED", "FOUND">> => n = 1 \/ n = 2
  OBVIOUS
<1> QED BY <1>1, <1>8, <1>9, <1>10, <1>11

LEMMA PollPacking ==
  ASSUME ClientTyped, ~srv.closing, Packing, NEW n \in 1 .. Len(down), Poll(n)
  PROVE  Kept'
<1> DEFINE msgs == SubSeq(down, 1, n)
<1>1. /\ me \in ClientRec /\ srv' = srv /\ down \in Seq(Replies) /\ up \in Seq(Requests)
      /\ down' = SubSeq(down, n + 1, Len(down)) /\ \A i \in DOMAIN down : down[i] = "ACK"
  BY DEF Packing, Poll, ClientTyped
<1>2. msgs \in Seq(Replies) /\ \A i \in DOMAIN msgs : msgs[i] = "ACK"
  BY <1>1
<1>3. \A i \in DOMAIN down' : down'[i] = "ACK"
  BY <1>1
<1>4. me' = OnMsgs(me, msgs) /\ up' = up \o Sent(msgs)
  BY PackingSees, PollReads
<1> HIDE DEF msgs
<1>5. me' = me
  BY <1>1, <1>2, <1>4, ReadTyped DEF Idle
<1>6. Sent(msgs) = <<>>
  <2>1. ~Contains(msgs, "FOUND")
    BY <1>2 DEF Contains
  <2> QED BY <2>1 DEF Sent
<1>7. up' = up
  BY <1>1, <1>4, <1>6
<1>8. Packing'
  BY <1>1, <1>3, <1>5, <1>7 DEF Packing, MirrorAgrees
<1> QED BY <1>1, <1>8 DEF Kept, Stages

\* What a self-test sends is for its match too.
LEMMA NoQueueSent ==
  ASSUME ClientTyped, NoQueue, NEW msgs \in Seq(Replies), up' = up \o Sent(msgs)
  PROVE  NoQueue' /\ (Req("CALL") \in ToSet(up) => Req("CALL") \in ToSet(up'))
<1> DEFINE sent == Sent(msgs)
<1>1. /\ up \in Seq(Requests) /\ sent \in Seq(Requests) /\ Only(sent, {"PLACE", "READY"})
      /\ up' = up \o sent
  BY SentTyped DEF ClientTyped
<1> HIDE DEF sent
<1>2. /\ Len(up) \in Nat /\ Len(sent) \in Nat /\ DOMAIN up = 1 .. Len(up) /\ DOMAIN sent = 1 .. Len(sent)
      /\ DOMAIN up' = 1 .. Len(up) + Len(sent)
      /\ \A i \in 1 .. Len(up) : up'[i] = up[i]
      /\ \A i \in 1 .. Len(up) + Len(sent) : i > Len(up) => up'[i] = sent[i - Len(up)]
  BY <1>1
<1>3. /\ 1 .. Len(up) \subseteq 1 .. Len(up) + Len(sent)
      /\ \A i \in 1 .. Len(up) + Len(sent) :
           i \in 1 .. Len(up) \/ (i > Len(up) /\ i - Len(up) \in 1 .. Len(sent))
  BY <1>2
<1>4. NoQueue'
  BY <1>1, <1>2, <1>3 DEF NoQueue, Only
<1>5. \A x \in ToSet(up) : x \in ToSet(up')
  BY <1>2, <1>3 DEF ToSet
<1> QED BY <1>4, <1>5

LEMMA PollFighting ==
  ASSUME ClientTyped, ~srv.closing, Fighting, NEW n \in 1 .. Len(down), Poll(n)
  PROVE  Kept'
<1> DEFINE msgs == SubSeq(down, 1, n)
<1>1. msgs \in Seq(Replies) /\ srv' = srv /\ match' = match
  BY DEF ClientTyped, Poll
<1>2. /\ me' = OnMsgs(me, msgs) /\ up' = up \o Sent(msgs) /\ View' = View /\ NoEnd'
      /\ me'.state \in InLoop
  BY PollReads DEF Fighting
<1> HIDE DEF msgs
<1>3. NoQueue' /\ (Req("CALL") \in ToSet(up) => Req("CALL") \in ToSet(up'))
  BY <1>1, <1>2, NoQueueSent DEF Fighting
<1>4. Fighting'
  BY <1>1, <1>2, <1>3 DEF Fighting
<1> QED BY <1>1, <1>4, FightKept

LEMMA PollOver ==
  ASSUME ClientTyped, ~srv.closing, Over, NEW n \in 1 .. Len(down), Poll(n)
  PROVE  Kept'
<1> DEFINE msgs == SubSeq(down, 1, n)
<1>1. /\ msgs \in Seq(Replies) /\ srv' = srv /\ me \in ClientRec /\ me.state \in InLoop
      /\ \/ me' = [me EXCEPT !.state = "error"] /\ up' = up
         \/ me' = OnMsgs(me, msgs) /\ up' = up \o Sent(msgs)
  BY DEF ClientTyped, Poll
<1> HIDE DEF msgs
<1>2. ASSUME me' = [me EXCEPT !.state = "error"], up' = up PROVE Over'
  BY <1>1, <1>2 DEF Over, NoQueue, Only, InLoop, ClientRec
<1>3. ASSUME me' = OnMsgs(me, msgs), up' = up \o Sent(msgs) PROVE Over'
  <2>1. me'.state \in InLoop
    BY <1>1, <1>3, ReadTyped
  <2>2. NoQueue'
    BY <1>1, <1>3, NoQueueSent DEF Over
  <2> QED BY <1>1, <2>1, <2>2 DEF Over
<1> QED BY <1>1, <1>2, <1>3 DEF Kept, Stages

LEMMA PollKept ==
  ASSUME ClientTyped, ~srv.closing, Stages, NEW n \in 1 .. Len(down), Poll(n)
  PROVE  Kept'
<1>1. me.state \in InLoop /\ down # <<>>
  BY DEF Poll
<1>2. ~Greeting /\ ~Asking
  BY <1>1 DEF Greeting, Asking, InLoop
<1> QED BY <1>2, PollQueued, PollDealt, PollPacking, PollFighting, PollOver DEF Stages

\* Each step leaves the two of them together, or the session lost.
LEMMA ClientStep == ClientInv /\ [Next]_vars => ClientInv'
<1> SUFFICES ASSUME ClientInv, [Next]_vars PROVE ClientInv'
  OBVIOUS
<1>1. ClientTyped /\ ClientTyped'
  BY StepTyped DEF ClientInv
<1>2. CASE Lost
  BY <1>1, <1>2, LostStays DEF ClientInv
<1>3. ASSUME ~srv.closing, Stages PROVE Kept'
  <2>1. CASE Keys
    BY <1>1, <1>3, <2>1, KeyPlaceKept, KeyReadyKept, KeyCallKept, QuitKept DEF Keys
  <2>2. CASE \E n \in 1 .. Len(down) : Poll(n)
    BY <1>1, <1>3, <2>2, PollKept
  <2>3. CASE Probe \/ NoResponse \/ Greeted
    BY <1>1, <1>3, <2>3, QuitKept, GreetKept
  <2>4. CASE Timers
    BY <1>1, <1>3, <2>4, ReadyOrDeadline, BreakOver, TickKept DEF Timers
  <2>5. CASE Rival
    BY <1>1, <1>3, <2>5, ReadyOrDeadline, BreakOver, LeavesMatch DEF Rival
  <2>6. CASE Server
    BY <1>1, <1>3, <2>6, HandleKept, VerifiedKept, Dealing, LeavesSession DEF Server
  <2>7. CASE UNCHANGED vars
    <3>1. Stages' <=> Stages
      BY <2>7 DEF vars, Stages, Greeting, Asking, InQueue, Dealt, Packing, MirrorAgrees, Fighting,
                  Over, View, NoQueue, NoEnd
    <3> QED BY <1>3, <2>7, <3>1 DEF Kept, vars
  <2> QED BY <2>1, <2>2, <2>3, <2>4, <2>5, <2>6, <2>7 DEF Next, Client
<1>4. Kept'
  BY <1>2, <1>3, LostStays, <1>1 DEF ClientInv, Kept
<1> QED BY <1>1, <1>4 DEF ClientInv, Kept

\* The invariant holds of a session that begins.
LEMMA ClientStart == Init => ClientInv
<1> SUFFICES ASSUME Init PROVE ClientInv
  OBVIOUS
<1>1. /\ setup \in Setups /\ setup \in Setup /\ up = <<Req("HELLO")>> /\ down = <<>> /\ match = NewMatch
      /\ srv = [state |-> "connected", ship |-> {}, closing |-> FALSE]
      /\ me = [state |-> IF setup.token THEN "probe" ELSE "greet",
                ship |-> {}, ready |-> FALSE, asked |-> FALSE, selftest |-> setup.selftest]
  BY ClientAssumption DEF Init
<1>2. ServerSound
  BY <1>1, TicksAre DEF ServerSound, ServerRec, ServerStates, InMatch
<1>3. me \in ClientRec /\ me.selftest = setup.selftest
  BY <1>1 DEF ClientRec, ClientStates, Setup
<1>4. up \in Seq(Requests) /\ down \in Seq(Replies)
  BY <1>1, AreRequests
<1>5. Greeting /\ ~srv.closing
  BY <1>1 DEF Greeting, Only, Req
<1> QED BY <1>2, <1>3, <1>4, <1>5 DEF ClientInv, ClientTyped, Stages

\* What the stages say of the two sides.
LEMMA InvMirror == ClientInv => MirrorAgrees
<1> SUFFICES ASSUME ClientInv, srv.state = "packing", me.state = "packing" PROVE MirrorAgrees
  BY DEF MirrorAgrees
<1>1. Packing
  BY DEF ClientInv, Lost, Stages, Greeting, Asking, InQueue, Dealt, Fighting, Over
<1> QED BY <1>1 DEF Packing

\* What the stages say of the client's view.
LEMMA InvSides == ClientInv => SidesAgree
<1> SUFFICES ASSUME ClientInv, me.state \in InLoop, srv.state # "closed", ~srv.closing
             PROVE  /\ srv.state \in {"queued"} \cup InMatch => View.state = srv.state
                    /\ srv.state = "combat" =>
                         /\ match.open => View.asked \/ Req("CALL") \in ToSet(up) \/ 0 \in match.called
                         /\ View.asked => match.open
  BY DEF SidesAgree
<1>1. Stages
  BY DEF ClientInv, Lost, InLoop
<1>2. me \in ClientRec /\ ClientTyped
  BY DEF ClientInv, ClientTyped
<1>3. CASE Greeting \/ Asking \/ Over
  BY <1>3 DEF Greeting, Asking, Over, InMatch, InLoop
<1>4. CASE InQueue
  <2>1. View = me
    <3>1. "QUEUED" \in Replies /\ OnMsg(me, "QUEUED") = me
      BY DEF Replies, OnMsg
    <3>2. OnMsgs(me, <<"QUEUED">>) = me
      BY <1>2, <3>1, ReadOne
    <3>3. OnMsgs(me, <<>>) = me
      BY <1>2, ReadNone
    <3> QED BY <1>4, <3>2, <3>3 DEF InQueue, View
  <2> QED BY <1>4, <2>1 DEF InQueue
<1>5. CASE Dealt
  <2>1. View = OnMsg(me, "FOUND") \/ View = OnMsg(OnMsg(me, "QUEUED"), "FOUND")
    <3>1. "FOUND" \in Replies
      BY DEF Replies
    <3> QED BY <1>2, <1>5, <3>1, ReadOne, ReadDealt DEF Dealt, View
  <2>2. View.state = "packing"
    BY <1>2, <2>1 DEF OnMsg, ClientRec
  <2> QED BY <1>5, <2>2 DEF Dealt
<1>6. CASE Packing
  BY <1>2, <1>6, PackingSees DEF Packing
<1>7. CASE Fighting
  BY <1>7 DEF Fighting
<1> QED BY <1>1, <1>3, <1>4, <1>5, <1>6, <1>7 DEF Stages

\* What the types say.
LEMMA InvTyped == ClientInv => ClientTypeOK
<1> SUFFICES ASSUME ClientTyped PROVE ClientTypeOK
  BY DEF ClientInv
<1>1. up \in Seq(Requests) /\ down \in Seq(Replies)
  BY DEF ClientTyped
<1>2. ToSet(up) \subseteq Requests /\ ToSet(down) \subseteq Replies
  BY <1>1, Members DEF ToSet
<1> QED BY <1>2 DEF ClientTyped, ServerSound, ServerRec, MatchRec, ClientRec, ClientTypeOK

-----------------------------------------------------------------------------
(* The scripted tester.                                                    *)

TReplies == Replies \cup {"CUTREJECT"}

TesterRec ==
  [state : DOMAIN Expected \cup {"aim", "gone"}, todo : Seq(Requests \cup {Req("CUT")}),
   round : Nat, called : {0} \cup Calls, exit : {-1, 0, 1}]

TesterTyped ==
  /\ me \in TesterRec /\ up \in Seq(Requests \cup {Req("CUT")})
  /\ down \in Seq(TReplies)
  /\ me.state # "gone" => me.exit = -1
  /\ me.state = "aim" => me.round \in Calls
  /\ (me.state \in {"play", "aim"} \/ me.exit = 0) => me.todo = <<>>
  /\ Only(me.todo, {"PLACE", "CUT"})

\* What the server has not answered, and the answers that have not been read.
Told       == {"WELCOME", "QUEUED"} \cup Answers
Unread     == Count(down, Told)
NoGreeting == ~Contains(down, "WELCOME") /\ ~Contains(down, "QUEUED")
OneAtATime ==
  /\ me.state \in {"welcome", "queue"} => Len(up) + Unread <= 1
  /\ me.state = "found" => Len(up) + Unread = 0
  /\ me.state \in {"place", "cut"} => Len(up) + Unread = 1 /\ NoGreeting
  /\ me.state = "welcome" => Only(up, {"HELLO"})
  /\ me.state = "queue"   => Only(up, {"QUEUE"})
  /\ me.state \in {"place", "cut"} => Only(up, {"PLACE", "CUT"})

Asks   == \E i \in DOMAIN up : up[i].type = "QUEUE"
Before == srv.state \notin {"queued", "packing", "combat"} /\ match.ticks = 0
          /\ ~Contains(down, "END")

\* There is one match, and END is the end of it.
OneMatch ==
  /\ Asks => up = <<Req("QUEUE")>> /\ Before /\ me.exit # 0 /\ me.state \in {"queue", "gone"}
  /\ me.state = "welcome" => Before
  /\ srv.state = "queued" => match.ticks = 0
  /\ (me.exit = 0 \/ Contains(down, "END")) => srv.state \in {"ready", "closed"}

Breaks        == Count(down, {"BREAK"})
BreaksCounted == me.round + Breaks <= match.ticks \div RoundTicks

TesterInv == ServerSound /\ TesterTyped /\ OneAtATime /\ OneMatch /\ BreaksCounted

\* How many of some messages there are, with a message more or one less.
LEMMA CountIs == \A msgs \in Seq(TReplies) : \A S : Count(msgs, S) \in Nat
<1> SUFFICES ASSUME NEW msgs \in Seq(TReplies), NEW S PROVE Count(msgs, S) \in Nat
  OBVIOUS
<1>1. DOMAIN msgs = 1 .. Len(msgs) /\ Len(msgs) \in Nat
  OBVIOUS
<1>2. IsFiniteSet(DOMAIN msgs)
  BY <1>1, FS_Interval
<1> DEFINE In == {i \in DOMAIN msgs : msgs[i] \in S}
<1>3. In \in SUBSET DOMAIN msgs
  OBVIOUS
<1> HIDE DEF In
<1>4. IsFiniteSet(In)
  BY <1>2, <1>3, FS_Subset
<1>5. Cardinality(In) \in Nat
  BY <1>4, FS_CardinalityType
<1> QED BY <1>5 DEF Count, In

\* With one message more.
LEMMA CountMore ==
  \A msgs \in Seq(TReplies) : \A m, S :
    Count(Append(msgs, m), S) = Count(msgs, S) + (IF m \in S THEN 1 ELSE 0)
<1> SUFFICES ASSUME NEW msgs \in Seq(TReplies), NEW m, NEW S
             PROVE  Count(Append(msgs, m), S) = Count(msgs, S) + (IF m \in S THEN 1 ELSE 0)
  OBVIOUS
<1> DEFINE n    == Len(msgs)
           more == Append(msgs, m)
           In   == {i \in DOMAIN msgs : msgs[i] \in S}
           Out  == {i \in DOMAIN more : more[i] \in S}
<1>1. /\ n \in Nat /\ DOMAIN msgs = 1 .. n /\ DOMAIN more = 1 .. n + 1
      /\ more[n + 1] = m /\ \A i \in 1 .. n : more[i] = msgs[i]
  OBVIOUS
<1>2. /\ \A i \in 1 .. n + 1 : i \in 1 .. n \/ i = n + 1
      /\ 1 .. n \subseteq 1 .. n + 1 /\ n + 1 \in 1 .. n + 1 /\ n + 1 \notin 1 .. n
  BY <1>1
<1> HIDE DEF n, more
<1>3. IsFiniteSet(DOMAIN msgs)
  BY <1>1, FS_Interval
<1>4. IsFiniteSet(In)
  <2>1. In \in SUBSET DOMAIN msgs
    OBVIOUS
  <2> HIDE DEF In
  <2> QED BY <1>3, <2>1, FS_Subset
<1>5. n + 1 \notin In
  BY <1>1, <1>2
<1>6. CASE m \in S
  <2>1. Out = In \cup {n + 1}
    BY <1>1, <1>2, <1>6
  <2> HIDE DEF In, Out
  <2>2. Cardinality(Out) = Cardinality(In) + 1
    BY <1>4, <1>5, <2>1, FS_AddElement
  <2> QED BY <1>6, <2>2 DEF Count, In, Out, more
<1>7. CASE m \notin S
  <2>1. Out = In
    BY <1>1, <1>2, <1>7
  <2>2. Count(more, S) = Count(msgs, S)
    BY <2>1 DEF Count
  <2>3. Count(msgs, S) \in Nat
    BY CountIs
  <2> QED BY <1>7, <2>2, <2>3 DEF more
<1> QED BY <1>6, <1>7

\* With the first one read.
LEMMA CountLess ==
  \A msgs \in Seq(TReplies) : \A S :
    msgs # <<>> =>
      Count(msgs, S) = Count(Tail(msgs), S) + (IF Head(msgs) \in S THEN 1 ELSE 0)
<1> SUFFICES ASSUME NEW msgs \in Seq(TReplies), NEW S, msgs # <<>>
             PROVE  Count(msgs, S) = Count(Tail(msgs), S) + (IF Head(msgs) \in S THEN 1 ELSE 0)
  OBVIOUS
<1> DEFINE n    == Len(msgs)
           less == Tail(msgs)
           In   == {i \in DOMAIN msgs : msgs[i] \in S}
           Rest == {i \in DOMAIN less : less[i] \in S}
           Late == In \ {1}
           up1  == [i \in Rest |-> i + 1]
<1>1. /\ n \in Nat \ {0} /\ DOMAIN msgs = 1 .. n /\ DOMAIN less = 1 .. n - 1
      /\ \A i \in 1 .. n - 1 : less[i] = msgs[i + 1]
      /\ Head(msgs) = msgs[1] /\ less \in Seq(TReplies)
  OBVIOUS
<1>2. Count(less, S) \in Nat
  BY <1>1, CountIs
<1> HIDE DEF n, less
<1>3. IsFiniteSet(Rest) /\ IsFiniteSet(In)
  <2>1. IsFiniteSet(DOMAIN less) /\ IsFiniteSet(DOMAIN msgs)
    BY <1>1, FS_Interval
  <2>2. Rest \in SUBSET DOMAIN less /\ In \in SUBSET DOMAIN msgs
    OBVIOUS
  <2> HIDE DEF Rest, In
  <2> QED BY <2>1, <2>2, FS_Subset
<1>4. up1 \in Bijection(Rest, Late)
  <2>1. \A i \in Rest : i + 1 \in Late
    BY <1>1
  <2>2. \A i, j \in Rest : i + 1 = j + 1 => i = j
    BY <1>1
  <2>3. \A j \in Late : \E i \in Rest : i + 1 = j
    <3>1. SUFFICES ASSUME NEW j \in Late PROVE j - 1 \in Rest /\ (j - 1) + 1 = j
      OBVIOUS
    <3>2. j \in 1 .. n /\ j # 1 /\ msgs[j] \in S
      BY <1>1
    <3>3. j - 1 \in 1 .. n - 1 /\ (j - 1) + 1 = j
      BY <1>1, <3>2
    <3> QED BY <1>1, <3>2, <3>3
  <2> HIDE DEF Rest, Late
  <2>4. up1 \in [Rest -> Late] /\ \A i \in Rest : up1[i] = i + 1
    BY <2>1
  <2> HIDE DEF up1
  <2>5. up1 \in Injection(Rest, Late)
    BY <2>2, <2>4 DEF Injection, IsInjective
  <2>6. up1 \in Surjection(Rest, Late)
    BY <2>3, <2>4 DEF Surjection
  <2> QED BY <2>5, <2>6 DEF Bijection
<1>5. Cardinality(Late) = Cardinality(Rest)
  <2> HIDE DEF Rest, Late, up1
  <2> QED BY <1>3, <1>4, FS_Bijection DEF ExistsBijection
<1>6. CASE Head(msgs) \in S
  <2>1. 1 \in In
    BY <1>1, <1>6
  <2> HIDE DEF In, Rest
  <2>2. Cardinality(Late) = Cardinality(In) - 1 /\ Cardinality(In) \in Nat
    BY <1>3, <2>1, FS_RemoveElement, FS_CardinalityType
  <2>3. Cardinality(Rest) = Cardinality(In) - 1
    BY <1>5, <2>2
  <2>4. Count(msgs, S) = Cardinality(In) /\ Count(less, S) = Cardinality(Rest)
    BY DEF Count, In, Rest
  <2> QED BY <1>6, <2>2, <2>3, <2>4 DEF less
<1>7. CASE Head(msgs) \notin S
  <2>1. Late = In
    BY <1>1, <1>7
  <2> HIDE DEF In, Rest, Late
  <2>2. Cardinality(In) = Cardinality(Rest)
    BY <1>5, <2>1
  <2>3. Count(msgs, S) = Count(less, S)
    BY <2>2 DEF Count, In, Rest
  <2> QED BY <1>2, <1>7, <2>3 DEF less
<1> QED BY <1>6, <1>7

\* What a message more, or one less, makes of what the tester has not read.
Adds(msgs, more, m) ==
  /\ more \in Seq(TReplies)
  /\ Count(more, Told) = Count(msgs, Told) + (IF m \in Told THEN 1 ELSE 0)
  /\ Count(more, {"BREAK"}) = Count(msgs, {"BREAK"}) + (IF m = "BREAK" THEN 1 ELSE 0)
  /\ \A x \in TReplies : Contains(more, x) <=> Contains(msgs, x) \/ x = m

LEMMA AddsOne == \A msgs \in Seq(TReplies), m \in TReplies : Adds(msgs, msgs \o <<m>>, m)
<1> SUFFICES ASSUME NEW msgs \in Seq(TReplies), NEW m \in TReplies
             PROVE  Adds(msgs, msgs \o <<m>>, m)
  OBVIOUS
<1> DEFINE more == Append(msgs, m)
           n    == Len(msgs)
<1>1. /\ more \in Seq(TReplies) /\ n \in Nat /\ Len(more) = n + 1 /\ more[n + 1] = m
      /\ \A i \in 1 .. n : more[i] = msgs[i]
  OBVIOUS
<1>2. msgs \o <<m>> = more
  OBVIOUS
<1>3. Count(more, Told) = Count(msgs, Told) + (IF m \in Told THEN 1 ELSE 0)
  BY CountMore
<1>4. Count(more, {"BREAK"}) = Count(msgs, {"BREAK"}) + (IF m = "BREAK" THEN 1 ELSE 0)
  <2>1. Count(more, {"BREAK"}) = Count(msgs, {"BREAK"}) + (IF m \in {"BREAK"} THEN 1 ELSE 0)
    BY CountMore
  <2> QED BY <2>1
<1> HIDE DEF more, n
<1>5. /\ \A i \in 1 .. n + 1 : i \in 1 .. n \/ i = n + 1
      /\ 1 .. n \subseteq 1 .. n + 1 /\ n + 1 \in 1 .. n + 1
  BY <1>1
<1>6. \A x \in TReplies : Contains(more, x) <=> Contains(msgs, x) \/ x = m
  BY <1>1, <1>5 DEF Contains, n
<1> QED BY <1>1, <1>2, <1>3, <1>4, <1>6 DEF Adds

LEMMA AddsTwo ==
  \A msgs \in Seq(TReplies), a, b \in TReplies :
    \E mid : Adds(msgs, mid, a) /\ Adds(mid, msgs \o <<a, b>>, b)
<1> SUFFICES ASSUME NEW msgs \in Seq(TReplies), NEW a \in TReplies, NEW b \in TReplies
             PROVE  \E mid : Adds(msgs, mid, a) /\ Adds(mid, msgs \o <<a, b>>, b)
  OBVIOUS
<1> DEFINE mid == msgs \o <<a>>
<1>1. Adds(msgs, mid, a)
  BY AddsOne
<1>2. mid \in Seq(TReplies) /\ msgs \o <<a, b>> = mid \o <<b>>
  <2>1. mid \in Seq(TReplies) /\ mid = Append(msgs, a)
    OBVIOUS
  <2>2. mid \o <<b>> = Append(mid, b)
    BY <2>1
  <2>3. msgs \o <<a, b>> = Append(Append(msgs, a), b)
    OBVIOUS
  <2> QED BY <2>1, <2>2, <2>3
<1> HIDE DEF mid
<1>3. Adds(mid, mid \o <<b>>, b)
  BY <1>2, AddsOne
<1> QED BY <1>1, <1>2, <1>3

Takes(msgs, less, m) ==
  /\ less \in Seq(TReplies) /\ m \in TReplies /\ Contains(msgs, m)
  /\ Count(msgs, Told) = Count(less, Told) + (IF m \in Told THEN 1 ELSE 0)
  /\ Count(msgs, {"BREAK"}) = Count(less, {"BREAK"}) + (IF m = "BREAK" THEN 1 ELSE 0)
  /\ \A x \in TReplies : Contains(less, x) => Contains(msgs, x)

LEMMA TakesOne == \A msgs \in Seq(TReplies) : msgs # <<>> => Takes(msgs, Tail(msgs), Head(msgs))
<1> SUFFICES ASSUME NEW msgs \in Seq(TReplies), msgs # <<>>
             PROVE  Takes(msgs, Tail(msgs), Head(msgs))
  OBVIOUS
<1> DEFINE less == Tail(msgs)
           n    == Len(msgs)
           m    == Head(msgs)
<1>1. /\ less \in Seq(TReplies) /\ n \in Nat \ {0} /\ Len(less) = n - 1
      /\ \A i \in 1 .. n - 1 : less[i] = msgs[i + 1]
  OBVIOUS
<1>2. m = msgs[1] /\ m \in TReplies
  OBVIOUS
<1>3. Count(msgs, Told) = Count(less, Told) + (IF m \in Told THEN 1 ELSE 0)
  BY CountLess
<1>4. Count(msgs, {"BREAK"}) = Count(less, {"BREAK"}) + (IF m = "BREAK" THEN 1 ELSE 0)
  <2>1. Count(msgs, {"BREAK"}) = Count(less, {"BREAK"}) + (IF m \in {"BREAK"} THEN 1 ELSE 0)
    BY CountLess
  <2> QED BY <2>1
<1> HIDE DEF less, n, m
<1>5. 1 \in 1 .. n /\ \A i \in 1 .. n - 1 : i + 1 \in 1 .. n
  BY <1>1
<1>6. Contains(msgs, m)
  BY <1>2, <1>5 DEF Contains, n
<1>7. \A x \in TReplies : Contains(less, x) => Contains(msgs, x)
  BY <1>1, <1>5 DEF Contains, n
<1> QED BY <1>1, <1>2, <1>3, <1>4, <1>6, <1>7 DEF Takes, less, m

\* A break more is counted by the ticks that open it, and no tick loses one.
LEMMA TicksOpen ==
  ASSUME NEW t \in Nat
  PROVE  /\ (t + 1) \div RoundTicks >= t \div RoundTicks
         /\ (t + 1) % RoundTicks = 0 => (t + 1) \div RoundTicks = (t \div RoundTicks) + 1
         /\ t \div RoundTicks \in Nat
BY TicksAre

\* No more breaks than the match has time for.
LEMMA TicksBound ==
  ASSUME NEW t \in 0 .. TimeoutTicks
  PROVE  t \div RoundTicks <= TimeoutTicks \div RoundTicks /\ TimeoutTicks \div RoundTicks \in Nat
BY TicksAre

\* What the server says unasked leaves the tester waiting for the same answer.
Quiet == Replies \ Told

LEMMA SaidQuietly ==
  ASSUME down \in Seq(TReplies),
         \/ down' = down \/ \E a \in Quiet : down' = down \o <<a>>
         \/ \E a, b \in Quiet : down' = down \o <<a, b>>
  PROVE  /\ down' \in Seq(TReplies) /\ Unread' = Unread /\ Unread \in Nat
         /\ NoGreeting => NoGreeting'
<1>0. Unread \in Nat
  BY CountIs DEF Unread
<1>1. {"WELCOME", "QUEUED"} \subseteq TReplies /\ {"WELCOME", "QUEUED"} \subseteq Told
      /\ Quiet \subseteq TReplies /\ \A a \in Quiet : a \notin Told
  BY DEF TReplies, Replies, Told, Quiet
<1>2. CASE down' = down
  BY <1>0, <1>2 DEF Unread, NoGreeting
<1>3. ASSUME NEW a \in Quiet, NEW msgs, NEW more, Adds(msgs, more, a), msgs \in Seq(TReplies)
      PROVE  /\ more \in Seq(TReplies) /\ Count(more, Told) = Count(msgs, Told)
             /\ \A x \in {"WELCOME", "QUEUED"} : Contains(more, x) => Contains(msgs, x)
  <2>1. more \in Seq(TReplies) /\ Count(more, Told) = Count(msgs, Told) + (IF a \in Told THEN 1 ELSE 0)
        /\ \A x \in TReplies : Contains(more, x) <=> Contains(msgs, x) \/ x = a
    BY <1>3 DEF Adds
  <2>2. Count(msgs, Told) \in Nat
    BY <1>3, CountIs
  <2> QED BY <1>1, <2>1, <2>2
<1>4. CASE \E a \in Quiet : down' = down \o <<a>>
  <2>1. PICK a \in Quiet : down' = down \o <<a>>
    BY <1>4
  <2>2. Adds(down, down', a)
    BY <1>1, <2>1, AddsOne
  <2>3. /\ down' \in Seq(TReplies) /\ Count(down', Told) = Count(down, Told)
        /\ \A x \in {"WELCOME", "QUEUED"} : Contains(down', x) => Contains(down, x)
    BY <1>3, <2>2
  <2> QED BY <1>0, <2>3 DEF Unread, NoGreeting
<1>5. CASE \E a, b \in Quiet : down' = down \o <<a, b>>
  <2>1. PICK a \in Quiet, b \in Quiet : down' = down \o <<a, b>>
    BY <1>5
  <2>2. PICK mid : Adds(down, mid, a) /\ Adds(mid, down', b)
    BY <1>1, <2>1, AddsTwo
  <2>3. /\ mid \in Seq(TReplies) /\ Count(mid, Told) = Count(down, Told)
        /\ \A x \in {"WELCOME", "QUEUED"} : Contains(mid, x) => Contains(down, x)
    BY <1>3, <2>2
  <2>4. /\ down' \in Seq(TReplies) /\ Count(down', Told) = Count(mid, Told)
        /\ \A x \in {"WELCOME", "QUEUED"} : Contains(down', x) => Contains(mid, x)
    BY <1>3, <2>2, <2>3
  <2> QED BY <1>0, <2>3, <2>4 DEF Unread, NoGreeting
<1> QED BY <1>2, <1>4, <1>5

\* The steps the server takes of itself.
Unasked == Pair \/ Timers \/ Rival \/ Close \/ Shutdown

\* What they say is never an answer, and touches nothing of the tester's.
LEMMA UnaskedSays ==
  ASSUME Unasked
  PROVE  /\ me' = me /\ up' = up /\ setup' = setup
         /\ \/ down' = down \/ \E a \in Quiet : down' = down \o <<a>>
            \/ \E a, b \in Quiet : down' = down \o <<a, b>>
<1>1. {"FOUND", "START", "RESULT", "TICK", "BREAK", "END", "EOF"} \subseteq Quiet
  BY DEF Quiet, Told, Answers, Replies
<1>2. me' = me /\ up' = up /\ setup' = setup
  BY DEF Unasked, Pair, Timers, PackDeadline, BreakDeadline, RunTick, Rival, OpponentReady,
         OpponentCalls, OpponentLeaves, Close, Shutdown
<1>3. \/ down' = down \/ down' = down \o <<"FOUND">> \/ down' = down \o <<"START">>
      \/ down' = down \o <<"RESULT">> \/ down' = down \o <<"TICK">> \/ down' = down \o <<"END">>
      \/ down' = down \o <<"EOF">> \/ down' = down \o <<"TICK", "END">>
      \/ down' = down \o <<"TICK", "BREAK">> \/ down' = down \o <<"END", "EOF">>
  <2>1. CASE Pair \/ Close \/ Shutdown
    BY <2>1 DEF Pair, Close, Shutdown, Say
  <2>2. CASE Timers
    BY <2>2 DEF Timers, PackDeadline, BreakDeadline, RunTick, StartCombat, Resolve, Say
  <2>3. CASE Rival
    BY <2>3 DEF Rival, OpponentReady, OpponentCalls, OpponentLeaves, ReadyFrom, CallFrom,
                StartCombat, Resolve, EndMatch, Say
  <2> QED BY <2>1, <2>2, <2>3 DEF Unasked
<1> QED BY <1>1, <1>2, <1>3

\* They leave the tester what it is, and what it waits for.
LEMMA UnaskedTyped ==
  ASSUME TesterTyped, OneAtATime, Unasked
  PROVE  TesterTyped' /\ OneAtATime'
<1>1. me' = me /\ up' = up /\ down \in Seq(TReplies)
  BY UnaskedSays DEF TesterTyped
<1>2. down' \in Seq(TReplies) /\ Unread' = Unread /\ (NoGreeting => NoGreeting')
  BY <1>1, UnaskedSays, SaidQuietly
<1>3. TesterTyped'
  BY <1>1, <1>2 DEF TesterTyped
<1>4. OneAtATime'
  BY <1>1, <1>2 DEF OneAtATime
<1> QED BY <1>3, <1>4

\* What each of them says of the match, the breaks and its end.
MatchKept == OneMatch /\ BreaksCounted

\* The match it is dealt.
LEMMA PairKept ==
  ASSUME ServerSound, TesterTyped, MatchKept, Pair
  PROVE  MatchKept'
<1>1. /\ me' = me /\ up' = up /\ srv.state = "queued" /\ srv \in ServerRec
      /\ srv' = [srv EXCEPT !.state = "packing", !.ship = {}] /\ match' = NewMatch
      /\ down' = down \o <<"FOUND">> /\ down \in Seq(TReplies) /\ "FOUND" \in TReplies
  BY DEF Pair, Say, ServerSound, TesterTyped, TReplies, Replies
<1>2. Adds(down, down', "FOUND")
  BY <1>1, AddsOne
<1>3. /\ Count(down', {"BREAK"}) = Count(down, {"BREAK"}) + 0
      /\ Contains(down', "END") => Contains(down, "END")
  BY <1>2 DEF Adds, TReplies, Replies
<1>4. Count(down, {"BREAK"}) \in Nat
  BY <1>1, CountIs
<1>5. match.ticks = 0 /\ match'.ticks = 0 /\ srv'.state = "packing"
  BY <1>1, TicksAre DEF MatchKept, OneMatch, ServerRec
<1>6. ~Asks /\ me.state # "welcome" /\ me.exit # 0 /\ ~Contains(down, "END")
  BY <1>1 DEF MatchKept, OneMatch, Before
<1>7. ~Asks'
  BY <1>1, <1>6 DEF Asks
<1>8. OneMatch'
  BY <1>1, <1>3, <1>5, <1>6, <1>7 DEF OneMatch
<1>9. BreaksCounted'
  BY <1>1, <1>3, <1>4, <1>5 DEF MatchKept, BreaksCounted, Breaks
<1> QED BY <1>8, <1>9 DEF MatchKept

\* In a match nothing has been asked for that could make another.
LEMMA InMatchOnly ==
  ASSUME OneMatch, srv.state \in InMatch
  PROVE  ~Asks /\ me.state # "welcome" /\ me.exit # 0 /\ ~Contains(down, "END")
BY DEF OneMatch, Before, InMatch

\* The end of it.
LEMMA EndKept ==
  ASSUME ServerSound, TesterTyped, MatchKept, Close \/ Shutdown \/ OpponentLeaves
  PROVE  MatchKept'
<1>1. /\ me' = me /\ up' = up /\ match' = match /\ srv \in ServerRec /\ down \in Seq(TReplies)
      /\ {"END", "EOF", "BREAK"} \subseteq TReplies
  BY DEF Close, Shutdown, OpponentLeaves, ServerSound, TesterTyped, TReplies, Replies
<1>2. \/ srv.state \in InMatch /\ down' = down \o <<"END">>
      \/ srv.state \in InMatch /\ down' = down \o <<"END", "EOF">>
      \/ srv.state \notin InMatch /\ down' = down \o <<"EOF">>
  BY DEF Close, Shutdown, OpponentLeaves, EndMatch, Say
<1>3. srv'.state \in {"ready", "closed"}
  BY <1>1 DEF Close, Shutdown, OpponentLeaves, EndMatch, ServerRec
<1>4. Count(down, {"BREAK"}) \in Nat
  BY <1>1, CountIs
<1>5. Count(down', {"BREAK"}) = Count(down, {"BREAK"})
      /\ (srv.state \notin InMatch => (Contains(down', "END") => Contains(down, "END")))
  <2>1. ASSUME NEW m \in {"END", "EOF"}, NEW msgs, NEW more, Adds(msgs, more, m)
        PROVE  /\ more \in Seq(TReplies) /\ Count(more, {"BREAK"}) = Count(msgs, {"BREAK"}) + 0
               /\ m = "EOF" => (Contains(more, "END") => Contains(msgs, "END"))
    BY <1>1, <2>1 DEF Adds
  <2>2. CASE srv.state \in InMatch /\ down' = down \o <<"END">>
    <3>1. Adds(down, down', "END")
      BY <1>1, <2>2, AddsOne
    <3> QED BY <1>4, <2>1, <2>2, <3>1
  <2>3. CASE srv.state \in InMatch /\ down' = down \o <<"END", "EOF">>
    <3>1. PICK mid : Adds(down, mid, "END") /\ Adds(mid, down', "EOF")
      BY <1>1, <2>3, AddsTwo
    <3>2. Count(mid, {"BREAK"}) = Count(down, {"BREAK"}) + 0
      BY <2>1, <3>1
    <3>3. Count(down', {"BREAK"}) = Count(mid, {"BREAK"}) + 0
      BY <2>1, <3>1
    <3> QED BY <1>4, <2>3, <3>2, <3>3
  <2>4. CASE srv.state \notin InMatch /\ down' = down \o <<"EOF">>
    <3>1. Adds(down, down', "EOF")
      BY <1>1, <2>4, AddsOne
    <3> QED BY <1>4, <2>1, <2>4, <3>1
  <2> QED BY <1>2, <2>2, <2>3, <2>4
<1>6. BreaksCounted'
  BY <1>1, <1>5 DEF MatchKept, BreaksCounted, Breaks
<1>7. OneMatch'
  <2>1. CASE srv.state \in InMatch
    <3>1. ~Asks /\ me.state # "welcome" /\ me.exit # 0
      BY <2>1, InMatchOnly DEF MatchKept
    <3>2. ~Asks'
      BY <1>1, <3>1 DEF Asks
    <3> QED BY <1>1, <1>3, <3>1, <3>2 DEF OneMatch
  <2>2. CASE srv.state \notin InMatch
    <3>1. Asks' <=> Asks
      BY <1>1 DEF Asks
    <3>2. Before => Before'
      BY <1>1, <1>3, <1>5, <2>2 DEF Before
    <3> QED BY <1>1, <1>3, <3>1, <3>2 DEF MatchKept, OneMatch
  <2> QED BY <2>1, <2>2
<1> QED BY <1>6, <1>7 DEF MatchKept

\* A step within a match, that ends nothing.
LEMMA GoesOn ==
  ASSUME ServerSound, TesterTyped, MatchKept, srv.state \in InMatch, srv'.state \in InMatch,
         match'.ticks = match.ticks, me' = me, ~Asks',
         down' = down \/ \E m \in {"START", "RESULT", "ACK", "REJECT"} : down' = down \o <<m>>
  PROVE  MatchKept'
<1>1. ~Asks /\ me.state # "welcome" /\ me.exit # 0 /\ ~Contains(down, "END")
  BY InMatchOnly DEF MatchKept
<1>2. /\ {"START", "RESULT", "ACK", "REJECT", "END"} \subseteq TReplies /\ down \in Seq(TReplies)
      /\ srv'.state # "queued"
  BY DEF TReplies, Replies, TesterTyped, InMatch
<1>3. Count(down, {"BREAK"}) \in Nat
  BY <1>2, CountIs
<1>4. Count(down', {"BREAK"}) = Count(down, {"BREAK"}) /\ ~Contains(down', "END")
  <2>1. CASE down' = down
    BY <1>1, <2>1
  <2>2. CASE \E m \in {"START", "RESULT", "ACK", "REJECT"} : down' = down \o <<m>>
    <3>1. PICK m \in {"START", "RESULT", "ACK", "REJECT"} : down' = down \o <<m>>
      BY <2>2
    <3>2. Adds(down, down', m)
      BY <1>2, <3>1, AddsOne
    <3>3. Count(down', {"BREAK"}) = Count(down, {"BREAK"}) + 0 /\ ~Contains(down', "END")
      BY <1>1, <1>2, <3>2 DEF Adds
    <3> QED BY <1>3, <3>3
  <2> QED BY <2>1, <2>2
<1>5. OneMatch'
  BY <1>1, <1>2, <1>4 DEF OneMatch
<1>6. BreaksCounted'
  BY <1>4 DEF MatchKept, BreaksCounted, Breaks
<1> QED BY <1>5, <1>6 DEF MatchKept

\* What either seat, or a deadline, makes of the match goes on with it.
LEMMA FromSeat ==
  ASSUME ServerSound, NEW seat \in {0, 1},
         \/ srv.state = "packing" /\ (ReadyFrom(seat) \/ PackDeadline)
         \/ srv.state = "combat" /\ (CallFrom(seat) \/ BreakDeadline)
  PROVE  /\ srv'.state \in InMatch /\ match'.ticks = match.ticks
         /\ down' = down \/ \E m \in {"START", "RESULT", "ACK", "REJECT"} : down' = down \o <<m>>
<1>1. srv \in ServerRec /\ match \in MatchRec
  BY DEF ServerSound
<1>2. ASSUME NEW ready, StartCombat(ready)
      PROVE  /\ srv'.state = "combat" /\ match'.ticks = match.ticks
             /\ down' = down \o <<"START">>
  BY <1>1, <1>2 DEF StartCombat, Say, ServerRec, MatchRec
<1>3. ASSUME Resolve
      PROVE  srv' = srv /\ match'.ticks = match.ticks /\ down' = down \o <<"RESULT">>
  BY <1>1, <1>3 DEF Resolve, Say, MatchRec
<1>4. ASSUME srv.state = "packing", ReadyFrom(seat)
      PROVE  \/ \E ready : StartCombat(ready)
             \/ srv' = srv /\ match'.ticks = match.ticks /\ down' = down
  BY <1>1, <1>4 DEF ReadyFrom, MatchRec
<1>5. ASSUME srv.state = "combat", CallFrom(seat)
      PROVE  Resolve \/ (srv' = srv /\ match'.ticks = match.ticks /\ down' = down)
  BY <1>1, <1>5 DEF CallFrom, MatchRec
<1>6. CASE srv.state = "packing" /\ (ReadyFrom(seat) \/ PackDeadline)
  BY <1>2, <1>4, <1>6 DEF PackDeadline, InMatch
<1>7. CASE srv.state = "combat" /\ (CallFrom(seat) \/ BreakDeadline)
  BY <1>3, <1>5, <1>7 DEF BreakDeadline, InMatch
<1> QED BY <1>6, <1>7

\* A second of combat: what it opens it says, and no match outlasts its time.
LEMMA RunTickKept ==
  ASSUME ServerSound, TesterTyped, MatchKept, RunTick
  PROVE  MatchKept'
<1> DEFINE t     == match.ticks
           opens == (t + 1) % RoundTicks = 0
           n     == Count(down, {"BREAK"})
           q     == t \div RoundTicks
           r     == (t + 1) \div RoundTicks
<1>1. /\ me' = me /\ up' = up /\ srv.state = "combat" /\ srv \in ServerRec /\ match \in MatchRec
      /\ down \in Seq(TReplies) /\ {"TICK", "BREAK", "END"} \subseteq TReplies /\ t \in Nat
      /\ me.round \in Nat
  BY DEF RunTick, ServerSound, TesterTyped, TesterRec, TReplies, Replies, MatchRec
<1>2. ~Asks /\ me.state # "welcome" /\ me.exit # 0 /\ ~Contains(down, "END")
  BY <1>1, InMatchOnly DEF MatchKept, InMatch
<1>3. ~Asks'
  BY <1>1, <1>2 DEF Asks
<1>4. n \in Nat /\ me.round + n <= q
  BY <1>1, CountIs DEF MatchKept, BreaksCounted, Breaks
<1>5. q \in Nat /\ r >= q /\ (opens => r = q + 1) /\ r \in Nat
  <2>1. r >= q /\ (opens => r = q + 1) /\ q \in Nat
    BY <1>1, TicksOpen
  <2>2. r \in Nat
    BY <1>1, TicksAre
  <2> QED BY <2>1, <2>2
<1>6. \/ /\ srv' = [srv EXCEPT !.state = "ready"] /\ down' = down \o <<"TICK", "END">>
         /\ match' = [match EXCEPT !.ticks = t + 1]
      \/ /\ srv' = srv /\ match' = [match EXCEPT !.ticks = t + 1, !.open = opens]
         /\ down' = down \o (IF opens THEN <<"TICK", "BREAK">> ELSE <<"TICK">>)
  BY DEF RunTick, Say
<1>7. match'.ticks = t + 1
  BY <1>1, <1>6 DEF MatchRec
<1>8. (match'.ticks) \div RoundTicks = r
  BY <1>7
<1> HIDE DEF t, opens, n, q, r
<1>9. ASSUME srv' = [srv EXCEPT !.state = "ready"], down' = down \o <<"TICK", "END">>
      PROVE  MatchKept'
  <2>1. PICK mid : Adds(down, mid, "TICK") /\ Adds(mid, down', "END")
    BY <1>1, <1>9, AddsTwo
  <2>2. Count(mid, {"BREAK"}) = n + 0
    BY <2>1 DEF Adds, n
  <2>3. Count(down', {"BREAK"}) = Count(mid, {"BREAK"}) + 0
    BY <2>1 DEF Adds
  <2>4. Count(down', {"BREAK"}) = n
    BY <1>4, <2>2, <2>3
  <2>5. BreaksCounted'
    BY <1>1, <1>4, <1>5, <1>8, <2>4 DEF BreaksCounted, Breaks
  <2>6. srv'.state = "ready"
    BY <1>1, <1>9 DEF ServerRec
  <2>7. OneMatch'
    BY <1>1, <1>2, <1>3, <2>6 DEF OneMatch
  <2> QED BY <2>5, <2>7 DEF MatchKept
<1>10. ASSUME srv' = srv, down' = down \o <<"TICK">> PROVE MatchKept'
  <2>1. Adds(down, down', "TICK")
    BY <1>1, <1>10, AddsOne
  <2>2. Count(down', {"BREAK"}) = n + 0 /\ ~Contains(down', "END")
    BY <1>1, <1>2, <2>1 DEF Adds, n
  <2>3. BreaksCounted'
    BY <1>1, <1>4, <1>5, <1>8, <2>2 DEF BreaksCounted, Breaks
  <2>4. OneMatch'
    BY <1>1, <1>2, <1>3, <1>10, <2>2 DEF OneMatch
  <2> QED BY <2>3, <2>4 DEF MatchKept
<1>11. ASSUME srv' = srv, opens, down' = down \o <<"TICK", "BREAK">> PROVE MatchKept'
  <2>1. PICK mid : Adds(down, mid, "TICK") /\ Adds(mid, down', "BREAK")
    BY <1>1, <1>11, AddsTwo
  <2>2. Count(mid, {"BREAK"}) = n + 0 /\ ~Contains(mid, "END")
    BY <1>1, <1>2, <2>1 DEF Adds, n
  <2>3. Count(down', {"BREAK"}) = Count(mid, {"BREAK"}) + 1 /\ ~Contains(down', "END")
    BY <1>1, <2>1, <2>2 DEF Adds
  <2>4. Count(down', {"BREAK"}) = n + 1
    BY <1>4, <2>2, <2>3
  <2>5. BreaksCounted'
    BY <1>1, <1>4, <1>5, <1>8, <1>11, <2>4 DEF BreaksCounted, Breaks
  <2>6. OneMatch'
    BY <1>1, <1>2, <1>3, <1>11, <2>3 DEF OneMatch
  <2> QED BY <2>5, <2>6 DEF MatchKept
<1> QED BY <1>6, <1>9, <1>10, <1>11

\* Whatever the server does of itself, the tester's invariant stands.
LEMMA UnaskedKept ==
  ASSUME TesterInv, Unasked
  PROVE  TesterInv'
<1>1. ServerSound /\ TesterTyped /\ OneAtATime /\ MatchKept
  BY DEF TesterInv, MatchKept
<1>2. ServerSound'
  BY <1>1, ServerKeeps DEF Unasked, TesterTyped
<1>3. TesterTyped' /\ OneAtATime'
  BY <1>1, UnaskedTyped
<1>4. MatchKept'
  <2>1. CASE Pair
    BY <1>1, <2>1, PairKept
  <2>2. CASE Close \/ Shutdown \/ OpponentLeaves
    BY <1>1, <2>2, EndKept
  <2>3. CASE RunTick
    BY <1>1, <2>3, RunTickKept
  <2>4. CASE PackDeadline \/ BreakDeadline \/ OpponentReady \/ OpponentCalls
    <3>1. \/ srv.state = "packing" /\ (ReadyFrom(1) \/ PackDeadline)
          \/ srv.state = "combat" /\ (CallFrom(1) \/ BreakDeadline)
      BY <2>4 DEF PackDeadline, BreakDeadline, OpponentReady, OpponentCalls
    <3>2. srv.state \in InMatch /\ me' = me /\ up' = up
      BY <2>4, <3>1 DEF PackDeadline, BreakDeadline, OpponentReady, OpponentCalls, InMatch
    <3>3. /\ srv'.state \in InMatch /\ match'.ticks = match.ticks
          /\ down' = down \/ \E m \in {"START", "RESULT", "ACK", "REJECT"} : down' = down \o <<m>>
      BY <1>1, <3>1, FromSeat
    <3>4. ~Asks'
      <4>1. ~Asks
        BY <1>1, <3>2, InMatchOnly DEF MatchKept
      <4> QED BY <3>2, <4>1 DEF Asks
    <3> QED BY <1>1, <3>2, <3>3, <3>4, GoesOn
  <2> QED BY <2>1, <2>2, <2>3, <2>4 DEF Unasked, Timers, Rival
<1> QED BY <1>2, <1>3, <1>4 DEF TesterInv, MatchKept

\* An answer takes one request, and is one message or none.
AnswerTo(type) ==
  CASE type = "PLACE" -> {"ACK", "REJECT"}
    [] type = "CUT"   -> {"CUTREJECT"}
    [] OTHER          -> {"WELCOME", "QUEUED", "START", "RESULT", "ERROR"}

\* What the handlers of apps/server/main.c say to each request.
LEMMA AnswerSays ==
  ASSUME TesterTyped, Answer
  PROVE  /\ me' = me /\ setup' = setup /\ up # <<>> /\ up' = Tail(up) /\ Head(up) \in Requests \cup {Req("CUT")}
         /\ \/ down' = down /\ Head(up).type \notin {"PLACE", "CUT"}
            \/ \E m \in AnswerTo(Head(up).type) : down' = down \o <<m>>
<1> DEFINE h == Head(up)
<1>1. me' = me /\ setup' = setup /\ up # <<>> /\ up' = Tail(up)
  BY DEF Answer, AnswerCut, Handle
<1>2. h \in Requests \cup {Req("CUT")}
  BY <1>1 DEF TesterTyped
<1>3. CASE AnswerCut
  BY <1>1, <1>2, <1>3 DEF AnswerCut, Say, AnswerTo
<1>4. CASE h.type # "CUT" /\ Handle
  <2>1. OnRequest(h)
    BY <1>4 DEF Handle
  <2> HIDE DEF h
  <2>2. CASE h.type = "PLACE"
    <3>1. PlaceFrom(h.part)
      BY <2>1, <2>2 DEF OnRequest
    <3>2. \E m \in {"ACK", "REJECT"} : down' = down \o <<m>>
      BY <3>1 DEF PlaceFrom, Say
    <3> QED BY <1>1, <1>2, <2>2, <3>2 DEF AnswerTo, h
  <2>3. CASE h.type # "PLACE"
    <3>1. \/ down' = down
          \/ \E m \in {"WELCOME", "QUEUED", "START", "RESULT", "ERROR"} : down' = down \o <<m>>
      BY <2>1, <2>3 DEF OnRequest, ReadyFrom, CallFrom, StartCombat, Resolve, Refuse, Say
    <3> QED BY <1>1, <1>2, <1>4, <2>3, <3>1 DEF AnswerTo, h
  <2> QED BY <2>2, <2>3
<1> QED BY <1>3, <1>4 DEF Answer

\* The one request there is gets the one answer there will be.
LEMMA AnswerTyped ==
  ASSUME TesterTyped, OneAtATime, Answer
  PROVE  TesterTyped' /\ OneAtATime'
<1> DEFINE h == Head(up)
           n == Unread
<1>1. /\ me' = me /\ up # <<>> /\ up' = Tail(up) /\ up \in Seq(Requests \cup {Req("CUT")})
      /\ down \in Seq(TReplies)
      /\ \/ down' = down /\ h.type \notin {"PLACE", "CUT"}
         \/ \E m \in AnswerTo(h.type) : down' = down \o <<m>>
  BY AnswerSays DEF TesterTyped
<1>2. n \in Nat
  BY <1>1, CountIs DEF Unread
<1>3. /\ up' \in Seq(Requests \cup {Req("CUT")}) /\ Len(up) \in Nat \ {0} /\ Len(up') = Len(up) - 1
      /\ Len(up) = 1 => up' = <<>>
      /\ \A types : Only(up, types) => h.type \in types
  BY <1>1 DEF Only
<1> HIDE DEF h, n
<1>4. {"WELCOME", "QUEUED", "START", "RESULT", "ERROR", "ACK", "REJECT", "CUTREJECT"} \subseteq TReplies
      /\ AnswerTo(h.type) \subseteq TReplies
  BY DEF TReplies, Replies, AnswerTo
<1>5. down' \in Seq(TReplies) /\ Unread' \in Nat /\ Unread' <= n + 1
  <2>1. CASE down' = down
    BY <1>1, <1>2, <2>1 DEF Unread, n
  <2>2. CASE \E m \in AnswerTo(h.type) : down' = down \o <<m>>
    <3>1. PICK m \in AnswerTo(h.type) : down' = down \o <<m>>
      BY <2>2
    <3>2. Adds(down, down', m)
      BY <1>1, <1>4, <3>1, AddsOne
    <3>3. down' \in Seq(TReplies) /\ Unread' = n + (IF m \in Told THEN 1 ELSE 0)
      BY <3>2 DEF Adds, Unread, n
    <3> QED BY <1>2, <3>3
  <2> QED BY <1>1, <2>1, <2>2
<1>6. TesterTyped'
  BY <1>1, <1>3, <1>5 DEF TesterTyped
<1>7. ASSUME me.state \in {"place", "cut"}
      PROVE  Unread' = n + 1 /\ (NoGreeting => NoGreeting')
  <2>1. h.type \in {"PLACE", "CUT"}
    BY <1>3, <1>7 DEF OneAtATime
  <2>2. PICK m \in {"ACK", "REJECT", "CUTREJECT"} : down' = down \o <<m>>
    BY <1>1, <2>1 DEF AnswerTo
  <2>3. Adds(down, down', m)
    BY <1>1, <1>4, <2>2, AddsOne
  <2>4. m \in Told
    BY DEF Told, Answers
  <2>5. Unread' = n + 1
    BY <2>3, <2>4 DEF Adds, Unread, n
  <2>6. \A x \in {"WELCOME", "QUEUED"} : Contains(down', x) <=> Contains(down, x)
    BY <1>4, <2>3 DEF Adds
  <2> QED BY <2>5, <2>6 DEF NoGreeting
<1>8. /\ me.state \in {"welcome", "queue"} => Len(up) + n <= 1
      /\ me.state = "found" => Len(up) + n = 0
      /\ me.state \in {"place", "cut"} => Len(up) + n = 1 /\ NoGreeting
  BY DEF OneAtATime, n
<1>9. /\ me.state # "found"
      /\ me.state \in {"welcome", "queue", "place", "cut"} => up' = <<>> /\ n = 0
  BY <1>2, <1>3, <1>8
<1>10. OneAtATime'
  <2>1. me.state \in {"welcome", "queue", "place", "cut"} => Len(up') = 0
        /\ \A types : Only(up', types)
    BY <1>3, <1>8, <1>9 DEF Only
  <2> QED BY <1>1, <1>2, <1>5, <1>7, <1>8, <1>9, <2>1 DEF OneAtATime
<1> QED BY <1>6, <1>10

\* Only what has been asked for moves a connection to the queue, or from it.
Moved ==
  /\ match'.ticks = match.ticks
  /\ srv'.state = "queued" => Asks \/ srv.state = "queued"
  /\ srv.state = "ready" => Asks \/ srv'.state = "ready"
  /\ srv.state \notin {"queued", "packing", "combat"} =>
       Asks \/ srv'.state \notin {"queued", "packing", "combat"}
  /\ srv.state # "closed"

\* No answer makes a second match, or is the end of one.
LEMMA AnswerMatch ==
  ASSUME ServerSound, TesterTyped, OneAtATime, MatchKept, Answer
  PROVE  MatchKept'
<1> DEFINE h == Head(up)
<1>1. /\ me' = me /\ up # <<>> /\ up' = Tail(up) /\ up \in Seq(Requests \cup {Req("CUT")})
      /\ down \in Seq(TReplies) /\ srv \in ServerRec /\ match \in MatchRec
      /\ \/ down' = down \/ \E m \in AnswerTo(h.type) : down' = down \o <<m>>
  BY AnswerSays DEF TesterTyped, ServerSound
<1>2. /\ \A types : Only(up, types) => h.type \in types
      /\ Asks => h = Req("QUEUE") /\ up' = <<>>
      /\ ~Asks => ~Asks'
  <2>1. \A types : Only(up, types) => h.type \in types
    BY <1>1 DEF Only
  <2>2. Asks => h = Req("QUEUE") /\ up' = <<>>
    BY <1>1 DEF MatchKept, OneMatch
  <2>3. ~Asks => ~Asks'
    <3>1. \A i \in DOMAIN up' : i + 1 \in DOMAIN up /\ up'[i] = up[i + 1]
      BY <1>1
    <3> QED BY <3>1 DEF Asks
  <2> QED BY <2>1, <2>2, <2>3
<1>3. ~Asks'
  BY <1>2 DEF Asks
<1>4. h.type = "QUEUE" => Asks
  <2>1. 1 \in DOMAIN up /\ up[1] = h
    BY <1>1
  <2> QED BY <2>1 DEF Asks
<1> HIDE DEF h
<1>5. Count(down', {"BREAK"}) = Count(down, {"BREAK"})
      /\ (Contains(down', "END") <=> Contains(down, "END"))
  <2>1. Count(down, {"BREAK"}) \in Nat
    BY <1>1, CountIs
  <2>2. AnswerTo(h.type) \subseteq TReplies /\ "END" \in TReplies
        /\ "END" \notin AnswerTo(h.type) /\ "BREAK" \notin AnswerTo(h.type)
    BY DEF TReplies, Replies, AnswerTo
  <2>3. CASE \E m \in AnswerTo(h.type) : down' = down \o <<m>>
    <3>1. PICK m \in AnswerTo(h.type) : down' = down \o <<m>>
      BY <2>3
    <3>2. Adds(down, down', m)
      BY <1>1, <2>2, <3>1, AddsOne
    <3>3. Count(down', {"BREAK"}) = Count(down, {"BREAK"}) + 0
          /\ (Contains(down', "END") <=> Contains(down, "END"))
      BY <2>2, <3>2 DEF Adds
    <3> QED BY <2>1, <3>3
  <2> QED BY <1>1, <2>3
<1>6. Moved
  <2>1. CASE AnswerCut
    BY <1>1, <2>1 DEF AnswerCut, Moved
  <2>2. CASE Handle
    <3>1. OnRequest(h) /\ srv.state # "closed"
      BY <2>2 DEF Handle, h
    <3>2. CASE h.type = "READY" /\ srv.state = "packing"
      BY <3>1, <3>2, FromSeat DEF OnRequest, InMatch, Moved
    <3>3. CASE h.type = "CALL" /\ srv.state = "combat" /\ match.open
      BY <3>1, <3>3, FromSeat DEF OnRequest, InMatch, Moved
    <3>4. CASE h.type = "PLACE"
      <4>1. PlaceFrom(h.part)
        BY <3>1, <3>4 DEF OnRequest
      <4>2. match' = match /\ srv'.state = srv.state
        BY <1>1, <4>1 DEF PlaceFrom, ServerRec
      <4> QED BY <3>1, <4>2 DEF Moved
    <3>5. Refuse => Moved
      BY <1>1, <3>1 DEF Refuse, ServerRec, Moved
    <3>6. CASE h.type = "QUEUE" /\ srv.state = "ready"
      <4>1. match' = match
        BY <3>1, <3>6 DEF OnRequest
      <4> QED BY <1>4, <3>6, <4>1 DEF Moved
    <3>7. CASE \/ h.type = "HELLO" /\ srv.state = "connected"
               \/ h.type = "AUTH" /\ srv.state = "needauth"
      <4>1. match' = match /\ srv' \in {[srv EXCEPT !.state = "needauth"], [srv EXCEPT !.state = "ready"],
                                       [srv EXCEPT !.state = "verifying"]}
        BY <3>1, <3>7 DEF OnRequest
      <4>2. srv'.state \in {"needauth", "ready", "verifying"}
        BY <1>1, <4>1 DEF ServerRec
      <4> QED BY <3>7, <4>1, <4>2 DEF Moved
    <3>8. \/ h.type = "READY" /\ srv.state = "packing"
          \/ h.type = "CALL" /\ srv.state = "combat" /\ match.open
          \/ h.type = "PLACE"
          \/ Moved
          \/ h.type = "QUEUE" /\ srv.state = "ready"
          \/ h.type = "HELLO" /\ srv.state = "connected"
          \/ h.type = "AUTH" /\ srv.state = "needauth"
      BY <3>1, <3>5 DEF OnRequest
    <3> QED BY <3>2, <3>3, <3>4, <3>6, <3>7, <3>8
  <2> QED BY <2>1, <2>2 DEF Answer
<1>7. BreaksCounted'
  BY <1>1, <1>5, <1>6 DEF MatchKept, BreaksCounted, Breaks, Moved
<1>8. OneMatch
  BY DEF MatchKept
<1>9. me.state = "welcome" => ~Asks
  BY <1>2, <1>4 DEF OneAtATime, Req
<1>10. me.state = "welcome" => Before'
  BY <1>5, <1>6, <1>8, <1>9 DEF OneMatch, Before, Moved
<1>11. srv'.state = "queued" => match'.ticks = 0
  BY <1>6, <1>8 DEF OneMatch, Before, Moved
<1>12. (me.exit = 0 \/ Contains(down', "END")) => srv'.state \in {"ready", "closed"}
  BY <1>5, <1>6, <1>8 DEF OneMatch, Before, Moved
<1>13. OneMatch'
  BY <1>1, <1>3, <1>10, <1>11, <1>12 DEF OneMatch
<1> QED BY <1>7, <1>13 DEF MatchKept

\* Whatever the server answers, it stands.
LEMMA AnswerKept ==
  ASSUME TesterInv, Answer
  PROVE  TesterInv'
<1>1. ServerSound /\ TesterTyped /\ OneAtATime /\ MatchKept
  BY DEF TesterInv, MatchKept
<1>2. ServerSound'
  BY <1>1, ServerKeeps DEF Answer, TesterTyped
<1>3. TesterTyped' /\ OneAtATime' /\ MatchKept'
  BY <1>1, AnswerTyped, AnswerMatch
<1> QED BY <1>2, <1>3 DEF TesterInv, MatchKept

\* None of some messages, none of any one of them.
LEMMA CountNone ==
  /\ \A S : Count(<<>>, S) = 0
  /\ \A msgs \in Seq(TReplies) : \A S : Count(msgs, S) = 0 => \A m \in S : ~Contains(msgs, m)
<1>1. \A S : Count(<<>>, S) = 0
  <2>1. \A S : {i \in DOMAIN <<>> : <<>>[i] \in S} = {}
    OBVIOUS
  <2> QED BY <2>1, FS_EmptySet DEF Count
<1>2. ASSUME NEW msgs \in Seq(TReplies), NEW S, Count(msgs, S) = 0, NEW m \in S
      PROVE  ~Contains(msgs, m)
  <2> DEFINE In == {i \in DOMAIN msgs : msgs[i] \in S}
  <2>1. IsFiniteSet(DOMAIN msgs)
    <3>1. DOMAIN msgs = 1 .. Len(msgs) /\ Len(msgs) \in Nat
      OBVIOUS
    <3> QED BY <3>1, FS_Interval
  <2>2. In \in SUBSET DOMAIN msgs
    OBVIOUS
  <2>3. Cardinality(In) = 0
    BY <1>2 DEF Count
  <2>4. IsFiniteSet(In) => (Cardinality(In) = 0 <=> In = {})
    BY FS_EmptySet
  <2>5. IsFiniteSet(In)
    <3> HIDE DEF In
    <3> QED BY <2>1, <2>2, FS_Subset
  <2>6. In = {}
    BY <2>3, <2>4, <2>5
  <2> QED BY <1>2, <2>6 DEF Contains
<1> QED BY <1>1, <1>2

\* What is under way to the tester, after a step of its own.
Shorter ==
  /\ down' \in Seq(TReplies) /\ Breaks \in Nat /\ Breaks' \in Nat /\ Breaks' <= Breaks
  /\ Contains(down', "END") => Contains(down, "END")
  /\ NoGreeting => NoGreeting'
  /\ setup' = setup /\ srv' = srv /\ match' = match

\* A tester that ends, ends rightly.
LEMMA ExitKept ==
  ASSUME TesterInv, Shorter, NEW code \in {0, 1}, Exit(code),
         code = 0 => me.todo = <<>> /\ Contains(down, "END")
  PROVE  TesterInv'
<1>1. /\ me' = [me EXCEPT !.state = "gone", !.exit = code] /\ up' = up
      /\ me \in TesterRec /\ down' \in Seq(TReplies) /\ srv' = srv /\ match' = match
  BY DEF Exit, Shorter, TesterInv, TesterTyped
<1>2. /\ me' \in TesterRec /\ me'.state = "gone" /\ me'.exit = code /\ me'.todo = me.todo
      /\ me'.round = me.round
  BY <1>1 DEF TesterRec
<1>3. ServerSound'
  BY ServerStill DEF Shorter, TesterInv
<1>4. TesterTyped'
  BY <1>1, <1>2 DEF TesterInv, TesterTyped
<1>5. OneAtATime'
  BY <1>2 DEF OneAtATime
<1>6. Asks' <=> Asks
  BY <1>1 DEF Asks
<1>7. Asks => ~Contains(down, "END")
  BY DEF TesterInv, OneMatch, Before
<1>8. Before => Before'
  BY DEF Before, Shorter
<1>9. OneMatch'
  BY <1>1, <1>2, <1>6, <1>7, <1>8 DEF TesterInv, OneMatch, Shorter
<1>10. BreaksCounted'
  <2>1. me.round \in Nat /\ match.ticks \in Nat
    BY <1>1 DEF TesterInv, ServerSound, TesterRec, MatchRec
  <2>2. match.ticks \div RoundTicks \in Nat
    BY <2>1, TicksOpen
  <2> QED BY <1>1, <1>2, <2>1, <2>2 DEF TesterInv, BreaksCounted, Shorter
<1> QED BY <1>3, <1>4, <1>5, <1>9, <1>10 DEF TesterInv

\* One that goes on, and asks for nothing that could make a second match.
LEMMA OnKept ==
  ASSUME TesterInv, Shorter, TesterTyped', OneAtATime', me.state # "gone",
         me'.state \notin {"welcome", "gone"}, ~Asks', me'.round + Breaks' <= me.round + Breaks
  PROVE  TesterInv'
<1>1. me' \in TesterRec /\ me \in TesterRec /\ me'.exit = -1 /\ me.exit = -1
  BY DEF TesterInv, TesterTyped
<1>2. ServerSound'
  BY ServerStill DEF Shorter, TesterInv
<1>3. OneMatch'
  BY <1>1 DEF TesterInv, OneMatch, Shorter
<1>4. BreaksCounted'
  <2>1. me.round \in Nat /\ me'.round \in Nat /\ match.ticks \in Nat
    BY <1>1 DEF TesterInv, ServerSound, TesterRec, MatchRec
  <2>2. match.ticks \div RoundTicks \in Nat
    BY <2>1, TicksOpen
  <2> QED BY <2>1, <2>2 DEF TesterInv, BreaksCounted, Shorter
<1> QED BY <1>2, <1>3, <1>4 DEF TesterInv

\* The next request, once the one before it has been answered.
LEMMA ContinueKept ==
  ASSUME TesterInv, Shorter, me.state \in {"found", "place", "cut"}, up = <<>>, Unread' = 0,
         NoGreeting', Continue
  PROVE  TesterInv'
<1>1. me \in TesterRec /\ me.exit = -1 /\ down' \in Seq(TReplies) /\ Only(me.todo, {"PLACE", "CUT"})
  BY DEF TesterInv, TesterTyped, Shorter
<1>2. me.todo \in Seq(Requests \cup {Req("CUT")})
  BY <1>1 DEF TesterRec
<1>3. CASE me.todo = <<>>
  <2>1. me' = [me EXCEPT !.state = "play"] /\ up' = <<Req("READY")>>
    BY <1>3 DEF Continue
  <2>2. me' \in TesterRec /\ me'.state = "play" /\ me'.exit = -1 /\ me'.todo = <<>>
        /\ me'.round = me.round
    BY <1>1, <1>3, <2>1 DEF TesterRec, Expected
  <2>3. up' \in Seq(Requests \cup {Req("CUT")}) /\ Req("READY").type # "QUEUE"
    BY <2>1 DEF Requests, Req
  <2>4. ~Asks'
    BY <2>1, <2>3 DEF Asks
  <2>5. TesterTyped'
    BY <1>1, <2>2, <2>3 DEF TesterTyped, Only
  <2>6. OneAtATime'
    BY <2>2 DEF OneAtATime
  <2>7. me'.round + Breaks' <= me.round + Breaks
    BY <1>1, <2>2 DEF TesterRec, Shorter
  <2> QED BY <2>2, <2>4, <2>5, <2>6, <2>7, OnKept
<1>4. CASE me.todo # <<>>
  <2> DEFINE next == Head(me.todo)
             rest == Tail(me.todo)
             to   == IF next.type = "PLACE" THEN "place" ELSE "cut"
  <2>1. me' = [me EXCEPT !.todo = rest, !.state = to] /\ up' = <<next>>
    BY <1>4 DEF Continue
  <2>2. next \in Requests \cup {Req("CUT")} /\ rest \in Seq(Requests \cup {Req("CUT")})
        /\ next.type \in {"PLACE", "CUT"} /\ Only(rest, {"PLACE", "CUT"})
    BY <1>1, <1>2, <1>4 DEF Only
  <2> HIDE DEF next, rest
  <2>3. me' \in TesterRec /\ me'.state \in {"place", "cut"} /\ me'.exit = -1 /\ me'.todo = rest
        /\ me'.round = me.round
    BY <1>1, <2>1, <2>2 DEF TesterRec, Expected
  <2>4. up' \in Seq(Requests \cup {Req("CUT")}) /\ Len(up') = 1 /\ Only(up', {"PLACE", "CUT"})
    BY <2>1, <2>2 DEF Only
  <2>5. ~Asks'
    BY <2>1, <2>2 DEF Asks
  <2>6. TesterTyped'
    BY <1>1, <2>2, <2>3, <2>4 DEF TesterTyped
  <2>7. OneAtATime'
    BY <2>3, <2>4 DEF OneAtATime
  <2>8. me'.round + Breaks' <= me.round + Breaks
    BY <1>1, <2>3 DEF TesterRec, Shorter
  <2> QED BY <2>3, <2>5, <2>6, <2>7, <2>8, OnKept
<1> QED BY <1>3, <1>4

\* What reading a message leaves to be read.
LEMMA ReadLeaves ==
  ASSUME TesterInv, Read
  PROVE  /\ Shorter /\ Takes(down, down', Head(down)) /\ Unread' \in Nat
         /\ Unread = Unread' + (IF Head(down) \in Told THEN 1 ELSE 0)
         /\ Breaks = Breaks' + (IF Head(down) = "BREAK" THEN 1 ELSE 0)
<1>1. /\ down \in Seq(TReplies) /\ down # <<>> /\ down' = Tail(down)
      /\ setup' = setup /\ srv' = srv /\ match' = match
  BY DEF TesterInv, TesterTyped, Read
<1> DEFINE h == Head(down)
<1>2. Takes(down, down', h)
  BY <1>1, TakesOne
<1> HIDE DEF h
<1>3. down' \in Seq(TReplies)
  BY <1>2 DEF Takes
<1>4. Count(down', Told) \in Nat /\ Count(down', {"BREAK"}) \in Nat
  BY <1>3, CountIs
<1>5. {"WELCOME", "QUEUED", "END"} \subseteq TReplies
  BY DEF TReplies, Replies
<1>6. /\ Count(down, Told) = Count(down', Told) + (IF h \in Told THEN 1 ELSE 0)
      /\ Count(down, {"BREAK"}) = Count(down', {"BREAK"}) + (IF h = "BREAK" THEN 1 ELSE 0)
      /\ \A x \in TReplies : Contains(down', x) => Contains(down, x)
  BY <1>2 DEF Takes
<1>7. Unread' \in Nat /\ Unread = Unread' + (IF h \in Told THEN 1 ELSE 0)
  BY <1>4, <1>6 DEF Unread
<1>8. Breaks' \in Nat /\ Breaks = Breaks' + (IF h = "BREAK" THEN 1 ELSE 0)
  BY <1>4, <1>6 DEF Breaks
<1>9. Breaks \in Nat /\ Breaks' <= Breaks
  <2>1. Breaks = Breaks' + 1 \/ Breaks = Breaks' + 0
    BY <1>8
  <2>2. \A a \in Nat : \A b : b = a + 1 \/ b = a + 0 => b \in Nat /\ a <= b
    OBVIOUS
  <2> QED BY <1>8, <2>1, <2>2
<1>10. (NoGreeting => NoGreeting') /\ (Contains(down', "END") => Contains(down, "END"))
  BY <1>5, <1>6 DEF NoGreeting
<1> QED BY <1>1, <1>2, <1>3, <1>7, <1>8, <1>9, <1>10 DEF Shorter, h

\* The greeting: HELLO and QUEUE, each with its answer.
LEMMA GreetedKept ==
  ASSUME TesterInv, Read, me.state \in {"welcome", "queue"}, Head(down) \in Expected[me.state]
  PROVE  TesterInv'
<1>1. /\ me \in TesterRec /\ me.exit = -1 /\ down' \in Seq(TReplies)
      /\ up \in Seq(Requests \cup {Req("CUT")}) /\ Len(up) + Unread <= 1 /\ Shorter
  BY ReadLeaves DEF TesterInv, TesterTyped, OneAtATime, Shorter
<1>2. Head(down) \in Told
  BY DEF Expected, Told
<1>3. up = <<>> /\ Unread' = 0
  <2>1. Unread' \in Nat /\ Unread = Unread' + 1 /\ Len(up) \in Nat
    BY <1>1, <1>2, ReadLeaves
  <2> HIDE DEF Unread
  <2>2. Unread' = 0 /\ Len(up) = 0
    BY <1>1, <2>1
  <2> QED BY <1>1, <2>2
<1>4. CASE me.state = "welcome"
  <2>1. me' = [me EXCEPT !.state = "queue"] /\ up' = <<Req("QUEUE")>>
    BY <1>3, <1>4 DEF Read
  <2>2. me' \in TesterRec /\ me'.state = "queue" /\ me'.exit = -1 /\ me'.todo = me.todo
        /\ me'.round = me.round
    BY <1>1, <2>1 DEF TesterRec, Expected
  <2>3. up' \in Seq(Requests \cup {Req("CUT")}) /\ Len(up') = 1 /\ Only(up', {"QUEUE"})
    BY <2>1 DEF Requests, Req, Only
  <2>4. ServerSound'
    BY <1>1, ServerStill DEF Shorter, TesterInv
  <2>5. TesterTyped'
    BY <1>1, <2>2, <2>3 DEF TesterInv, TesterTyped
  <2>6. OneAtATime'
    BY <1>3, <2>2, <2>3 DEF OneAtATime
  <2>7. Before'
    BY <1>1, <1>4 DEF TesterInv, OneMatch, Before, Shorter
  <2>8. OneMatch'
    BY <1>1, <2>1, <2>2, <2>7 DEF TesterInv, OneMatch, Shorter
  <2>9. BreaksCounted'
    <3>1. me.round \in Nat /\ match.ticks \in Nat
      BY <1>1 DEF TesterInv, ServerSound, TesterRec, MatchRec
    <3>2. match.ticks \div RoundTicks \in Nat
      BY <3>1, TicksOpen
    <3> QED BY <1>1, <2>2, <3>1, <3>2 DEF TesterInv, BreaksCounted, Shorter
  <2> QED BY <2>4, <2>5, <2>6, <2>8, <2>9 DEF TesterInv
<1>5. CASE me.state = "queue"
  <2>1. me' = [me EXCEPT !.state = "found"] /\ up' = up
    BY <1>5 DEF Read
  <2>2. me' \in TesterRec /\ me'.state = "found" /\ me'.exit = -1 /\ me'.todo = me.todo
        /\ me'.round = me.round
    BY <1>1, <2>1 DEF TesterRec, Expected
  <2>3. ~Asks'
    BY <1>3, <2>1 DEF Asks
  <2>4. TesterTyped'
    BY <1>1, <2>1, <2>2 DEF TesterInv, TesterTyped
  <2>5. OneAtATime'
    BY <1>3, <2>1, <2>2 DEF OneAtATime
  <2>6. me'.round + Breaks' <= me.round + Breaks
    BY <1>1, <2>2 DEF TesterRec, Shorter
  <2> QED BY <1>1, <2>2, <2>3, <2>4, <2>5, <2>6, OnKept
<1> QED BY <1>4, <1>5

\* The match it has been dealt, and the answer to each request of its ship.
LEMMA AnsweredKept ==
  ASSUME TesterInv, Read, me.state \in {"found", "place", "cut"},
         Head(down) \in Expected[me.state]
  PROVE  TesterInv'
<1>1. /\ Shorter /\ Continue /\ down \in Seq(TReplies) /\ down' \in Seq(TReplies)
      /\ up \in Seq(Requests \cup {Req("CUT")})
  BY ReadLeaves DEF TesterInv, TesterTyped, Read, Shorter
<1>2. Unread' \in Nat /\ Unread = Unread' + (IF Head(down) \in Told THEN 1 ELSE 0) /\ Len(up) \in Nat
  BY <1>1, ReadLeaves
<1>3. up = <<>> /\ Unread' = 0
  <2>1. Len(up) = 0 /\ Unread' = 0
    <3>1. CASE me.state = "found"
      <4>1. Len(up) + Unread = 0
        BY <3>1 DEF TesterInv, OneAtATime
      <4> HIDE DEF Unread
      <4> QED BY <1>2, <4>1
    <3>2. CASE me.state \in {"place", "cut"}
      <4>1. Len(up) + Unread = 1
        BY <3>2 DEF TesterInv, OneAtATime
      <4>2. Head(down) \in Told
        BY <3>2 DEF Expected, Told, Answers
      <4> HIDE DEF Unread
      <4> QED BY <1>2, <4>1, <4>2
    <3> QED BY <3>1, <3>2
  <2> QED BY <1>1, <2>1
<1>4. NoGreeting'
  <2>1. Count(down', Told) = 0
    BY <1>3 DEF Unread
  <2>2. {"WELCOME", "QUEUED"} \subseteq Told
    BY DEF Told
  <2>3. \A m \in Told : ~Contains(down', m)
    BY <1>1, <2>1, CountNone
  <2> QED BY <2>2, <2>3 DEF NoGreeting
<1> QED BY <1>1, <1>3, <1>4, ContinueKept

\* The fight, as it is told.
LEMMA PlayedKept ==
  ASSUME TesterInv, Read, me.state = "play", Head(down) \in Expected[me.state]
  PROVE  TesterInv'
<1>1. /\ Shorter /\ Played(Head(down)) /\ me \in TesterRec /\ me.exit = -1 /\ me.todo = <<>>
      /\ up \in Seq(Requests \cup {Req("CUT")}) /\ ~Asks
  BY ReadLeaves DEF TesterInv, TesterTyped, OneMatch, Read
<1>2. CASE Head(down) = "END"
  <2>1. Exit(0)
    BY <1>1, <1>2 DEF Played
  <2>2. Contains(down, "END")
    BY <1>2, ReadLeaves DEF Takes
  <2> QED BY <1>1, <2>1, <2>2, ExitKept
<1>3. CASE Head(down) = "BREAK"
  <2> DEFINE r  == me.round + 1
             to == IF r \in Calls THEN "aim" ELSE me.state
  <2>1. me' = [me EXCEPT !.round = r, !.state = to] /\ up' = up
    BY <1>1, <1>3 DEF Played
  <2>2. r \in Nat /\ to \in {"play", "aim"} /\ (to = "aim" => r \in Calls)
    BY <1>1 DEF TesterRec
  <2>3. Breaks = Breaks' + 1 /\ Breaks' \in Nat
    BY <1>1, <1>3, ReadLeaves DEF Shorter
  <2>4. me.round \in Nat /\ r = me.round + 1
    BY <1>1 DEF TesterRec
  <2> HIDE DEF r, to
  <2>5. me' \in TesterRec /\ me'.state = to /\ me'.round = r /\ me'.exit = -1 /\ me'.todo = <<>>
    BY <1>1, <2>1, <2>2 DEF TesterRec, Expected
  <2>6. ~Asks'
    BY <1>1, <2>1 DEF Asks
  <2>7. TesterTyped'
    BY <1>1, <2>1, <2>2, <2>5 DEF TesterInv, TesterTyped, Shorter
  <2>8. OneAtATime'
    BY <2>2, <2>5 DEF OneAtATime
  <2>9. me'.round + Breaks' <= me.round + Breaks
    <3> HIDE DEF Breaks
    <3> QED BY <2>3, <2>4, <2>5
  <2> QED BY <1>1, <2>2, <2>5, <2>6, <2>7, <2>8, <2>9, OnKept
<1>4. CASE Head(down) \notin {"END", "BREAK"}
  <2>1. me' = me /\ up' = up
    BY <1>1, <1>4 DEF Played
  <2>2. ~Asks'
    BY <1>1, <2>1 DEF Asks
  <2>3. TesterTyped'
    BY <1>1, <2>1 DEF TesterInv, TesterTyped, Shorter
  <2>4. OneAtATime'
    BY <1>1, <2>1 DEF OneAtATime
  <2>5. me'.round + Breaks' <= me.round + Breaks
    BY <1>1, <2>1 DEF TesterRec, Shorter
  <2> QED BY <1>1, <2>1, <2>2, <2>3, <2>4, <2>5, OnKept
<1> QED BY <1>2, <1>3, <1>4

\* Whatever it reads, it stands.
LEMMA ReadKept ==
  ASSUME TesterInv, Read
  PROVE  TesterInv'
<1>1. CASE Head(down) \notin Expected[me.state]
  <2>1. Exit(1)
    BY <1>1 DEF Read
  <2> QED BY <2>1, ReadLeaves, ExitKept
<1>2. CASE Head(down) \in Expected[me.state]
  <2>1. me.state \in {"welcome", "queue", "found", "place", "cut", "play"}
    BY DEF Read, Waiting, Expected
  <2> QED BY <1>2, <2>1, GreetedKept, AnsweredKept, PlayedKept
<1> QED BY <1>1, <1>2

\* The call it was told to make, and giving up.
LEMMA PressKept ==
  ASSUME TesterInv, Press
  PROVE  TesterInv'
<1>1. /\ me.state = "aim" /\ me' = [me EXCEPT !.state = "play", !.called = me.round]
      /\ up' = Append(up, Req("CALL")) /\ down' = down /\ me \in TesterRec /\ me.exit = -1
      /\ me.todo = <<>> /\ me.round \in Calls /\ up \in Seq(Requests \cup {Req("CUT")})
      /\ down \in Seq(TReplies) /\ ~Asks
  BY DEF Press, TesterInv, TesterTyped, OneMatch
<1>2. Breaks \in Nat
  BY <1>1, CountIs DEF Breaks
<1>3. Shorter
  BY <1>1, <1>2 DEF Press, Shorter, Breaks, NoGreeting
<1>4. me' \in TesterRec /\ me'.state = "play" /\ me'.exit = -1 /\ me'.todo = <<>>
      /\ me'.round = me.round
  BY <1>1 DEF TesterRec, Expected
<1>5. up' \in Seq(Requests \cup {Req("CUT")})
  BY <1>1 DEF Requests, Req
<1>6. ~Asks'
  <2>1. Req("CALL").type # "QUEUE"
    BY DEF Req
  <2>2. \A i \in DOMAIN up' : (i \in DOMAIN up /\ up'[i] = up[i]) \/ up'[i] = Req("CALL")
    BY <1>1
  <2> QED BY <1>1, <2>1, <2>2 DEF Asks
<1>7. TesterTyped'
  BY <1>1, <1>4, <1>5 DEF TesterInv, TesterTyped
<1>8. OneAtATime'
  BY <1>4 DEF OneAtATime
<1>9. me'.round + Breaks' <= me.round + Breaks
  BY <1>1, <1>2, <1>4 DEF TesterRec, Breaks
<1> QED BY <1>1, <1>3, <1>4, <1>6, <1>7, <1>8, <1>9, OnKept

\* And when it gives up.
LEMMA FailsKept ==
  ASSUME TesterInv, Fails
  PROVE  TesterInv'
<1>1. /\ Exit(1) /\ down' = down /\ setup' = setup /\ srv' = srv /\ match' = match
      /\ down \in Seq(TReplies)
  BY DEF Fails, TesterInv, TesterTyped
<1>2. Breaks \in Nat
  BY <1>1, CountIs DEF Breaks
<1>3. Shorter
  BY <1>1, <1>2 DEF Shorter, Breaks, NoGreeting
<1> QED BY <1>1, <1>3, ExitKept

\* So it is kept by every step, and it holds at the start.
LEMMA TesterStep == TesterInv /\ [TNext]_vars => TesterInv'
<1> SUFFICES ASSUME TesterInv, [TNext]_vars PROVE TesterInv'
  OBVIOUS
<1>1. CASE Read
  BY <1>1, ReadKept
<1>2. CASE Press
  BY <1>2, PressKept
<1>3. CASE Fails
  BY <1>3, FailsKept
<1>4. CASE Answer
  BY <1>4, AnswerKept
<1>5. CASE Unasked
  BY <1>5, UnaskedKept
<1>6. CASE UNCHANGED vars
  <2>1. /\ setup' = setup /\ me' = me /\ srv' = srv /\ match' = match /\ up' = up /\ down' = down
    BY <1>6 DEF vars
  <2>2. ServerSound'
    BY <2>1, ServerStill DEF TesterInv
  <2>3. TesterTyped' /\ OneAtATime'
    BY <2>1 DEF TesterInv, TesterTyped, OneAtATime, NoGreeting, Unread
  <2>4. OneMatch' /\ BreaksCounted'
    BY <2>1 DEF TesterInv, OneMatch, BreaksCounted, Asks, Before, Breaks
  <2> QED BY <2>2, <2>3, <2>4 DEF TesterInv
<1> QED BY <1>1, <1>2, <1>3, <1>4, <1>5, <1>6 DEF TNext, Unasked

LEMMA TesterStart == TInit => TesterInv
<1> SUFFICES ASSUME TInit PROVE TesterInv
  OBVIOUS
<1>1. /\ setup \in Setups /\ match = NewMatch /\ up = <<Req("HELLO")>> /\ down = <<>>
      /\ me = [state |-> "welcome", todo |-> Orders, round |-> 0, called |-> 0, exit |-> -1]
      /\ srv = [state |-> "connected", ship |-> {}, closing |-> FALSE]
  BY DEF TInit
<1>2. ServerSound
  BY <1>1, TicksAre DEF ServerSound, ServerRec, ServerStates, InMatch
<1>3. Orders \in Seq(Requests \cup {Req("CUT")}) /\ Only(Orders, {"PLACE", "CUT"})
  <2> DEFINE P == [i \in DOMAIN Places |-> PlaceReq(Places[i])]
             C == [i \in 1 .. Cuts |-> Req("CUT")]
             A == {m \in Requests \cup {Req("CUT")} : m.type \in {"PLACE", "CUT"}}
  <2>1. P \in Seq(A)
    <3>1. \A p \in Parts : PlaceReq(p) \in A
      BY DEF PlaceReq, Requests
    <3>2. DOMAIN Places = 1 .. Len(Places) /\ Len(Places) \in Nat
          /\ \A i \in 1 .. Len(Places) : Places[i] \in Parts
      BY TesterAssumption
    <3> HIDE DEF A
    <3> QED BY <3>1, <3>2
  <2>2. C \in Seq(A)
    <3>1. Req("CUT") \in A
      BY DEF Req
    <3> HIDE DEF A
    <3> QED BY <3>1, TesterAssumption
  <2> HIDE DEF P, C, A
  <2>3. P \o C \in Seq(A)
    BY <2>1, <2>2
  <2>4. Orders = P \o C
    BY DEF Orders, P, C
  <2>5. A \subseteq Requests \cup {Req("CUT")} /\ \A m \in A : m.type \in {"PLACE", "CUT"}
    BY DEF A
  <2>6. Orders \in Seq(A)
    BY <2>3, <2>4
  <2> HIDE DEF Orders
  <2>7. \A i \in DOMAIN Orders : Orders[i] \in A
    BY <2>6
  <2>8. Orders \in Seq(Requests \cup {Req("CUT")})
    BY <2>5, <2>6
  <2> QED BY <2>5, <2>7, <2>8 DEF Only
<1>4. TesterTyped
  <2>1. /\ me \in TesterRec /\ me.state = "welcome" /\ me.todo = Orders /\ me.exit = -1
    BY <1>1, <1>3 DEF TesterRec, Expected
  <2>2. up \in Seq(Requests \cup {Req("CUT")}) /\ down \in Seq(TReplies)
    BY <1>1 DEF Requests, Req
  <2> QED BY <1>3, <2>1, <2>2 DEF TesterTyped
<1>5. Unread = 0 /\ Breaks = 0
  BY <1>1, CountNone DEF Unread, Breaks
<1>6. OneAtATime
  <2>1. Len(up) = 1 /\ Only(up, {"HELLO"})
    BY <1>1 DEF Only, Req
  <2> QED BY <1>1, <1>5, <2>1 DEF OneAtATime
<1>7. OneMatch
  <2>1. ~Asks
    BY <1>1 DEF Asks, Req
  <2>2. Before
    BY <1>1, TicksAre DEF Before, Contains
  <2> QED BY <1>1, <2>1, <2>2 DEF OneMatch, Before
<1>8. BreaksCounted
  <2>1. match.ticks = 0 /\ me.round = 0
    BY <1>1, TicksAre
  <2>2. 0 \div RoundTicks \in Nat
    BY TicksOpen
  <2> QED BY <1>5, <2>1, <2>2 DEF BreaksCounted
<1> QED BY <1>2, <1>4, <1>6, <1>7, <1>8 DEF TesterInv

\* What all that makes of its type invariant, its answers and its exit code.
LEMMA InvTester == TesterInv => TesterTypeOK /\ AnswersMatch /\ ExitIsEarned
<1> SUFFICES ASSUME TesterInv PROVE TesterTypeOK /\ AnswersMatch /\ ExitIsEarned
  OBVIOUS
<1>1. me \in TesterRec /\ (me.state # "gone" => me.exit = -1) /\ down \in Seq(TReplies)
      /\ match.ticks \in 0 .. TimeoutTicks
  BY DEF TesterInv, TesterTyped, ServerSound, MatchRec
<1>2. TesterTypeOK
  <2> DEFINE q == match.ticks \div RoundTicks
             b == TimeoutTicks \div RoundTicks
  <2>1. q <= b /\ b \in Nat /\ q \in Nat
    <3>1. match.ticks \in Nat
      BY <1>1, TicksAre
    <3>2. match.ticks \div RoundTicks \in Nat
      BY <3>1, TicksOpen
    <3>3. match.ticks \div RoundTicks <= TimeoutTicks \div RoundTicks
      BY <1>1, TicksBound
    <3>4. TimeoutTicks \div RoundTicks \in Nat
      BY <1>1, TicksBound
    <3> QED BY <3>2, <3>3, <3>4
  <2>2. me.round \in Nat /\ Breaks \in Nat /\ me.round + Breaks <= q
    BY <1>1, CountIs DEF TesterInv, TesterRec, BreaksCounted, Breaks
  <2> HIDE DEF q, b, Breaks
  <2>3. me.round \in 0 .. b
    BY <2>1, <2>2
  <2> QED BY <1>1, <2>3 DEF TesterTypeOK, TesterRec, b
<1>3. AnswersMatch
  <2> SUFFICES ASSUME me.state \in {"place", "cut"} PROVE Len(up) + Count(down, Answers) = 1
    BY DEF AnswersMatch
  <2>1. Len(up) + Count(down, Told) = 1 /\ NoGreeting
    BY DEF TesterInv, OneAtATime, Unread
  <2>2. \A i \in DOMAIN down : down[i] \notin {"WELCOME", "QUEUED"}
    BY <2>1 DEF NoGreeting, Contains
  <2>3. \A i \in DOMAIN down : down[i] \in Answers <=> down[i] \in Told
    BY <2>2 DEF Told
  <2>4. Count(down, Answers) = Count(down, Told)
    BY <2>3 DEF Count
  <2> QED BY <2>1, <2>4
<1>4. ExitIsEarned
  BY <1>1 DEF TesterInv, TesterTyped, OneMatch, ExitIsEarned, InMatch
<1> QED BY <1>2, <1>3, <1>4

-----------------------------------------------------------------------------

\* Whoever sits there, one of the two invariants holds, and only its own steps are
\* taken.
SeatInv == ClientInv \/ TesterInv

LEMMA WhoSits == (ClientInv => ~Tests) /\ (TesterInv => Tests)
<1>1. ClientInv => ~Tests
  BY DEF ClientInv, ClientTyped, ClientRec, Tests
<1>2. TesterInv => Tests
  BY DEF TesterInv, TesterTyped, TesterRec, Tests
<1> QED BY <1>1, <1>2

LEMMA SeatStart == SeatInit => SeatInv
BY ClientStart, TesterStart DEF SeatInit, SeatInv

LEMMA SeatStep == SeatInv /\ [SeatNext]_vars => SeatInv'
BY WhoSits, ClientStep, TesterStep DEF SeatNext, SeatInv

LEMMA SeatKept == SeatSpec => []SeatInv
BY SeatStart, SeatStep, PTL DEF SeatSpec

\* The client in apps/client/main.c and its server, for any parts, clashes, scripts,
\* rounds and timeouts: while both pack, the ship the player is shown is the
\* server's with what is on the way to it; and until the server closes the
\* connection, what the client will make of what is on the way to it is the state
\* the server has it in, with a break to answer if and only if one is open.
THEOREM SeatsAgree == SeatSpec => []SeatAgrees
<1>1. SeatInv => SeatAgrees
  BY WhoSits, InvTyped, InvMirror, InvSides DEF SeatInv, SeatAgrees
<1> QED BY <1>1, SeatKept, PTL

\* The scripted tester, for any script: each answer it prints is to the request it
\* has just sent, and an exit code of 0 is a match that the server has ended, with
\* every request of the script answered before.
THEOREM TesterAlwaysRight == SeatSpec => []TesterIsRight
<1>1. SeatInv => TesterIsRight
  BY WhoSits, InvTester DEF SeatInv, TesterIsRight
<1> QED BY <1>1, SeatKept, PTL

\* The client alone, as it runs against the server of apps/server/main.c.
THEOREM ClientsAgree == Spec => [](ClientTypeOK /\ MirrorAgrees /\ SidesAgree)
<1>1. ClientInv => ClientTypeOK /\ MirrorAgrees /\ SidesAgree
  BY InvTyped, InvMirror, InvSides
<1> QED BY <1>1, ClientStart, ClientStep, PTL DEF Spec
=============================================================================
