---------------------------- MODULE Dw2Bot_proofs -----------------------------
(***************************************************************************)
(* Theorems about Dw2Bot, for any bounds of the pool, any number of        *)
(* connections and any buffers: its types, that it never leaves its        *)
(* bounds, and that a bot and the server never lose each other.            *)
(***************************************************************************)
EXTENDS Dw2Bot, FiniteSetTheorems, TLAPS

\* The live bots are a finite set, however many there are.
LEMMA BotsFinite ==
  /\ IsFiniteSet(Bots) /\ Cardinality(Bots) = MaxBots
  /\ \A S \in SUBSET Bots : IsFiniteSet(S) /\ Cardinality(S) \in Nat /\ Cardinality(S) <= MaxBots
<1>1. MaxBots \in Nat BY PoolAssumption
<1>2. IsFiniteSet(Bots) /\ Cardinality(Bots) = MaxBots
  BY <1>1, FS_Interval DEF Bots
<1>3. ASSUME NEW S \in SUBSET Bots
      PROVE  IsFiniteSet(S) /\ Cardinality(S) \in Nat /\ Cardinality(S) <= MaxBots
  BY <1>2, FS_Subset, FS_CardinalityType
<1> QED BY <1>2, <1>3

\* The parts of the type that the steps change.
BotOK(b) == b \in BotRec /\ ((b.link = 0) = (b.state \in {"down", "off"}))
BotsOK   == bots \in [Bots -> BotRec] /\ \A i \in Bots : BotOK(bots[i])
LinksOK  == links \in [Links -> LinkRec]
TimesOK  == quiet \in BOOLEAN /\ calm \in BOOLEAN /\ cuts \in 0 .. MaxCuts

LEMMA TypeParts == PoolTypeOK <=> BotsOK /\ LinksOK /\ TimesOK
BY DEF PoolTypeOK, BotsOK, BotOK, LinksOK, TimesOK

\* A bot that stays in the pool, or out of it, leaves the live ones as they are.
LEMMA SameLive ==
  ASSUME BotsOK, NEW i \in Bots, NEW b, BotOK(b),
         bots' = [bots EXCEPT ![i] = b], (b.state = "off") = (bots[i].state = "off")
  PROVE  BotsOK' /\ Live' = Live
BY DEF BotsOK, BotOK, Live

\* Messages under way.
LEMMA Sent ==
  ASSUME NEW S, NEW q \in Seq(S), NEW m \in S
  PROVE  Append(q, m) \in Seq(S)
OBVIOUS

LEMMA Read ==
  ASSUME NEW S, NEW q \in Seq(S), q # <<>>
  PROVE  Head(q) \in S /\ Tail(q) \in Seq(S)
OBVIOUS

LEMMA NoLinkTyped == NoLink \in LinkRec
<1>1. <<>> \in Seq(Requests) /\ <<>> \in Seq(Replies) OBVIOUS
<1> QED BY <1>1 DEF NoLink, LinkRec, LinkStates

\* Dropping a bot keeps it in the pool.
LEMMA Dropped ==
  ASSUME NEW b, BotOK(b)
  PROVE  /\ BotOK(Down(b)) /\ Down(b).state = "down"
         /\ BotOK(Drop(b)) /\ Drop(b).state = "down"
         /\ BotOK([Drop(b) EXCEPT !.state = "off"])
<1>1. MaxLinks \in Nat BY PoolAssumption
<1>2. b \in BotRec BY DEF BotOK
<1>3. Down(b) \in BotRec /\ Down(b).link = 0 /\ Down(b).state = "down"
  <2>1. 0 \in 0 .. MaxLinks BY <1>1
  <2>2. "down" \in BotStates BY DEF BotStates
  <2> QED BY <1>2, <2>1, <2>2 DEF Down, BotRec
<1>4. Drop(b) \in BotRec /\ Drop(b).link = 0 /\ Drop(b).state = "down"
  BY <1>3 DEF Drop, BotRec, BotStates
<1>5. /\ [Drop(b) EXCEPT !.state = "off"] \in BotRec
      /\ [Drop(b) EXCEPT !.state = "off"].link = 0
      /\ [Drop(b) EXCEPT !.state = "off"].state = "off"
  BY <1>4 DEF BotRec, BotStates
<1> QED BY <1>3, <1>4, <1>5 DEF BotOK

\* What a step of one bot that stays in the pool has to keep.
Kept == BotsOK' /\ LinksOK' /\ Live' = Live

LEMMA SendKeeps ==
  ASSUME BotsOK, NEW i \in Bots, bots[i].state # "off",
         NEW b, BotOK(b), b.link # 0, NEW ls \in [Links -> LinkRec],
         NEW msg \in Requests, Send(i, b, ls, msg)
  PROVE  Kept
<1>1. b.link \in Links BY PoolAssumption DEF BotOK, BotRec, Links
<1>2. b.state # "off" BY DEF BotOK
<1>3. CASE /\ bots' = [bots EXCEPT ![i] = b]
           /\ links' = [ls EXCEPT ![b.link].up = Append(@, msg)]
  <2>1. Append(ls[b.link].up, msg) \in Seq(Requests)
    BY <1>1, Sent DEF LinkRec
  <2>2. [ls[b.link] EXCEPT !.up = Append(@, msg)] \in LinkRec
    BY <1>1, <2>1 DEF LinkRec
  <2>3. links' = [ls EXCEPT ![b.link] = [ls[b.link] EXCEPT !.up = Append(@, msg)]]
    BY <1>3
  <2> QED BY <1>2, <1>3, <2>2, <2>3, SameLive DEF Kept, LinksOK
<1>4. CASE bots' = [bots EXCEPT ![i] = b] /\ links' = ls
  BY <1>2, <1>4, SameLive DEF Kept, LinksOK
<1>5. CASE /\ bots' = [bots EXCEPT ![i] = Down(b)]
           /\ links' = [ls EXCEPT ![b.link] = NoLink]
  <2>1. BotOK(Down(b)) /\ Down(b).state # "off" BY Dropped
  <2>2. LinksOK' BY <1>5, NoLinkTyped DEF LinksOK
  <2> QED BY <1>5, <2>1, <2>2, SameLive DEF Kept
<1> QED BY <1>3, <1>4, <1>5 DEF Send

\* on_msg keeps a connected bot connected, or drops it.
LEMMA Heard ==
  ASSUME NEW b, BotOK(b), b.link # 0, NEW msg \in Replies
  PROVE  /\ BotOK(OnMsg(b, msg)) /\ OnMsg(b, msg).state # "off"
         /\ msg # "ERROR" => OnMsg(b, msg).link # 0
<1>1. b \in BotRec /\ b.state \notin {"down", "off"} BY DEF BotOK
<1>2. CASE msg = "ERROR"
  <2>1. OnMsg(b, msg) = Drop(b) BY <1>2 DEF OnMsg, Found
  <2> QED BY <1>2, <2>1, Dropped
<1>3. CASE msg \in Found
  <2>1. OnMsg(b, msg) = [b EXCEPT !.state = "pack", !.ready = TRUE] BY <1>3 DEF OnMsg, Found
  <2>2. "pack" \in BotStates BY DEF BotStates
  <2>3. OnMsg(b, msg) \in BotRec BY <1>1, <2>1, <2>2 DEF BotRec
  <2>4. OnMsg(b, msg).state = "pack" /\ OnMsg(b, msg).link = b.link
    BY <1>1, <2>1 DEF BotRec
  <2> QED BY <2>3, <2>4 DEF BotOK
<1>4. CASE msg = "WELCOME"
  <2>1. OnMsg(b, msg) = [b EXCEPT !.state = "queued"] BY <1>4 DEF OnMsg, Found
  <2> QED BY <1>1, <2>1 DEF BotOK, BotRec, BotStates
<1>5. CASE msg = "START"
  <2>1. OnMsg(b, msg) = [b EXCEPT !.state = "combat", !.ready = FALSE] BY <1>5 DEF OnMsg, Found
  <2>2. "combat" \in BotStates BY DEF BotStates
  <2>3. OnMsg(b, msg) \in BotRec BY <1>1, <2>1, <2>2 DEF BotRec
  <2>4. OnMsg(b, msg).state = "combat" /\ OnMsg(b, msg).link = b.link
    BY <1>1, <2>1 DEF BotRec
  <2> QED BY <2>3, <2>4 DEF BotOK
<1>6. CASE msg = "BREAK"
  <2>1. OnMsg(b, msg) = [b EXCEPT !.call = TRUE] BY <1>6 DEF OnMsg, Found
  <2> QED BY <1>1, <2>1 DEF BotOK, BotRec, BotStates
<1>7. CASE msg = "END"
  <2>1. OnMsg(b, msg) = [b EXCEPT !.state = "queued", !.retry = TRUE, !.ready = FALSE, !.call = FALSE]
    BY <1>7 DEF OnMsg, Found
  <2>2. "queued" \in BotStates BY DEF BotStates
  <2>3. OnMsg(b, msg) \in BotRec BY <1>1, <2>1, <2>2 DEF BotRec
  <2>4. OnMsg(b, msg).state = "queued" /\ OnMsg(b, msg).link = b.link
    BY <1>1, <2>1 DEF BotRec
  <2> QED BY <2>3, <2>4 DEF BotOK
<1> QED BY <1>2, <1>3, <1>4, <1>5, <1>6, <1>7 DEF Replies, Found

LEMMA ReceiveKeeps ==
  ASSUME PoolTypeOK, NEW i \in Bots, Receive(i)
  PROVE  PoolTypeOK' /\ Live' = Live
<1> DEFINE l == bots[i].link
           msg == Head(links[l].down)
           b == OnMsg(bots[i], msg)
           read == [links EXCEPT ![l].down = Tail(@)]
<1>0. BotsOK /\ LinksOK /\ TimesOK BY TypeParts
<1>1. BotOK(bots[i]) /\ l # 0 /\ l \in Links /\ bots[i].state # "off"
  BY <1>0, PoolAssumption DEF Receive, BotsOK, BotOK, BotRec, Links
<1>2. links[l] \in LinkRec /\ links[l].down \in Seq(Replies) /\ links[l].down # <<>>
  BY <1>0, <1>1 DEF Receive, LinksOK, LinkRec
<1>3. msg \in Replies /\ Tail(links[l].down) \in Seq(Replies)
  BY <1>2, Read
<1>4. [links[l] EXCEPT !.down = Tail(@)] \in LinkRec
  BY <1>2, <1>3 DEF LinkRec
<1>5. read \in [Links -> LinkRec]
  BY <1>0, <1>1, <1>4 DEF LinksOK
<1>6. BotOK(b) /\ b.state # "off" /\ (msg # "ERROR" => b.link # 0)
  BY <1>1, <1>3, Heard
<1>7. /\ quiet' = (quiet /\ msg # "FOUND_HUMAN")
      /\ CASE msg = "WELCOME" -> Send(i, b, read, "QUEUE")
           [] msg \in Found   -> Send(i, b, read, "PLACE")
           [] msg = "ERROR"   -> bots' = [bots EXCEPT ![i] = b] /\ links' = [links EXCEPT ![l] = NoLink]
           [] OTHER           -> bots' = [bots EXCEPT ![i] = b] /\ links' = read
  BY DEF Receive
<1>8. Kept
  <2>1. CASE msg = "WELCOME"
    <3>1. Send(i, b, read, "QUEUE") BY <1>7, <2>1 DEF Found
    <3> QED BY <1>0, <1>1, <1>5, <1>6, <2>1, <3>1, SendKeeps DEF Requests
  <2>2. CASE msg \in Found
    <3>1. Send(i, b, read, "PLACE") BY <1>7, <2>2 DEF Found
    <3>2. msg # "ERROR" BY <2>2 DEF Found
    <3> QED BY <1>0, <1>1, <1>5, <1>6, <3>1, <3>2, SendKeeps DEF Requests
  <2>3. CASE msg = "ERROR"
    <3>1. bots' = [bots EXCEPT ![i] = b] /\ links' = [links EXCEPT ![l] = NoLink]
      BY <1>7, <2>3 DEF Found
    <3>2. LinksOK' BY <1>0, <3>1, NoLinkTyped DEF LinksOK
    <3> QED BY <1>0, <1>1, <1>6, <3>1, <3>2, SameLive DEF Kept
  <2>4. CASE msg \notin Found \cup {"WELCOME", "ERROR"}
    <3>1. bots' = [bots EXCEPT ![i] = b] /\ links' = read
      BY <1>7, <2>4 DEF Found
    <3>2. LinksOK' BY <1>5, <3>1 DEF LinksOK
    <3> QED BY <1>0, <1>1, <1>6, <3>1, <3>2, SameLive DEF Kept
  <2> QED BY <2>1, <2>2, <2>3, <2>4
<1>9. TimesOK' BY <1>0, <1>7 DEF Receive, TimesOK
<1> QED BY <1>8, <1>9, TypeParts DEF Kept, PoolTypeOK, BotsOK, BotOK, LinksOK, TimesOK

\* The invariant: types, and a pool within its bounds.
InBounds == PoolTypeOK /\ PoolBounds

LEMMA StartInBounds == Init => InBounds
<1> SUFFICES ASSUME Init PROVE InBounds OBVIOUS
<1>1. StartBots \in 1 .. MaxBots /\ MinBots <= StartBots /\ MaxBots \in Nat /\ MaxLinks \in Nat
      /\ MinBots \in Nat /\ MaxCuts \in Nat
  BY PoolAssumption
<1>2. BotsOK BY <1>1 DEF Init, BotsOK, BotOK, BotRec, BotStates, Bots
<1>3. LinksOK BY NoLinkTyped DEF Init, LinksOK
<1>4. TimesOK
  <2>1. 0 \in 0 .. MaxCuts BY <1>1
  <2>2. quiet = FALSE /\ calm = TRUE /\ cuts = 0 BY DEF Init
  <2> QED BY <2>1, <2>2 DEF TimesOK
<1>5. Live = 1 .. StartBots BY <1>1 DEF Init, Live, Bots
<1>6. Cardinality(Live) = StartBots BY <1>1, <1>5, FS_Interval
<1> QED BY <1>1, <1>2, <1>3, <1>4, <1>6, TypeParts DEF InBounds, PoolBounds

LEMMA PendingKeeps ==
  ASSUME PoolTypeOK, NEW i \in Bots, NEW b, BotOK(b), (b.state = "off") = (bots[i].state = "off"),
         NEW msg \in Requests, SendPending(i, b, msg)
  PROVE  PoolTypeOK' /\ Live' = Live
<1>0. BotsOK /\ LinksOK /\ TimesOK BY TypeParts
<1>0a. bots[i].state # "off" BY DEF SendPending
<1>0b. IF b.link # 0 THEN Send(i, b, links, msg)
       ELSE bots' = [bots EXCEPT ![i] = b] /\ UNCHANGED links
  BY DEF SendPending
<1>1. ASSUME b.link # 0 PROVE Kept
  <2>1. Send(i, b, links, msg) BY <1>0b, <1>1
  <2>2. links \in [Links -> LinkRec] BY <1>0 DEF LinksOK
  <2> QED BY <1>0, <1>0a, <1>1, <2>1, <2>2, SendKeeps
<1>2. ASSUME b.link = 0 PROVE Kept
  <2>1. bots' = [bots EXCEPT ![i] = b] /\ UNCHANGED links BY <1>0b, <1>2
  <2>2. LinksOK' BY <1>0, <2>1 DEF LinksOK
  <2> QED BY <1>0, <2>1, <2>2, SameLive DEF Kept
<1>3. Kept BY <1>1, <1>2
<1>4. TimesOK' BY <1>0 DEF SendPending, TimesOK
<1> QED BY <1>3, <1>4, TypeParts DEF Kept, PoolTypeOK, BotsOK, BotOK, LinksOK, TimesOK

\* A bot that stays in the pool changes nothing of its size.
LEMMA PoolKeeps ==
  ASSUME PoolTypeOK, NEW i \in Bots, Pool(i)
  PROVE  PoolTypeOK' /\ Live' = Live
<1>0. BotsOK /\ LinksOK /\ TimesOK BY TypeParts
<1>1. BotOK(bots[i]) /\ bots[i] \in BotRec BY <1>0 DEF BotsOK
<1>2. CASE Receive(i) BY <1>2, ReceiveKeeps
<1>3. CASE HangUp(i)
  <2>1. bots[i].link \in Links /\ bots[i].state # "off"
    BY <1>1, <1>3, PoolAssumption DEF HangUp, BotOK, BotRec, Links
  <2>2. BotOK(Drop(bots[i])) /\ Drop(bots[i]).state # "off" BY <1>1, Dropped
  <2>3. BotsOK' /\ Live' = Live BY <1>0, <1>3, <2>1, <2>2, SameLive DEF HangUp
  <2>4. LinksOK' /\ TimesOK'
    BY <1>0, <1>3, NoLinkTyped DEF HangUp, LinksOK, TimesOK
  <2> QED BY <2>3, <2>4, TypeParts DEF PoolTypeOK, BotsOK, BotOK, LinksOK, TimesOK
<1>4. CASE ConnectBot(i)
  <2>1. ASSUME NEW l \in Links,
               bots' = [bots EXCEPT ![i] = [@ EXCEPT !.state = "hello", !.link = l, !.retry = FALSE]],
               links' = [links EXCEPT ![l] = Dialled]
        PROVE  Kept
    <3> DEFINE b == [bots[i] EXCEPT !.state = "hello", !.link = l, !.retry = FALSE]
    <3>1. l \in 0 .. MaxLinks /\ l # 0 BY PoolAssumption DEF Links
    <3>2. "hello" \in BotStates BY DEF BotStates
    <3>3. b \in BotRec /\ b.state = "hello" /\ b.link = l
      BY <1>1, <3>1, <3>2 DEF BotRec
    <3>4. BotOK(b) BY <3>1, <3>3 DEF BotOK
    <3>5. <<"HELLO">> \in Seq(Requests) BY DEF Requests
    <3>6. Dialled \in LinkRec BY <3>5, NoLinkTyped DEF Dialled, LinkRec, LinkStates
    <3>7. bots' = [bots EXCEPT ![i] = b] BY <2>1
    <3>8. bots[i].state # "off" BY <1>4 DEF ConnectBot
    <3>9. LinksOK' BY <1>0, <2>1, <3>6 DEF LinksOK
    <3> QED BY <1>0, <3>3, <3>4, <3>7, <3>8, <3>9, SameLive DEF Kept
  <2>2. ASSUME bots' = [bots EXCEPT ![i].retry = TRUE], UNCHANGED links
        PROVE  Kept
    <3> DEFINE b == [bots[i] EXCEPT !.retry = TRUE]
    <3>1. b \in BotRec /\ b.state = bots[i].state /\ b.link = bots[i].link
      BY <1>1 DEF BotRec
    <3>2. BotOK(b) BY <1>1, <3>1 DEF BotOK
    <3>3. bots' = [bots EXCEPT ![i] = b] BY <2>2
    <3>4. LinksOK' BY <1>0, <2>2 DEF LinksOK
    <3> QED BY <1>0, <3>1, <3>2, <3>3, <3>4, SameLive DEF Kept
  <2>3. Kept BY <1>4, <2>1, <2>2 DEF ConnectBot
  <2>4. TimesOK'
    <3>1. quiet' = quiet /\ calm' = calm BY <1>4 DEF ConnectBot
    <3>2. cuts' = cuts \/ (cuts < MaxCuts /\ cuts' = cuts + 1) BY <1>4 DEF ConnectBot
    <3>3. cuts' \in 0 .. MaxCuts BY <1>0, <3>2, PoolAssumption DEF TimesOK
    <3> QED BY <1>0, <3>1, <3>3 DEF TimesOK
  <2> QED BY <2>3, <2>4, TypeParts DEF Kept, PoolTypeOK, BotsOK, BotOK, LinksOK, TimesOK
<1>5. CASE QueueUp(i)
  <2> DEFINE b == [bots[i] EXCEPT !.retry = FALSE]
  <2>1. b \in BotRec /\ b.state = bots[i].state /\ b.link = bots[i].link
    BY <1>1 DEF BotRec
  <2>2. BotOK(b) /\ b.link # 0 /\ bots[i].state # "off"
    BY <1>1, <1>5, <2>1 DEF BotOK, QueueUp
  <2>3. Kept BY <1>0, <1>5, <2>2, SendKeeps DEF QueueUp, LinksOK, Requests
  <2>4. TimesOK' BY <1>0, <1>5 DEF QueueUp, TimesOK
  <2> QED BY <2>3, <2>4, TypeParts DEF Kept, PoolTypeOK, BotsOK, BotOK, LinksOK, TimesOK
<1>6. CASE SendReady(i)
  <2> DEFINE b == [bots[i] EXCEPT !.ready = FALSE]
  <2>1. b \in BotRec /\ b.state = bots[i].state /\ b.link = bots[i].link
    BY <1>1 DEF BotRec
  <2>2. BotOK(b) /\ (b.state = "off") = (bots[i].state = "off") BY <1>1, <2>1 DEF BotOK
  <2>3. SendPending(i, b, "READY") BY <1>6 DEF SendReady
  <2> HIDE DEF b
  <2> QED BY <2>2, <2>3, PendingKeeps DEF Requests
<1>7. CASE SendCall(i)
  <2> DEFINE b == [bots[i] EXCEPT !.call = FALSE]
  <2>1. b \in BotRec /\ b.state = bots[i].state /\ b.link = bots[i].link
    BY <1>1 DEF BotRec
  <2>2. BotOK(b) /\ (b.state = "off") = (bots[i].state = "off") BY <1>1, <2>1 DEF BotOK
  <2>3. SendPending(i, b, "CALL") BY <1>7 DEF SendCall
  <2> HIDE DEF b
  <2> QED BY <2>2, <2>3, PendingKeeps DEF Requests
<1> QED BY <1>2, <1>3, <1>4, <1>5, <1>6, <1>7 DEF Pool

\* What the server does with a link keeps it one.
LEMMA SayKeeps ==
  ASSUME LinksOK, NEW l \in Links, NEW k \in LinkRec, NEW msg \in Replies, Say(l, k, msg)
  PROVE  LinksOK'
<1>1. [k EXCEPT !.down = Append(@, msg)] \in LinkRec
  <2>1. Append(k.down, msg) \in Seq(Replies) BY Sent DEF LinkRec
  <2> QED BY <2>1 DEF LinkRec
<1>2. [k EXCEPT !.state = "gone", !.up = <<>>] \in LinkRec
  <2>1. <<>> \in Seq(Requests) /\ "gone" \in LinkStates BY DEF LinkStates
  <2> QED BY <2>1 DEF LinkRec
<1> QED BY <1>1, <1>2 DEF Say, LinksOK

LEMMA RefuseKeeps ==
  ASSUME LinksOK, NEW l \in Links, NEW k \in LinkRec, Refuse(l, k)
  PROVE  LinksOK'
<1> DEFINE d == IF Len(k.down) < Window THEN Append(k.down, "ERROR") ELSE k.down
           r == [k EXCEPT !.state = "gone", !.up = <<>>, !.down = d]
<1>1. d \in Seq(Replies)
  <2>1. k.down \in Seq(Replies) /\ "ERROR" \in Replies BY DEF LinkRec, Replies
  <2> QED BY <2>1, Sent
<1>2. <<>> \in Seq(Requests) /\ "gone" \in LinkStates BY DEF LinkStates
<1>3. links' = [links EXCEPT ![l] = r] BY DEF Refuse
<1> HIDE DEF d
<1>4. r \in LinkRec BY <1>1, <1>2 DEF LinkRec
<1> QED BY <1>3, <1>4 DEF LinksOK

LEMMA HandleKeeps ==
  ASSUME LinksOK, NEW l \in Links, Handle(l)
  PROVE  LinksOK'
<1> DEFINE msg == Head(links[l].up)
           k   == [links[l] EXCEPT !.up = Tail(@)]
<1>1. links[l] \in LinkRec /\ links[l].up \in Seq(Requests) /\ links[l].up # <<>>
  BY DEF Handle, LinksOK, LinkRec
<1>2. Tail(links[l].up) \in Seq(Requests) BY <1>1, Read
<1>3. k \in LinkRec BY <1>1, <1>2 DEF LinkRec
<1>4. CASE Say(l, [k EXCEPT !.state = "ready"], "WELCOME")
  <2>1. [k EXCEPT !.state = "ready"] \in LinkRec BY <1>3 DEF LinkRec, LinkStates
  <2>2. "WELCOME" \in Replies BY DEF Replies
  <2> QED BY <1>4, <2>1, <2>2, SayKeeps
<1>5. CASE links' = [links EXCEPT ![l] = [k EXCEPT !.state = "queued"]]
  <2>1. [k EXCEPT !.state = "queued"] \in LinkRec BY <1>3 DEF LinkRec, LinkStates
  <2> QED BY <1>5, <2>1 DEF LinksOK
<1>6. CASE links' = [links EXCEPT ![l] = [k EXCEPT !.packed = @ \/ k.state = "packing"]]
  <2>1. (k.packed \/ k.state = "packing") \in BOOLEAN OBVIOUS
  <2>2. [k EXCEPT !.packed = @ \/ k.state = "packing"] \in LinkRec BY <1>3, <2>1 DEF LinkRec
  <2> QED BY <1>6, <2>2 DEF LinksOK
<1>7. CASE links' = [links EXCEPT ![l] = [k EXCEPT !.ready = TRUE]]
  <2>1. [k EXCEPT !.ready = TRUE] \in LinkRec BY <1>3 DEF LinkRec
  <2> QED BY <1>7, <2>1 DEF LinksOK
<1>8. CASE links' = [links EXCEPT ![l] = k]
  BY <1>3, <1>8 DEF LinksOK
<1>9. CASE Refuse(l, k)
  BY <1>3, <1>9, RefuseKeeps
<1> QED BY <1>4, <1>5, <1>6, <1>7, <1>8, <1>9 DEF Handle

LEMMA ServerKeeps ==
  ASSUME PoolTypeOK, NEW l \in Links, Server(l)
  PROVE  PoolTypeOK' /\ Live' = Live
<1>0. BotsOK /\ LinksOK /\ TimesOK BY TypeParts
<1>1. bots' = bots /\ quiet' = quiet /\ calm' = calm
  BY DEF Server, Handle, Deal, StartCombat, BeginBreak, ResolveBreak, EndMatch, BotGone, Cut
<1>2. BotsOK' /\ Live' = Live BY <1>0, <1>1 DEF BotsOK, Live
<1>3. cuts' \in 0 .. MaxCuts
  <2>1. cuts' = cuts \/ (cuts < MaxCuts /\ cuts' = cuts + 1)
    BY DEF Server, Handle, Deal, StartCombat, BeginBreak, ResolveBreak, EndMatch, BotGone, Cut
  <2> QED BY <1>0, <2>1, PoolAssumption DEF TimesOK
<1>4. links[l] \in LinkRec BY <1>0 DEF LinksOK
<1>5. LinksOK'
  <2>1. CASE Handle(l) BY <1>0, <2>1, HandleKeeps
  <2>2. CASE Deal(l)
    <3> DEFINE k == [links[l] EXCEPT !.state = "packing", !.packed = FALSE, !.ready = FALSE]
    <3>1. "packing" \in LinkStates BY DEF LinkStates, Playing
    <3>2. k \in LinkRec BY <1>4, <3>1 DEF LinkRec
    <3>3. PICK found \in Found : Say(l, k, found) BY <2>2 DEF Deal
    <3>4. found \in Replies BY DEF Found, Replies
    <3> HIDE DEF k
    <3> QED BY <1>0, <3>2, <3>3, <3>4, SayKeeps
  <2>3. CASE StartCombat(l)
    <3>1. [links[l] EXCEPT !.state = "combat"] \in LinkRec BY <1>4 DEF LinkRec, LinkStates, Playing
    <3>2. "START" \in Replies BY DEF Replies
    <3> QED BY <1>0, <2>3, <3>1, <3>2, SayKeeps DEF StartCombat
  <2>4. CASE BeginBreak(l)
    <3>1. [links[l] EXCEPT !.state = "break"] \in LinkRec BY <1>4 DEF LinkRec, LinkStates, Playing
    <3>2. "BREAK" \in Replies BY DEF Replies
    <3> QED BY <1>0, <2>4, <3>1, <3>2, SayKeeps DEF BeginBreak
  <2>5. CASE ResolveBreak(l)
    <3>1. [links[l] EXCEPT !.state = "combat"] \in LinkRec BY <1>4 DEF LinkRec, LinkStates, Playing
    <3>2. links' = [links EXCEPT ![l] = [links[l] EXCEPT !.state = "combat"]]
      BY <2>5 DEF ResolveBreak
    <3> QED BY <1>0, <3>1, <3>2 DEF LinksOK
  <2>6. CASE EndMatch(l)
    <3>1. [links[l] EXCEPT !.state = "ready"] \in LinkRec BY <1>4 DEF LinkRec, LinkStates, Playing
    <3>2. "END" \in Replies BY DEF Replies
    <3> QED BY <1>0, <2>6, <3>1, <3>2, SayKeeps DEF EndMatch
  <2>7. CASE BotGone(l)
    <3>1. links' = [links EXCEPT ![l] = NoLink] BY <2>7 DEF BotGone
    <3> QED BY <1>0, <3>1, NoLinkTyped DEF LinksOK
  <2>8. CASE Cut(l)
    <3>1. <<>> \in Seq(Requests) /\ "gone" \in LinkStates BY DEF LinkStates
    <3>2. [links[l] EXCEPT !.state = "gone", !.up = <<>>] \in LinkRec BY <1>4, <3>1 DEF LinkRec
    <3> QED BY <1>0, <2>8, <3>2 DEF Cut, LinksOK
  <2> QED BY <2>1, <2>2, <2>3, <2>4, <2>5, <2>6, <2>7, <2>8 DEF Server
<1>6. TimesOK' BY <1>0, <1>1, <1>3 DEF TimesOK
<1> QED BY <1>2, <1>5, <1>6, TypeParts DEF PoolTypeOK, BotsOK, BotOK, LinksOK, TimesOK

\* A grown pool had room for one more.
LEMMA GrowKeeps ==
  ASSUME InBounds, Grow
  PROVE  InBounds'
<1>0. BotsOK /\ LinksOK /\ TimesOK /\ PoolBounds BY TypeParts DEF InBounds
<1>1. PICK i \in Bots \ Live :
        bots' = [bots EXCEPT ![i] = [@ EXCEPT !.state = "down", !.retry = TRUE]]
  BY DEF Grow
<1> DEFINE b == [bots[i] EXCEPT !.state = "down", !.retry = TRUE]
<1>2. i \in Bots /\ i \notin Live /\ bots[i].state = "off" /\ BotOK(bots[i])
  BY <1>0 DEF Live, BotsOK
<1>3. b \in BotRec /\ b.state = "down" /\ b.link = bots[i].link
  <2>1. "down" \in BotStates BY DEF BotStates
  <2> QED BY <1>2, <2>1 DEF BotOK, BotRec
<1>4. BotOK(b) BY <1>2, <1>3 DEF BotOK
<1>5. bots' = [bots EXCEPT ![i] = b] BY <1>1
<1> HIDE DEF b
<1>6. BotsOK' BY <1>0, <1>2, <1>4, <1>5 DEF BotsOK, BotOK
<1>7. Live' = Live \cup {i} BY <1>0, <1>2, <1>3, <1>5 DEF BotsOK, Live
<1>8. Live \in SUBSET Bots BY DEF Live
<1>9. Cardinality(Live') = Cardinality(Live) + 1
  BY <1>2, <1>7, <1>8, BotsFinite, FS_AddElement
<1>10. Cardinality(Live) \in Nat BY <1>8, BotsFinite
<1>11. PoolBounds'
  BY <1>0, <1>9, <1>10, PoolAssumption DEF PoolBounds, Grow
<1>12. LinksOK' /\ TimesOK' BY <1>0 DEF Grow, LinksOK, TimesOK
<1> QED BY <1>6, <1>11, <1>12, TypeParts DEF InBounds, PoolTypeOK, BotsOK, BotOK, LinksOK, TimesOK

\* A pool that lets a bot go keeps the least number.
LEMMA ReleaseKeeps ==
  ASSUME InBounds, Release
  PROVE  InBounds'
<1>0. BotsOK /\ LinksOK /\ TimesOK /\ PoolBounds BY TypeParts DEF InBounds
<1>1. TimesOK' BY <1>0 DEF Release, TimesOK
<1>2. ASSUME NEW i \in Waiting,
             bots' = [bots EXCEPT ![i] = [Drop(@) EXCEPT !.state = "off"]],
             links' = IF Open(bots[i].link) THEN links
                      ELSE [links EXCEPT ![bots[i].link] = NoLink]
      PROVE  BotsOK' /\ LinksOK' /\ PoolBounds'
  <2> DEFINE b == [Drop(bots[i]) EXCEPT !.state = "off"]
  <2>1. i \in Bots /\ i \in Live /\ BotOK(bots[i])
    BY <1>0 DEF Waiting, Live, BotsOK
  <2>2. BotOK(b) BY <2>1, Dropped
  <2>3. b.state = "off" BY <2>1, Dropped DEF BotOK, BotRec
  <2>4. bots' = [bots EXCEPT ![i] = b] BY <1>2
  <2> HIDE DEF b
  <2>5. BotsOK' BY <1>0, <2>1, <2>2, <2>4 DEF BotsOK, BotOK
  <2>6. Live' = Live \ {i} BY <1>0, <2>1, <2>3, <2>4 DEF BotsOK, Live
  <2>7. Live \in SUBSET Bots BY DEF Live
  <2>8. Cardinality(Live') = Cardinality(Live) - 1
    BY <2>1, <2>6, <2>7, BotsFinite, FS_RemoveElement
  <2>9. Cardinality(Live) \in Nat BY <2>7, BotsFinite
  <2>10. PoolBounds'
    BY <1>0, <2>8, <2>9, PoolAssumption DEF PoolBounds, Release, CanSpare
  <2>11. LinksOK' BY <1>0, <1>2, NoLinkTyped DEF LinksOK
  <2> QED BY <2>5, <2>10, <2>11
<1>3. ASSUME UNCHANGED <<bots, links>>
      PROVE  BotsOK' /\ LinksOK' /\ PoolBounds'
  BY <1>0, <1>3 DEF BotsOK, LinksOK, PoolBounds, Live
<1>4. BotsOK' /\ LinksOK' /\ PoolBounds' BY <1>2, <1>3 DEF Release
<1> QED BY <1>1, <1>4, TypeParts DEF InBounds, PoolTypeOK, BotsOK, BotOK, LinksOK, TimesOK

LEMMA EveryStepInBounds ==
  ASSUME InBounds, [Next]_vars
  PROVE  InBounds'
<1>1. ASSUME PoolTypeOK', Live' = Live PROVE InBounds'
  BY <1>1 DEF InBounds, PoolBounds
<1>2. ASSUME NEW i \in Bots, Pool(i) PROVE InBounds'
  BY <1>1, <1>2, PoolKeeps DEF InBounds
<1>3. CASE Grow BY <1>3, GrowKeeps
<1>4. CASE Release BY <1>4, ReleaseKeeps
<1>5. CASE Minute \/ Spell
  BY <1>5 DEF Minute, Spell, InBounds, PoolTypeOK, PoolBounds, Live
<1>6. ASSUME NEW l \in Links, Server(l) PROVE InBounds'
  BY <1>1, <1>6, ServerKeeps DEF InBounds
<1>7. CASE UNCHANGED vars
  BY <1>7 DEF vars, InBounds, PoolTypeOK, PoolBounds, Live
<1> QED BY <1>2, <1>3, <1>4, <1>5, <1>6, <1>7 DEF Next

LEMMA AlwaysInBounds == Spec => []InBounds
<1>1. InBounds /\ [Next]_vars => InBounds' BY EveryStepInBounds
<1> QED BY <1>1, StartInBounds, PTL DEF Spec

\* Every step of the pool (apps/bot/main.c) and of the server keeps the types:
\* a bot has a socket exactly while it is neither down nor switched off.
THEOREM PoolTypeCorrect == Spec => []PoolTypeOK
<1>1. InBounds => PoolTypeOK BY DEF InBounds
<1> QED BY <1>1, AlwaysInBounds, PTL

\* The pool is never smaller than --min and never larger than --max, for any
\* bounds, spare and number of connections (main.c:221-236).
THEOREM PoolInBounds == Spec => []PoolBounds
<1>1. InBounds => PoolBounds BY DEF InBounds
<1> QED BY <1>1, AlwaysInBounds, PTL

-----------------------------------------------------------------------------
(* Bots and the server do not lose each other.                             *)

\* The places of a sequence of messages when one is added.
LEMMA PlacesOfAppend ==
  ASSUME NEW T, NEW q \in Seq(T), NEW m \in T, NEW S
  PROVE  /\ Places(Append(q, m), S) = Places(q, S) \cup (IF m \in S THEN {Len(q) + 1} ELSE {})
         /\ \A n \in 1 .. Len(q) : Append(q, m)[n] = q[n]
         /\ Append(q, m)[Len(q) + 1] = m /\ Len(q) \in Nat
<1>1. Len(q) \in Nat /\ Len(Append(q, m)) = Len(q) + 1 OBVIOUS
<1>2. \A n \in 1 .. Len(q) : Append(q, m)[n] = q[n] OBVIOUS
<1>3. Append(q, m)[Len(q) + 1] = m OBVIOUS
<1>4. 1 .. Len(q) + 1 = (1 .. Len(q)) \cup {Len(q) + 1} BY <1>1
<1>5. Len(q) + 1 \notin 1 .. Len(q) BY <1>1
<1>6. Places(Append(q, m), S) = {n \in 1 .. Len(q) + 1 : Append(q, m)[n] \in S}
  BY <1>1 DEF Places
<1>7. Places(Append(q, m), S) = {n \in 1 .. Len(q) : q[n] \in S} \cup (IF m \in S THEN {Len(q) + 1} ELSE {})
  BY <1>2, <1>3, <1>4, <1>5, <1>6
<1> QED BY <1>1, <1>2, <1>3, <1>7 DEF Places

\* The places of a sequence of messages when the first is read.
LEMMA PlacesOfTail ==
  ASSUME NEW T, NEW q \in Seq(T), q # <<>>, NEW S
  PROVE  /\ \A n \in Nat \ {0} : n \in Places(Tail(q), S) <=> n + 1 \in Places(q, S)
         /\ \A n \in 1 .. Len(q) - 1 : Tail(q)[n] = q[n + 1]
         /\ 1 \in Places(q, S) <=> Head(q) \in S
         /\ Places(q, S) \subseteq 1 .. Len(q) /\ Places(Tail(q), S) \subseteq 1 .. Len(q) - 1
         /\ Len(q) \in Nat \ {0}
<1>1. Len(q) \in Nat \ {0} /\ Len(Tail(q)) = Len(q) - 1 /\ Head(q) = q[1] OBVIOUS
<1>2. \A n \in 1 .. Len(q) - 1 : Tail(q)[n] = q[n + 1] OBVIOUS
<1>3. ASSUME NEW n \in Nat \ {0}
      PROVE  n \in Places(Tail(q), S) <=> n + 1 \in Places(q, S)
  <2>1. n \in 1 .. Len(q) - 1 <=> n + 1 \in 1 .. Len(q) BY <1>1
  <2> QED BY <1>1, <1>2, <2>1 DEF Places
<1>4. 1 \in Places(q, S) <=> Head(q) \in S BY <1>1 DEF Places
<1>5. Places(q, S) \subseteq 1 .. Len(q) /\ Places(Tail(q), S) \subseteq 1 .. Len(q) - 1
  BY <1>1 DEF Places
<1> QED BY <1>1, <1>2, <1>3, <1>4, <1>5

\* No message of S, or one.
None(q, S) == Places(q, S) = {}
One(q, S)  == \E n \in Nat \ {0} : Places(q, S) = {n}

LEMMA Added ==
  ASSUME NEW T, NEW q \in Seq(T), NEW m \in T, NEW S
  PROVE  /\ m \notin S /\ None(q, S) => None(Append(q, m), S)
         /\ m \notin S /\ One(q, S) => One(Append(q, m), S)
         /\ m \in S /\ None(q, S) => One(Append(q, m), S)
<1>1. /\ Places(Append(q, m), S) = Places(q, S) \cup (IF m \in S THEN {Len(q) + 1} ELSE {})
      /\ Len(q) \in Nat
  BY PlacesOfAppend
<1>2. m \notin S => Places(Append(q, m), S) = Places(q, S) BY <1>1
<1>3. m \in S /\ None(q, S) => Places(Append(q, m), S) = {Len(q) + 1} BY <1>1 DEF None
<1>4. Len(q) + 1 \in Nat \ {0} BY <1>1
<1> QED BY <1>2, <1>3, <1>4 DEF None, One

LEMMA Taken ==
  ASSUME NEW T, NEW q \in Seq(T), q # <<>>, NEW S
  PROVE  /\ None(q, S) => None(Tail(q), S) /\ Head(q) \notin S
         /\ Head(q) \notin S /\ One(q, S) => One(Tail(q), S)
         /\ Head(q) \in S /\ One(q, S) => None(Tail(q), S)
<1> DEFINE P == Places(q, S)
           R == Places(Tail(q), S)
<1>1. /\ \A n \in Nat \ {0} : n \in R <=> n + 1 \in P
      /\ 1 \in P <=> Head(q) \in S
      /\ R \subseteq 1 .. Len(q) - 1 /\ Len(q) \in Nat \ {0}
  BY PlacesOfTail
<1> HIDE DEF P, R
<1>2. R \subseteq Nat \ {0}
  <2>1. Len(q) - 1 \in Int BY <1>1
  <2>2. \A n \in 1 .. Len(q) - 1 : n \in Nat \ {0} BY <2>1
  <2> QED BY <1>1, <2>2
<1>3. P = {} => R = {} /\ Head(q) \notin S BY <1>1, <1>2
<1>4. ASSUME NEW n \in Nat \ {0}, P = {n}, Head(q) \notin S
      PROVE  \E m \in Nat \ {0} : R = {m}
  <2>1. n # 1 BY <1>1, <1>4
  <2>2. n - 1 \in Nat \ {0} /\ (n - 1) + 1 = n BY <2>1
  <2>3. \A m \in Nat \ {0} : m + 1 = n <=> m = n - 1 OBVIOUS
  <2>4. R = {n - 1} BY <1>1, <1>2, <1>4, <2>2, <2>3
  <2> QED BY <2>2, <2>4
<1>5. ASSUME NEW n \in Nat \ {0}, P = {n}, Head(q) \in S
      PROVE  R = {}
  <2>1. n = 1 BY <1>1, <1>5
  <2>2. \A m \in Nat \ {0} : m + 1 # n BY <2>1
  <2> QED BY <1>1, <1>2, <1>5, <2>2
<1> QED BY <1>3, <1>4, <1>5 DEF None, One, P, R

\* What on_msg makes of a bot's state depends on the message alone, and of
\* retry_at on whether the message sets it.
MovesTo(m) ==
  CASE m = "WELCOME" -> "queued" [] m \in Found -> "pack" [] m = "START" -> "combat"
    [] m = "END" -> "queued" [] m = "ERROR" -> "down"

LEMMA Moves ==
  ASSUME NEW b \in BotRec, NEW m \in Replies
  PROVE  /\ m # "BREAK" => OnMsg(b, m).state = MovesTo(m)
         /\ m = "BREAK" => OnMsg(b, m).state = b.state
         /\ m \notin {"END", "ERROR"} => OnMsg(b, m).retry = b.retry
         /\ m \in {"END", "ERROR"} => OnMsg(b, m).retry = TRUE
<1>1. CASE m = "WELCOME"
  <2>1. OnMsg(b, m) = [b EXCEPT !.state = "queued"] BY <1>1 DEF OnMsg, Found
  <2>2. MovesTo(m) = "queued" BY <1>1 DEF MovesTo, Found
  <2> QED BY <1>1, <2>1, <2>2 DEF BotRec
<1>2. CASE m \in Found
  <2>1. OnMsg(b, m) = [b EXCEPT !.state = "pack", !.ready = TRUE] BY <1>2 DEF OnMsg, Found
  <2>2. MovesTo(m) = "pack" BY <1>2 DEF MovesTo, Found
  <2>3. m \notin {"BREAK", "END", "ERROR"} BY <1>2 DEF Found
  <2>4. OnMsg(b, m).state = "pack" /\ OnMsg(b, m).retry = b.retry BY <2>1 DEF BotRec
  <2> QED BY <2>2, <2>3, <2>4
<1>3. CASE m = "START"
  <2>1. OnMsg(b, m) = [b EXCEPT !.state = "combat", !.ready = FALSE] BY <1>3 DEF OnMsg, Found
  <2>2. MovesTo(m) = "combat" BY <1>3 DEF MovesTo, Found
  <2>3. OnMsg(b, m).state = "combat" /\ OnMsg(b, m).retry = b.retry BY <2>1 DEF BotRec
  <2> QED BY <1>3, <2>2, <2>3
<1>4. CASE m = "BREAK"
  <2>1. OnMsg(b, m) = [b EXCEPT !.call = TRUE] BY <1>4 DEF OnMsg, Found
  <2> QED BY <1>4, <2>1 DEF BotRec
<1>5. CASE m = "END"
  <2>1. OnMsg(b, m) = [b EXCEPT !.state = "queued", !.retry = TRUE, !.ready = FALSE, !.call = FALSE]
    BY <1>5 DEF OnMsg, Found
  <2>2. MovesTo(m) = "queued" BY <1>5 DEF MovesTo, Found
  <2>3. OnMsg(b, m).state = "queued" /\ OnMsg(b, m).retry = TRUE BY <2>1 DEF BotRec
  <2> QED BY <1>5, <2>2, <2>3
<1>6. CASE m = "ERROR"
  <2>1. OnMsg(b, m) = Drop(b) BY <1>6 DEF OnMsg, Found
  <2>3. Drop(b).state = "down" /\ Drop(b).retry = TRUE BY DEF Drop, Down, BotRec
  <2>4. MovesTo(m) = "down" BY <1>6 DEF MovesTo, Found
  <2> QED BY <1>6, <2>1, <2>3, <2>4
<1> QED BY <1>1, <1>2, <1>3, <1>4, <1>5, <1>6 DEF Replies, Found

\* The messages that move a bot.
Movers == Replies \ {"BREAK"}

\* Becomes in terms of the messages alone.
LEMMA BecomesIs ==
  ASSUME NEW b \in BotRec, NEW q \in Seq(Replies), NEW state
  PROVE  Becomes(b, q, state) <=>
           \/ Places(q, Movers) = {} /\ b.state = state
           \/ \E n \in Places(q, Movers) :
                MovesTo(q[n]) = state /\ Places(q, Movers) \subseteq 1 .. n
<1>1. \A n \in Places(q, Movers) : OnMsg(b, q[n]).state = MovesTo(q[n])
  <2>1. \A n \in Places(q, Movers) : q[n] \in Replies /\ q[n] # "BREAK" BY DEF Places, Movers
  <2> QED BY <2>1, Moves
<1> QED BY <1>1 DEF Becomes, Movers

\* Only a bot's state counts.
LEMMA SameBecomes ==
  ASSUME NEW b \in BotRec, NEW c \in BotRec, b.state = c.state,
         NEW q \in Seq(Replies), NEW state, Becomes(b, q, state)
  PROVE  Becomes(c, q, state)
BY BecomesIs

\* A message that is added moves the bot, or does not.
LEMMA AddedMoves ==
  ASSUME NEW b \in BotRec, NEW q \in Seq(Replies), NEW m \in Replies
  PROVE  /\ m # "BREAK" => Becomes(b, Append(q, m), MovesTo(m))
         /\ \A state : m = "BREAK" /\ Becomes(b, q, state) => Becomes(b, Append(q, m), state)
<1> DEFINE P == Places(q, Movers)
           r == Append(q, m)
<1>1. /\ Places(r, Movers) = P \cup (IF m \in Movers THEN {Len(q) + 1} ELSE {})
      /\ \A n \in 1 .. Len(q) : r[n] = q[n]
      /\ r[Len(q) + 1] = m /\ Len(q) \in Nat
  BY PlacesOfAppend
<1>2. r \in Seq(Replies) BY Sent
<1>3. P \subseteq 1 .. Len(q) BY DEF Places
<1> HIDE DEF P, r
<1>4. ASSUME m # "BREAK" PROVE Becomes(b, r, MovesTo(m))
  <2>1. Places(r, Movers) = P \cup {Len(q) + 1} BY <1>1, <1>4 DEF Movers
  <2>2. Places(r, Movers) \subseteq 1 .. Len(q) + 1
    <3>1. 1 .. Len(q) \subseteq 1 .. Len(q) + 1 /\ Len(q) + 1 \in 1 .. Len(q) + 1 BY <1>1
    <3> QED BY <1>3, <2>1, <3>1
  <2> QED BY <1>1, <1>2, <2>1, <2>2, BecomesIs
<1>5. ASSUME m = "BREAK", NEW state, Becomes(b, q, state) PROVE Becomes(b, r, state)
  <2>1. Places(r, Movers) = P BY <1>1, <1>5 DEF Movers
  <2>2. \A n \in P : r[n] = q[n] BY <1>1, <1>3
  <2>3. \/ P = {} /\ b.state = state
        \/ \E n \in P : MovesTo(q[n]) = state /\ P \subseteq 1 .. n
    BY <1>5, BecomesIs DEF P
  <2> QED BY <1>2, <2>1, <2>2, <2>3, BecomesIs
<1> QED BY <1>4, <1>5 DEF r

\* Reading the first message changes nothing of what the bot will be.
LEMMA ReadBecomes ==
  ASSUME NEW b \in BotRec, NEW c \in BotRec, NEW q \in Seq(Replies), q # <<>>,
         c.state = OnMsg(b, Head(q)).state, NEW state, Becomes(b, q, state)
  PROVE  Becomes(c, Tail(q), state)
<1> DEFINE P == Places(q, Movers)
           R == Places(Tail(q), Movers)
           t == Tail(q)
<1>1. /\ \A n \in Nat \ {0} : n \in R <=> n + 1 \in P
      /\ \A n \in 1 .. Len(q) - 1 : t[n] = q[n + 1]
      /\ 1 \in P <=> Head(q) \in Movers
      /\ P \subseteq 1 .. Len(q) /\ R \subseteq 1 .. Len(q) - 1
      /\ Len(q) \in Nat \ {0}
  BY PlacesOfTail
<1>2. Head(q) \in Replies /\ t \in Seq(Replies) /\ Head(q) = q[1] BY Read
<1>3. \/ P = {} /\ b.state = state
      \/ \E n \in P : MovesTo(q[n]) = state /\ P \subseteq 1 .. n
  BY BecomesIs
<1>4. /\ Head(q) # "BREAK" => c.state = MovesTo(Head(q))
      /\ Head(q) = "BREAK" => c.state = b.state
  BY <1>2, Moves
<1>5. Becomes(c, t, state) <=>
        \/ R = {} /\ c.state = state
        \/ \E n \in R : MovesTo(t[n]) = state /\ R \subseteq 1 .. n
  BY <1>2, BecomesIs
<1> HIDE DEF P, R, t
<1>6. ASSUME P = {}, b.state = state PROVE R = {} /\ c.state = state
  <2>1. Head(q) = "BREAK" BY <1>1, <1>2, <1>6 DEF Movers
  <2>2. R = {} BY <1>1, <1>6
  <2> QED BY <1>4, <1>6, <2>1, <2>2
<1>7. ASSUME NEW n \in P, MovesTo(q[n]) = state, P \subseteq 1 .. n, n = 1
      PROVE  R = {} /\ c.state = state
  <2>1. Head(q) # "BREAK" BY <1>1, <1>7 DEF Movers
  <2>2. \A m \in R : m + 1 \in P /\ m \in Nat \ {0}
    <3>1. R \subseteq Nat \ {0} BY <1>1
    <3> QED BY <1>1, <3>1
  <2>3. R = {}
    <3>1. \A m \in R : m + 1 \in 1 .. 1 /\ m \in Nat \ {0} BY <1>7, <2>2
    <3> QED BY <3>1
  <2> QED BY <1>2, <1>4, <1>7, <2>1, <2>3
<1>8. ASSUME NEW n \in P, MovesTo(q[n]) = state, P \subseteq 1 .. n, n # 1
      PROVE  n - 1 \in R /\ MovesTo(t[n - 1]) = state /\ R \subseteq 1 .. n - 1
  <2>1. n \in 2 .. Len(q) BY <1>1, <1>8
  <2>2. n - 1 \in Nat \ {0} /\ n - 1 \in 1 .. Len(q) - 1 /\ (n - 1) + 1 = n BY <1>1, <2>1
  <2>3. n - 1 \in R BY <1>1, <1>8, <2>2
  <2>4. t[n - 1] = q[n] BY <1>1, <2>2
  <2>5. \A m \in R : m + 1 \in 1 .. n /\ m \in Nat \ {0}
    <3>1. R \subseteq Nat \ {0} BY <1>1
    <3> QED BY <1>1, <1>8, <3>1
  <2>6. R \subseteq 1 .. n - 1 BY <2>1, <2>5
  <2> QED BY <1>8, <2>3, <2>4, <2>6
<1>9. Becomes(c, t, state) BY <1>3, <1>5, <1>6, <1>7, <1>8
<1> QED BY <1>9 DEF t

\* What makes a bot ask for the queue.  Nothing of it is on the way, or exactly
\* one thing is: a prompt, the request itself, or the bot's own timer.
Prompts == {"WELCOME", "END"}

Settled(b, k) == ~b.retry /\ None(k.down, Prompts) /\ None(k.up, {"QUEUE"})

Owed(b, k) ==
  \/ ~b.retry /\ One(k.down, Prompts) /\ None(k.up, {"QUEUE"})
  \/ ~b.retry /\ None(k.down, Prompts) /\ One(k.up, {"QUEUE"})
  \/ b.retry /\ None(k.down, Prompts) /\ None(k.up, {"QUEUE"})

\* What a bot is that the server has at at.
SeenAs(at) ==
  CASE at = "connected" -> "hello" [] at \in {"ready", "queued"} -> "queued"
    [] at = "packing" -> "pack" [] OTHER -> "combat"

\* Bot b and k, the server's end of its connection, tied together.
Tied(b, k) ==
  /\ Becomes(b, k.down, SeenAs(k.state))
  /\ None(k.down, {"ERROR"})
  /\ k.state = "ready" => Owed(b, k)
  /\ k.state # "ready" => Settled(b, k)
  /\ k.state = "connected" => k.down = <<>> /\ k.up # <<>> /\ Head(k.up) = "HELLO"

\* The server tells the bot of a step of its match.
LEMMA ToldTied ==
  ASSUME NEW b \in BotRec, NEW k \in LinkRec, Tied(b, k), NEW d \in LinkRec,
         NEW msg \in Replies, d.down = Append(k.down, msg), d.up = k.up,
         \/ msg \in Found  /\ k.state = "queued"  /\ d.state = "packing"
         \/ msg = "START" /\ k.state = "packing" /\ d.state = "combat"
         \/ msg = "BREAK" /\ k.state = "combat"  /\ d.state = "break"
         \/ msg = "END"   /\ k.state \in Playing /\ d.state = "ready"
  PROVE  Tied(b, d)
<1>1. k.down \in Seq(Replies) BY DEF LinkRec
<1>2. Settled(b, k) /\ Becomes(b, k.down, SeenAs(k.state)) /\ None(k.down, {"ERROR"})
  BY DEF Tied, Playing
<1>3. ~b.retry /\ None(k.down, Prompts) /\ None(k.up, {"QUEUE"}) BY <1>2 DEF Settled
<1>4. msg # "ERROR" BY DEF Found
<1>5. None(d.down, {"ERROR"}) BY <1>1, <1>2, <1>4, Added
<1>6. Becomes(b, d.down, SeenAs(d.state))
  <2>1. CASE msg = "BREAK"
    <3>1. k.state = "combat" /\ d.state = "break" BY <2>1 DEF Found
    <3>2. SeenAs(k.state) = "combat" /\ SeenAs(d.state) = "combat" BY <3>1 DEF SeenAs
    <3> QED BY <1>1, <1>2, <2>1, <3>2, AddedMoves
  <2>2. CASE msg # "BREAK"
    <3>1. MovesTo(msg) = SeenAs(d.state) BY <2>2 DEF MovesTo, SeenAs, Found
    <3> QED BY <1>1, <2>2, <3>1, AddedMoves
  <2> QED BY <2>1, <2>2
<1>7. d.state = "ready" => Owed(b, d)
  <2>1. d.state = "ready" => msg \in Prompts BY DEF Prompts
  <2>2. msg \in Prompts => One(d.down, Prompts) BY <1>1, <1>3, Added
  <2> QED BY <1>3, <2>1, <2>2 DEF Owed
<1>8. d.state # "ready" => Settled(b, d)
  <2>1. d.state # "ready" => msg \notin Prompts BY DEF Prompts, Found
  <2>2. msg \notin Prompts => None(d.down, Prompts) BY <1>1, <1>3, Added
  <2> QED BY <1>3, <2>1, <2>2 DEF Settled
<1>9. d.state # "connected" OBVIOUS
<1> QED BY <1>5, <1>6, <1>7, <1>8, <1>9 DEF Tied

\* HELLO is answered.
LEMMA WelcomedTied ==
  ASSUME NEW b \in BotRec, NEW k \in LinkRec, Tied(b, k), NEW d \in LinkRec,
         k.state = "connected", d.state = "ready",
         d.down = Append(k.down, "WELCOME"), d.up = Tail(k.up)
  PROVE  Tied(b, d)
<1>1. k.down \in Seq(Replies) /\ k.up \in Seq(Requests) /\ k.up # <<>> BY DEF LinkRec, Tied
<1>2. Settled(b, k) /\ None(k.down, {"ERROR"}) BY DEF Tied
<1>3. ~b.retry /\ None(k.down, Prompts) /\ None(k.up, {"QUEUE"}) BY <1>2 DEF Settled
<1>4. "WELCOME" \in Replies /\ "WELCOME" \in Prompts BY DEF Replies, Prompts
<1>5. None(d.down, {"ERROR"}) BY <1>1, <1>2, <1>4, Added
<1>6. One(d.down, Prompts) BY <1>1, <1>3, <1>4, Added
<1>7. None(d.up, {"QUEUE"}) BY <1>1, <1>3, Taken
<1>8. MovesTo("WELCOME") = "queued" /\ SeenAs(d.state) = "queued" BY DEF MovesTo, SeenAs, Found
<1>9. Becomes(b, d.down, SeenAs(d.state)) BY <1>1, <1>4, <1>8, AddedMoves
<1> QED BY <1>3, <1>5, <1>6, <1>7, <1>9 DEF Tied, Owed

\* The server has taken a request that leaves the connection as it is.
LEMMA HandledTied ==
  ASSUME NEW b \in BotRec, NEW k \in LinkRec, Tied(b, k), NEW d \in LinkRec,
         k.up # <<>>, Head(k.up) \notin {"HELLO", "QUEUE"},
         d.state = k.state, d.down = k.down, d.up = Tail(k.up)
  PROVE  Tied(b, d)
<1>1. k.up \in Seq(Requests) /\ Head(k.up) \notin {"QUEUE"} BY DEF LinkRec
<1>2. None(k.up, {"QUEUE"}) => None(d.up, {"QUEUE"}) BY <1>1, Taken
<1>3. One(k.up, {"QUEUE"}) => One(d.up, {"QUEUE"}) BY <1>1, Taken
<1>4. Owed(b, k) => Owed(b, d) BY <1>2, <1>3 DEF Owed
<1>5. Settled(b, k) => Settled(b, d) BY <1>2 DEF Settled
<1>6. k.state # "connected" BY DEF Tied
<1> QED BY <1>4, <1>5, <1>6 DEF Tied

\* It has taken QUEUE from a bot that is ready for it.
LEMMA QueuedTied ==
  ASSUME NEW b \in BotRec, NEW k \in LinkRec, Tied(b, k), NEW d \in LinkRec,
         k.up # <<>>, Head(k.up) = "QUEUE", k.state = "ready",
         d.state = "queued", d.down = k.down, d.up = Tail(k.up)
  PROVE  Tied(b, d)
<1>1. k.up \in Seq(Requests) /\ Head(k.up) \in {"QUEUE"} BY DEF LinkRec
<1>2. ~None(k.up, {"QUEUE"}) BY <1>1, Taken
<1>3. One(k.up, {"QUEUE"}) => None(d.up, {"QUEUE"}) BY <1>1, Taken
<1>4. Owed(b, k) BY DEF Tied
<1>5. ~b.retry /\ None(k.down, Prompts) /\ One(k.up, {"QUEUE"}) BY <1>2, <1>4 DEF Owed
<1>6. Settled(b, d) BY <1>3, <1>5 DEF Settled
<1>7. SeenAs(k.state) = "queued" /\ SeenAs(d.state) = "queued" BY DEF SeenAs
<1> QED BY <1>6, <1>7 DEF Tied

\* A break is over, of which the bot hears nothing it uses.
LEMMA ResolvedTied ==
  ASSUME NEW b \in BotRec, NEW k \in LinkRec, Tied(b, k), NEW d \in LinkRec,
         k.state = "break", d.state = "combat", d.down = k.down, d.up = k.up
  PROVE  Tied(b, d)
<1>1. SeenAs(k.state) = "combat" /\ SeenAs(d.state) = "combat" BY DEF SeenAs
<1>2. Settled(b, k) BY DEF Tied
<1>3. Settled(b, d) BY <1>2 DEF Settled
<1> QED BY <1>1, <1>3 DEF Tied

\* The bot has sent what is not a QUEUE.
LEMMA SentTied ==
  ASSUME NEW b \in BotRec, NEW c \in BotRec, c.state = b.state, c.retry = b.retry,
         NEW k \in LinkRec, Tied(b, k), NEW d \in LinkRec,
         NEW msg \in Requests, msg # "QUEUE",
         d.state = k.state, d.down = k.down, d.up = Append(k.up, msg)
  PROVE  Tied(c, d)
<1>1. k.up \in Seq(Requests) /\ k.down \in Seq(Replies) /\ msg \notin {"QUEUE"} BY DEF LinkRec
<1>2. None(k.up, {"QUEUE"}) => None(d.up, {"QUEUE"}) BY <1>1, Added
<1>3. One(k.up, {"QUEUE"}) => One(d.up, {"QUEUE"}) BY <1>1, Added
<1>4. Owed(b, k) => Owed(c, d) BY <1>2, <1>3 DEF Owed
<1>5. Settled(b, k) => Settled(c, d) BY <1>2 DEF Settled
<1>6. Becomes(c, d.down, SeenAs(d.state)) BY <1>1, SameBecomes DEF Tied
<1>7. k.up # <<>> => d.up # <<>> /\ Head(d.up) = Head(k.up) BY <1>1
<1> QED BY <1>4, <1>5, <1>6, <1>7 DEF Tied

\* The bot has sent QUEUE, its pause over.
LEMMA AskedTied ==
  ASSUME NEW b \in BotRec, NEW c \in BotRec, c.state = b.state, b.retry, ~c.retry,
         NEW k \in LinkRec, Tied(b, k), NEW d \in LinkRec,
         d.state = k.state, d.down = k.down, d.up = Append(k.up, "QUEUE")
  PROVE  Tied(c, d)
<1>1. k.up \in Seq(Requests) /\ k.down \in Seq(Replies) /\ "QUEUE" \in Requests
  BY DEF LinkRec, Requests
<1>2. k.state = "ready" /\ Owed(b, k) BY DEF Tied, Settled
<1>3. None(k.down, Prompts) /\ None(k.up, {"QUEUE"}) BY <1>2 DEF Owed
<1>4. One(d.up, {"QUEUE"}) BY <1>1, <1>3, Added
<1>5. Owed(c, d) BY <1>3, <1>4 DEF Owed
<1>6. Becomes(c, d.down, SeenAs(d.state)) BY <1>1, SameBecomes DEF Tied
<1> QED BY <1>2, <1>5, <1>6 DEF Tied

\* The bot has read a message, and answered it if it does.
Answered(up, msg) ==
  IF msg = "WELCOME" THEN Append(up, "QUEUE")
  ELSE IF msg \in Found THEN Append(up, "PLACE") ELSE up

LEMMA ReadTied ==
  ASSUME NEW b \in BotRec, NEW c \in BotRec, NEW k \in LinkRec, Tied(b, k), NEW d \in LinkRec,
         k.down # <<>>, c = OnMsg(b, Head(k.down)),
         d.state = k.state, d.down = Tail(k.down), d.up = Answered(k.up, Head(k.down))
  PROVE  Tied(c, d)
<1> DEFINE msg == Head(k.down)
<1>1. /\ k.up \in Seq(Requests) /\ k.down \in Seq(Replies) /\ msg \in Replies
      /\ "QUEUE" \in Requests /\ "PLACE" \in Requests
      /\ "QUEUE" \in {"QUEUE"} /\ "PLACE" \notin {"QUEUE"}
  BY Read DEF LinkRec, Requests
<1>2. k.state # "connected" BY DEF Tied
<1>3. None(d.down, {"ERROR"}) /\ msg \notin {"ERROR"} BY <1>1, Taken DEF Tied
<1>4. Becomes(c, d.down, SeenAs(d.state)) BY <1>1, ReadBecomes DEF Tied
<1>5. /\ None(k.down, Prompts) => None(d.down, Prompts) /\ msg \notin Prompts
      /\ msg \notin Prompts /\ One(k.down, Prompts) => One(d.down, Prompts)
      /\ msg \in Prompts /\ One(k.down, Prompts) => None(d.down, Prompts)
  BY <1>1, Taken
<1>6. /\ msg # "END" => c.retry = b.retry
      /\ msg = "END" => c.retry = TRUE
  BY <1>1, <1>3, Moves
<1>7. CASE msg \in Prompts
  <2>1. k.state = "ready" /\ Owed(b, k) BY <1>5, <1>7 DEF Tied, Settled
  <2>2. ~b.retry /\ One(k.down, Prompts) /\ None(k.up, {"QUEUE"}) BY <1>5, <1>7, <2>1 DEF Owed
  <2>3. None(d.down, Prompts) BY <1>5, <1>7, <2>2
  <2>4. ASSUME msg = "WELCOME" PROVE Owed(c, d)
    <3>1. d.up = Append(k.up, "QUEUE") BY <2>4 DEF Answered
    <3>2. One(Append(k.up, "QUEUE"), {"QUEUE"}) BY <1>1, <2>2, Added
    <3>3. ~c.retry BY <1>6, <2>2, <2>4
    <3> QED BY <2>3, <3>1, <3>2, <3>3 DEF Owed
  <2>5. ASSUME msg = "END" PROVE Owed(c, d)
    <3>1. d.up = k.up BY <2>5 DEF Answered, Found
    <3> QED BY <1>6, <2>2, <2>3, <2>5, <3>1 DEF Owed
  <2>6. Owed(c, d) BY <1>7, <2>4, <2>5 DEF Prompts
  <2> QED BY <1>3, <1>4, <2>1, <2>6 DEF Tied
<1>8. CASE msg \notin Prompts
  <2>1. c.retry = b.retry BY <1>6, <1>8 DEF Prompts
  <2>2. d.up = k.up \/ d.up = Append(k.up, "PLACE") BY <1>8 DEF Answered, Prompts
  <2>3. None(k.up, {"QUEUE"}) => None(Append(k.up, "PLACE"), {"QUEUE"}) BY <1>1, Added
  <2>4. One(k.up, {"QUEUE"}) => One(Append(k.up, "PLACE"), {"QUEUE"}) BY <1>1, Added
  <2>5. Owed(b, k) => Owed(c, d) BY <1>5, <1>8, <2>1, <2>2, <2>3, <2>4 DEF Owed
  <2>6. Settled(b, k) => Settled(c, d) BY <1>5, <2>1, <2>2, <2>3 DEF Settled
  <2> QED BY <1>2, <1>3, <1>4, <2>5, <2>6 DEF Tied
<1> QED BY <1>7, <1>8

\* The inductive invariant: no two bots share a connection, and a bot whose
\* connection is up is tied to the server's end of it.
Apart == \A i, j \in Bots : bots[i].link # 0 /\ bots[i].link = bots[j].link => i = j
TiedAll == \A i \in Bots : bots[i].link # 0 /\ Open(bots[i].link) => Tied(bots[i], links[bots[i].link])
Ties  == PoolTypeOK /\ Apart /\ TiedAll

\* The server changes its end of one connection, l.
LEMMA LinkSteps ==
  ASSUME Ties, NEW l \in Links, NEW d, bots' = bots, links' = [links EXCEPT ![l] = d],
         \A b \in BotRec : b.link = l /\ d.state # "gone" /\ Attached(l) =>
           (Open(l) /\ (Tied(b, links[l]) => Tied(b, d)))
  PROVE  Apart' /\ TiedAll'
<1>1. links \in [Links -> LinkRec] /\ bots \in [Bots -> BotRec] BY DEF Ties, PoolTypeOK
<1>2. Apart' BY DEF Ties, Apart
<1>3. ASSUME NEW i \in Bots, bots'[i].link # 0, links'[bots'[i].link].state # "gone"
      PROVE  Tied(bots'[i], links'[bots'[i].link])
  <2>1. bots'[i] = bots[i] /\ bots[i] \in BotRec /\ bots[i].link \in Links
    BY <1>1, <1>3, PoolAssumption DEF BotRec, Links
  <2>2. CASE bots[i].link = l
    <3>1. links'[l] = d BY <1>1
    <3>2. d.state # "gone" BY <1>3, <2>1, <2>2, <3>1 DEF Open
    <3>3. Attached(l) BY <2>2 DEF Attached
    <3>4. Open(l) /\ (Tied(bots[i], links[l]) => Tied(bots[i], d)) BY <2>1, <2>2, <3>2, <3>3
    <3>5. Tied(bots[i], links[l]) BY <1>3, <2>1, <2>2, <3>4 DEF Ties, TiedAll
    <3> QED BY <2>1, <2>2, <3>1, <3>4, <3>5
  <2>3. CASE bots[i].link # l
    <3>1. links'[bots[i].link] = links[bots[i].link] BY <1>1, <2>1, <2>3
    <3>2. Open(bots[i].link) BY <1>3, <2>1, <3>1 DEF Open
    <3> QED BY <1>3, <2>1, <3>1, <3>2 DEF Ties, TiedAll
  <2> QED BY <2>2, <2>3
<1>4. TiedAll' BY <1>3 DEF TiedAll, Open
<1> QED BY <1>2, <1>4

\* Bot i becomes c, and its connection d; it has none, or one the server has
\* closed, or it is tied to it as before.
Becoming(i, c, d) ==
  /\ bots[i].link # 0 /\ c.link \in {0, bots[i].link}
  /\ bots' = [bots EXCEPT ![i] = c] /\ links' = [links EXCEPT ![bots[i].link] = d]
  /\ c.link # 0 /\ d.state # "gone" =>
       Open(bots[i].link) /\ (Tied(bots[i], links[bots[i].link]) => Tied(c, d))

LEMMA BotSteps ==
  ASSUME Ties, NEW i \in Bots, NEW c, NEW d, Becoming(i, c, d)
  PROVE  Apart' /\ TiedAll'
<1> DEFINE l == bots[i].link
<1>0. /\ l # 0 /\ c.link \in {0, l}
      /\ bots' = [bots EXCEPT ![i] = c] /\ links' = [links EXCEPT ![l] = d]
      /\ c.link # 0 /\ d.state # "gone" => Open(l) /\ (Tied(bots[i], links[l]) => Tied(c, d))
  BY DEF Becoming
<1>1. links \in [Links -> LinkRec] /\ bots \in [Bots -> BotRec] BY DEF Ties, PoolTypeOK
<1>2. l \in Links BY <1>0, <1>1, PoolAssumption DEF BotRec, Links
<1>3. bots'[i] = c /\ links'[l] = d /\ \A j \in Bots \ {i} : bots'[j] = bots[j]
  BY <1>0, <1>1, <1>2
<1>4. \A j \in Bots \ {i} : bots[j].link # l BY <1>0 DEF Ties, Apart
<1>5. Apart' BY <1>0, <1>3, <1>4 DEF Ties, Apart
<1>6. ASSUME NEW j \in Bots, bots'[j].link # 0, links'[bots'[j].link].state # "gone"
      PROVE  Tied(bots'[j], links'[bots'[j].link])
  <2>1. CASE j = i
    <3>1. c.link = l /\ l # 0 BY <1>0, <1>3, <1>6, <2>1
    <3>2. d.state # "gone" BY <1>3, <1>6, <2>1, <3>1 DEF Open
    <3>3. Open(l) /\ (Tied(bots[i], links[l]) => Tied(c, d)) BY <1>0, <3>1, <3>2
    <3>4. Tied(bots[i], links[l]) BY <1>0, <3>3 DEF Ties, TiedAll
    <3> QED BY <1>3, <2>1, <3>1, <3>3, <3>4
  <2>2. CASE j # i
    <3>1. bots'[j] = bots[j] /\ bots[j].link # l BY <1>3, <1>4, <2>2
    <3>2. bots[j].link \in Links BY <1>1, <1>6, <3>1, PoolAssumption DEF BotRec, Links
    <3>3. links'[bots[j].link] = links[bots[j].link] BY <1>0, <1>1, <3>1, <3>2
    <3>4. Open(bots[j].link) BY <1>6, <3>1, <3>3 DEF Open
    <3> QED BY <1>6, <3>1, <3>3, <3>4 DEF Ties, TiedAll
  <2> QED BY <2>1, <2>2
<1>7. TiedAll' BY <1>6 DEF TiedAll, Open
<1> QED BY <1>5, <1>7

\* A link as it is when msg is added to k.
LEMMA WithMsg ==
  ASSUME NEW k \in LinkRec, NEW msg \in Replies, NEW d, d = [k EXCEPT !.down = Append(@, msg)]
  PROVE  /\ d \in LinkRec /\ d.state = k.state /\ d.up = k.up
         /\ d.down = Append(k.down, msg)
<1>1. Append(k.down, msg) \in Seq(Replies) BY Sent DEF LinkRec
<1> QED BY <1>1 DEF LinkRec

\* send_msg to a bot that stays tied if the message gets into its buffer.
LEMMA SaySteps ==
  ASSUME Ties, NEW l \in Links, Open(l), NEW k \in LinkRec, NEW msg \in Replies,
         Say(l, k, msg), bots' = bots,
         \A b \in BotRec : Tied(b, links[l]) => Tied(b, [k EXCEPT !.down = Append(@, msg)])
  PROVE  Apart' /\ TiedAll'
<1>1. CASE links' = [links EXCEPT ![l] = [k EXCEPT !.down = Append(@, msg)]]
  <2> DEFINE d == [k EXCEPT !.down = Append(@, msg)]
  <2>1. links' = [links EXCEPT ![l] = d] BY <1>1
  <2>2. \A b \in BotRec : Open(l) /\ (Tied(b, links[l]) => Tied(b, d)) OBVIOUS
  <2> HIDE DEF d
  <2> QED BY <2>1, <2>2, LinkSteps
<1>2. CASE links' = [links EXCEPT ![l] = [k EXCEPT !.state = "gone", !.up = <<>>]]
  <2> DEFINE d == [k EXCEPT !.state = "gone", !.up = <<>>]
  <2>1. links' = [links EXCEPT ![l] = d] BY <1>2
  <2>2. d.state = "gone" BY DEF LinkRec
  <2> HIDE DEF d
  <2> QED BY <2>1, <2>2, LinkSteps
<1> QED BY <1>1, <1>2 DEF Say

\* handle_msg ties the bot again or hangs up.
LEMMA HandleTies ==
  ASSUME Ties, NEW l \in Links, Handle(l)
  PROVE  Apart' /\ TiedAll'
<1> DEFINE msg == Head(links[l].up)
           k   == [links[l] EXCEPT !.up = Tail(@)]
<1>1. /\ links[l] \in LinkRec /\ links[l].up \in Seq(Requests) /\ links[l].up # <<>>
      /\ Open(l) /\ bots' = bots
  BY DEF Handle, Ties, PoolTypeOK, LinkRec
<1>2. Tail(links[l].up) \in Seq(Requests) BY <1>1, Read
<1>3. /\ k \in LinkRec /\ k.state = links[l].state /\ k.down = links[l].down
      /\ k.up = Tail(links[l].up)
  BY <1>1, <1>2 DEF LinkRec
<1>4. \/ msg = "HELLO" /\ k.state = "connected" /\ Say(l, [k EXCEPT !.state = "ready"], "WELCOME")
      \/ msg = "QUEUE" /\ k.state = "ready" /\ links' = [links EXCEPT ![l] = [k EXCEPT !.state = "queued"]]
      \/ msg = "PLACE" /\ links' = [links EXCEPT ![l] = [k EXCEPT !.packed = @ \/ k.state = "packing"]]
      \/ msg = "READY" /\ links' = [links EXCEPT ![l] = [k EXCEPT !.ready = TRUE]]
      \/ msg = "CALL" /\ links' = [links EXCEPT ![l] = k]
      \/ Refuse(l, k)
  BY DEF Handle
<1> HIDE DEF k
<1>5. CASE msg = "HELLO" /\ k.state = "connected" /\ Say(l, [k EXCEPT !.state = "ready"], "WELCOME")
  <2> DEFINE r == [k EXCEPT !.state = "ready"]
             d == [r EXCEPT !.down = Append(@, "WELCOME")]
  <2>1. r \in LinkRec /\ r.state = "ready" /\ r.down = k.down /\ r.up = k.up
    BY <1>3 DEF LinkRec, LinkStates
  <2>2. "WELCOME" \in Replies BY DEF Replies
  <2>3. Say(l, r, "WELCOME") BY <1>5
  <2> HIDE DEF r
  <2>4. d \in LinkRec /\ d.state = "ready" /\ d.up = k.up /\ d.down = Append(k.down, "WELCOME")
    BY <2>1, <2>2, WithMsg
  <2> HIDE DEF d
  <2>5. \A b \in BotRec : Tied(b, links[l]) => Tied(b, d)
    BY <1>1, <1>3, <1>5, <2>4, WelcomedTied
  <2> QED BY <1>1, <2>1, <2>2, <2>3, <2>5, SaySteps DEF d
<1>6. CASE msg = "QUEUE" /\ k.state = "ready" /\ links' = [links EXCEPT ![l] = [k EXCEPT !.state = "queued"]]
  <2> DEFINE d == [k EXCEPT !.state = "queued"]
  <2>1. d \in LinkRec /\ d.state = "queued" /\ d.up = k.up /\ d.down = k.down
    BY <1>3 DEF LinkRec, LinkStates
  <2>2. links' = [links EXCEPT ![l] = d] BY <1>6
  <2> HIDE DEF d
  <2>3. \A b \in BotRec : Tied(b, links[l]) => Tied(b, d)
    BY <1>1, <1>3, <1>6, <2>1, QueuedTied
  <2> QED BY <1>1, <2>2, <2>3, LinkSteps
<1>7. ASSUME NEW d \in LinkRec, d.state = k.state, d.down = k.down, d.up = k.up,
             msg \notin {"HELLO", "QUEUE"}, links' = [links EXCEPT ![l] = d]
      PROVE  Apart' /\ TiedAll'
  <2>1. \A b \in BotRec : Tied(b, links[l]) => Tied(b, d)
    BY <1>1, <1>3, <1>7, HandledTied
  <2> QED BY <1>1, <1>7, <2>1, LinkSteps
<1>8. CASE msg = "PLACE" /\ links' = [links EXCEPT ![l] = [k EXCEPT !.packed = @ \/ k.state = "packing"]]
  <2> DEFINE p == k.packed \/ k.state = "packing"
             d == [k EXCEPT !.packed = p]
  <2>1. p \in BOOLEAN OBVIOUS
  <2>2. links' = [links EXCEPT ![l] = d] BY <1>8
  <2> HIDE DEF p
  <2>3. d \in LinkRec /\ d.state = k.state /\ d.up = k.up /\ d.down = k.down
    BY <1>3, <2>1 DEF LinkRec
  <2> HIDE DEF d
  <2> QED BY <1>7, <1>8, <2>2, <2>3
<1>9. CASE msg = "READY" /\ links' = [links EXCEPT ![l] = [k EXCEPT !.ready = TRUE]]
  <2> DEFINE d == [k EXCEPT !.ready = TRUE]
  <2>1. links' = [links EXCEPT ![l] = d] BY <1>9
  <2>2. d \in LinkRec /\ d.state = k.state /\ d.up = k.up /\ d.down = k.down
    BY <1>3 DEF LinkRec
  <2> HIDE DEF d
  <2> QED BY <1>7, <1>9, <2>1, <2>2
<1>10. CASE msg = "CALL" /\ links' = [links EXCEPT ![l] = k]
  BY <1>3, <1>7, <1>10
<1>11. CASE Refuse(l, k)
  <2> DEFINE e == IF Len(k.down) < Window THEN Append(k.down, "ERROR") ELSE k.down
             d == [k EXCEPT !.state = "gone", !.up = <<>>, !.down = e]
  <2>1. links' = [links EXCEPT ![l] = d] BY <1>11 DEF Refuse
  <2> HIDE DEF e
  <2>2. d.state = "gone" BY <1>3 DEF LinkRec
  <2> HIDE DEF d
  <2> QED BY <1>1, <2>1, <2>2, LinkSteps
<1> QED BY <1>4, <1>5, <1>6, <1>8, <1>9, <1>10, <1>11

\* A step of a match, told to the bot.
LEMMA MatchTies ==
  ASSUME Ties, NEW l \in Links, NEW k \in LinkRec, NEW msg \in Replies,
         k.up = links[l].up, k.down = links[l].down, Say(l, k, msg), bots' = bots,
         \/ msg \in Found  /\ links[l].state = "queued"  /\ k.state = "packing"
         \/ msg = "START" /\ links[l].state = "packing" /\ k.state = "combat"
         \/ msg = "BREAK" /\ links[l].state = "combat"  /\ k.state = "break"
         \/ msg = "END"   /\ links[l].state \in Playing /\ k.state = "ready"
  PROVE  Apart' /\ TiedAll'
<1> DEFINE d == [k EXCEPT !.down = Append(@, msg)]
<1>1. links[l] \in LinkRec BY DEF Ties, PoolTypeOK
<1>2. Open(l) BY DEF Open, Playing
<1>3. d \in LinkRec /\ d.state = k.state /\ d.up = k.up /\ d.down = Append(k.down, msg)
  BY WithMsg
<1> HIDE DEF d
<1>4. \A b \in BotRec : Tied(b, links[l]) => Tied(b, d) BY <1>1, <1>3, ToldTied
<1> QED BY <1>2, <1>4, SaySteps DEF d

LEMMA ServerTies ==
  ASSUME Ties, NEW l \in Links, Server(l)
  PROVE  Apart' /\ TiedAll'
<1>1. links[l] \in LinkRec BY DEF Ties, PoolTypeOK
<1>2. bots' = bots
  BY DEF Server, Handle, Deal, StartCombat, BeginBreak, ResolveBreak, EndMatch, BotGone, Cut
<1>3. CASE Handle(l) BY <1>3, HandleTies
<1>4. CASE Deal(l)
  <2> DEFINE k == [links[l] EXCEPT !.state = "packing", !.packed = FALSE, !.ready = FALSE]
  <2>1. PICK found \in Found : Say(l, k, found) BY <1>4 DEF Deal
  <2>2. links[l].state = "queued" BY <1>4 DEF Deal
  <2>3. "packing" \in LinkStates BY DEF LinkStates, Playing
  <2>4. k \in LinkRec /\ k.state = "packing" /\ k.up = links[l].up /\ k.down = links[l].down
    BY <1>1, <2>3 DEF LinkRec
  <2>5. found \in Replies BY DEF Found, Replies
  <2> HIDE DEF k
  <2> QED BY <1>2, <2>1, <2>2, <2>4, <2>5, MatchTies
<1>5. CASE StartCombat(l)
  <2> DEFINE k == [links[l] EXCEPT !.state = "combat"]
  <2>1. Say(l, k, "START") /\ links[l].state = "packing" BY <1>5 DEF StartCombat
  <2>2. k \in LinkRec /\ k.state = "combat" /\ k.up = links[l].up /\ k.down = links[l].down
    BY <1>1 DEF LinkRec, LinkStates, Playing
  <2>3. "START" \in Replies BY DEF Replies
  <2> HIDE DEF k
  <2> QED BY <1>2, <2>1, <2>2, <2>3, MatchTies
<1>6. CASE BeginBreak(l)
  <2> DEFINE k == [links[l] EXCEPT !.state = "break"]
  <2>1. Say(l, k, "BREAK") /\ links[l].state = "combat" BY <1>6 DEF BeginBreak
  <2>2. k \in LinkRec /\ k.state = "break" /\ k.up = links[l].up /\ k.down = links[l].down
    BY <1>1 DEF LinkRec, LinkStates, Playing
  <2>3. "BREAK" \in Replies BY DEF Replies
  <2> HIDE DEF k
  <2> QED BY <1>2, <2>1, <2>2, <2>3, MatchTies
<1>7. CASE ResolveBreak(l)
  <2> DEFINE d == [links[l] EXCEPT !.state = "combat"]
  <2>1. links' = [links EXCEPT ![l] = d] /\ links[l].state = "break" BY <1>7 DEF ResolveBreak
  <2>2. d \in LinkRec /\ d.state = "combat" /\ d.up = links[l].up /\ d.down = links[l].down
    BY <1>1 DEF LinkRec, LinkStates, Playing
  <2> HIDE DEF d
  <2>3. \A b \in BotRec : Tied(b, links[l]) => Tied(b, d) BY <1>1, <2>1, <2>2, ResolvedTied
  <2>4. Open(l) BY <2>1 DEF Open
  <2> QED BY <1>2, <2>1, <2>3, <2>4, LinkSteps
<1>8. CASE EndMatch(l)
  <2> DEFINE k == [links[l] EXCEPT !.state = "ready"]
  <2>1. Say(l, k, "END") /\ links[l].state \in Playing BY <1>8 DEF EndMatch
  <2>2. k \in LinkRec /\ k.state = "ready" /\ k.up = links[l].up /\ k.down = links[l].down
    BY <1>1 DEF LinkRec, LinkStates, Playing
  <2>3. "END" \in Replies BY DEF Replies
  <2> HIDE DEF k
  <2> QED BY <1>2, <2>1, <2>2, <2>3, MatchTies
<1>9. CASE BotGone(l)
  <2>1. links' = [links EXCEPT ![l] = NoLink] /\ NoLink.state = "gone" BY <1>9 DEF BotGone, NoLink
  <2> QED BY <1>2, <2>1, LinkSteps
<1>10. CASE Cut(l)
  <2> DEFINE d == [links[l] EXCEPT !.state = "gone", !.up = <<>>]
  <2>1. links' = [links EXCEPT ![l] = d] /\ d.state = "gone" BY <1>1, <1>10 DEF Cut, LinkRec
  <2> HIDE DEF d
  <2> QED BY <1>2, <2>1, LinkSteps
<1> QED BY <1>3, <1>4, <1>5, <1>6, <1>7, <1>8, <1>9, <1>10 DEF Server

\* send_msg of a bot that stays tied if the message gets under way.
LEMMA SendTies ==
  ASSUME Ties, NEW i \in Bots, bots[i].link # 0, NEW c \in BotRec, c.link = bots[i].link,
         NEW k \in LinkRec, k.state = links[bots[i].link].state,
         NEW ls, ls = [links EXCEPT ![bots[i].link] = k],
         NEW msg \in Requests, Send(i, c, ls, msg),
         Tied(bots[i], links[bots[i].link]) => Tied(c, [k EXCEPT !.up = Append(@, msg)])
  PROVE  Apart' /\ TiedAll'
<1> DEFINE l == bots[i].link
           d == [k EXCEPT !.up = Append(@, msg)]
<1>1. links \in [Links -> LinkRec] /\ bots \in [Bots -> BotRec] BY DEF Ties, PoolTypeOK
<1>2. l \in Links BY <1>1, PoolAssumption DEF BotRec, Links
<1>3. CASE Open(l) /\ bots' = [bots EXCEPT ![i] = c] /\ links' = [ls EXCEPT ![l].up = Append(@, msg)]
  <2>1. ls[l] = k BY <1>1, <1>2
  <2>2. links' = [links EXCEPT ![l] = d] BY <1>1, <1>2, <1>3, <2>1
  <2>3. Open(l) /\ (Tied(bots[i], links[l]) => Tied(c, d)) BY <1>3
  <2> HIDE DEF d
  <2>4. Becoming(i, c, d) BY <1>3, <2>2, <2>3 DEF Becoming
  <2> QED BY <2>4, BotSteps
<1>4. CASE ~Open(l) /\ bots' = [bots EXCEPT ![i] = c] /\ links' = ls
  <2>1. k.state = "gone" BY <1>4 DEF Open
  <2>2. Becoming(i, c, k) BY <1>4, <2>1 DEF Becoming
  <2> QED BY <2>2, BotSteps
<1>5. CASE bots' = [bots EXCEPT ![i] = Down(c)] /\ links' = [ls EXCEPT ![l] = NoLink]
  <2>1. Down(c).link = 0 BY DEF Down, BotRec
  <2>2. links' = [links EXCEPT ![l] = NoLink] BY <1>1, <1>2, <1>5
  <2>3. NoLink.state = "gone" BY DEF NoLink
  <2>4. Becoming(i, Down(c), NoLink) BY <1>5, <2>1, <2>2, <2>3 DEF Becoming
  <2> QED BY <2>4, BotSteps
<1> QED BY <1>3, <1>4, <1>5 DEF Send

\* A link as it is when msg is sent over it.
LEMMA WithRequest ==
  ASSUME NEW k \in LinkRec, NEW msg \in Requests, NEW d, d = [k EXCEPT !.up = Append(@, msg)]
  PROVE  /\ d \in LinkRec /\ d.state = k.state /\ d.down = k.down
         /\ d.up = Append(k.up, msg)
<1>1. Append(k.up, msg) \in Seq(Requests) BY Sent DEF LinkRec
<1> QED BY <1>1 DEF LinkRec

LEMMA ReceiveTies ==
  ASSUME Ties, NEW i \in Bots, Receive(i)
  PROVE  Apart' /\ TiedAll'
<1> DEFINE l == bots[i].link
           msg == Head(links[l].down)
           b == OnMsg(bots[i], msg)
           k == [links[l] EXCEPT !.down = Tail(@)]
           read == [links EXCEPT ![l].down = Tail(@)]
<1>1. /\ links \in [Links -> LinkRec] /\ bots \in [Bots -> BotRec]
      /\ bots[i] \in BotRec /\ BotOK(bots[i])
  BY DEF Ties, PoolTypeOK, BotOK
<1>2. l # 0 /\ l \in Links /\ links[l].down # <<>>
  BY <1>1, PoolAssumption DEF Receive, BotRec, Links
<1>3. links[l] \in LinkRec /\ links[l].down \in Seq(Replies) BY <1>1, <1>2 DEF LinkRec
<1>4. msg \in Replies /\ Tail(links[l].down) \in Seq(Replies) BY <1>2, <1>3, Read
<1>5. /\ k \in LinkRec /\ k.state = links[l].state /\ k.up = links[l].up
      /\ k.down = Tail(links[l].down)
  BY <1>3, <1>4 DEF LinkRec
<1>6. read = [links EXCEPT ![l] = k] OBVIOUS
<1>7. (CASE msg = "WELCOME" -> Send(i, b, read, "QUEUE")
         [] msg \in Found   -> Send(i, b, read, "PLACE")
         [] msg = "ERROR"   -> bots' = [bots EXCEPT ![i] = b] /\ links' = [links EXCEPT ![l] = NoLink]
         [] OTHER           -> bots' = [bots EXCEPT ![i] = b] /\ links' = read)
  BY DEF Receive
<1>8. b \in BotRec /\ (msg # "ERROR" => b.link = l)
  <2>1. BotOK(b) BY <1>1, <1>2, <1>4, Heard
  <2>2. msg # "ERROR" => b.link = l BY <1>1, <1>4 DEF OnMsg, Found, BotRec, Replies
  <2> QED BY <2>1, <2>2 DEF BotOK
<1>9. ASSUME NEW d \in LinkRec, d.state = links[l].state, d.down = Tail(links[l].down),
             d.up = Answered(links[l].up, msg), Tied(bots[i], links[l])
      PROVE  Tied(b, d)
  <2> DEFINE c == b
  <2>1. c = OnMsg(bots[i], Head(links[l].down)) /\ c \in BotRec BY <1>8
  <2> HIDE DEF c
  <2>2. Tied(c, d) BY <1>1, <1>2, <1>3, <1>9, <2>1, ReadTied
  <2> QED BY <2>2 DEF c
<1> HIDE DEF b, k, read
<1>10. CASE msg = "WELCOME"
  <2> DEFINE d == [k EXCEPT !.up = Append(@, "QUEUE")]
  <2>1. Send(i, b, read, "QUEUE") BY <1>7, <1>10 DEF Found
  <2>2. "QUEUE" \in Requests BY DEF Requests
  <2>3. d \in LinkRec /\ d.state = k.state /\ d.down = k.down /\ d.up = Append(k.up, "QUEUE")
    BY <1>5, <2>2, WithRequest
  <2>4. Answered(links[l].up, msg) = Append(links[l].up, "QUEUE") BY <1>10 DEF Answered
  <2> HIDE DEF d
  <2>5. Tied(bots[i], links[l]) => Tied(b, d) BY <1>5, <1>9, <2>3, <2>4
  <2>6. b.link = l BY <1>8, <1>10
  <2> QED BY <1>2, <1>5, <1>6, <1>8, <2>1, <2>2, <2>5, <2>6, SendTies DEF d
<1>11. CASE msg \in Found
  <2> DEFINE d == [k EXCEPT !.up = Append(@, "PLACE")]
  <2>1. Send(i, b, read, "PLACE") BY <1>7, <1>11 DEF Found
  <2>2. "PLACE" \in Requests BY DEF Requests
  <2>3. d \in LinkRec /\ d.state = k.state /\ d.down = k.down /\ d.up = Append(k.up, "PLACE")
    BY <1>5, <2>2, WithRequest
  <2>4. Answered(links[l].up, msg) = Append(links[l].up, "PLACE") BY <1>11 DEF Answered, Found
  <2> HIDE DEF d
  <2>5. Tied(bots[i], links[l]) => Tied(b, d) BY <1>5, <1>9, <2>3, <2>4
  <2>6. b.link = l BY <1>8, <1>11 DEF Found
  <2> QED BY <1>2, <1>5, <1>6, <1>8, <2>1, <2>2, <2>5, <2>6, SendTies DEF d
<1>12. CASE msg = "ERROR"
  <2>1. bots' = [bots EXCEPT ![i] = b] /\ links' = [links EXCEPT ![l] = NoLink]
    BY <1>7, <1>12 DEF Found
  <2>2. b.link = 0
    <3>1. b = Drop(bots[i]) BY <1>12 DEF b, OnMsg, Found
    <3> QED BY <1>1, <3>1 DEF Drop, Down, BotRec
  <2>3. NoLink.state = "gone" BY DEF NoLink
  <2>4. Becoming(i, b, NoLink) BY <1>2, <2>1, <2>2, <2>3 DEF Becoming
  <2> QED BY <2>4, BotSteps
<1>13. CASE msg \notin Found \cup {"WELCOME", "ERROR"}
  <2>1. bots' = [bots EXCEPT ![i] = b] /\ links' = [links EXCEPT ![l] = k]
    BY <1>6, <1>7, <1>13 DEF Found
  <2>2. Answered(links[l].up, msg) = links[l].up BY <1>13 DEF Answered
  <2>3. Tied(bots[i], links[l]) => Tied(b, k) BY <1>5, <1>9, <2>2
  <2>4. b.link = l BY <1>8, <1>13
  <2>5. k.state # "gone" => Open(l) BY <1>5 DEF Open
  <2>6. Becoming(i, b, k) BY <1>2, <2>1, <2>3, <2>4, <2>5 DEF Becoming
  <2> QED BY <2>6, BotSteps
<1> QED BY <1>10, <1>11, <1>12, <1>13

\* Nothing is tied to a bot without a socket.
LEMMA LoneSteps ==
  ASSUME Ties, NEW i \in Bots, NEW c, c.link = 0, bots' = [bots EXCEPT ![i] = c], links' = links
  PROVE  Apart' /\ TiedAll'
<1>1. bots'[i] = c /\ \A j \in Bots \ {i} : bots'[j] = bots[j] BY DEF Ties, PoolTypeOK
<1>2. Apart' BY <1>1 DEF Ties, Apart
<1>3. TiedAll' BY <1>1 DEF Ties, TiedAll, Open
<1> QED BY <1>2, <1>3

\* A bot whose server has accepted it.
LEMMA DialledTied ==
  ASSUME NEW c \in BotRec, c.state = "hello", c.retry = FALSE
  PROVE  Tied(c, Dialled)
<1>1. Dialled.state = "connected" /\ Dialled.down = <<>> /\ Dialled.up = <<"HELLO">>
  BY DEF Dialled, NoLink
<1>2. \A S : None(Dialled.down, S) BY <1>1 DEF None, Places
<1>3. None(Dialled.up, {"QUEUE"}) BY <1>1 DEF None, Places
<1>4. Becomes(c, Dialled.down, SeenAs(Dialled.state)) BY <1>1, <1>2 DEF Becomes, None, SeenAs
<1>5. Dialled.up # <<>> /\ Head(Dialled.up) = "HELLO" BY <1>1
<1> QED BY <1>1, <1>2, <1>3, <1>4, <1>5 DEF Tied, Settled

LEMMA ConnectTies ==
  ASSUME Ties, NEW i \in Bots, ConnectBot(i)
  PROVE  Apart' /\ TiedAll'
<1>1. /\ links \in [Links -> LinkRec] /\ bots \in [Bots -> BotRec]
      /\ bots[i] \in BotRec /\ bots[i].link = 0
  BY DEF Ties, PoolTypeOK, ConnectBot
<1>2. ASSUME NEW l \in Links, ~Attached(l),
             bots' = [bots EXCEPT ![i] = [@ EXCEPT !.state = "hello", !.link = l, !.retry = FALSE]],
             links' = [links EXCEPT ![l] = Dialled]
      PROVE  Apart' /\ TiedAll'
  <2> DEFINE c == [bots[i] EXCEPT !.state = "hello", !.link = l, !.retry = FALSE]
  <2>1. bots' = [bots EXCEPT ![i] = c] BY <1>2
  <2>2. l \in 0 .. MaxLinks /\ "hello" \in BotStates BY PoolAssumption DEF Links, BotStates
  <2>3. c \in BotRec /\ c.link = l /\ c.state = "hello" /\ c.retry = FALSE
    BY <1>1, <2>2 DEF BotRec
  <2> HIDE DEF c
  <2>4. Tied(c, Dialled) BY <2>3, DialledTied
  <2>5. bots'[i] = c /\ links'[l] = Dialled /\ \A j \in Bots \ {i} : bots'[j] = bots[j]
    BY <1>1, <2>1, <1>2
  <2>6. \A j \in Bots : bots[j].link # l BY <1>2 DEF Attached
  <2>7. Apart' BY <2>3, <2>5, <2>6 DEF Ties, Apart
  <2>8. ASSUME NEW j \in Bots, bots'[j].link # 0, links'[bots'[j].link].state # "gone"
        PROVE  Tied(bots'[j], links'[bots'[j].link])
    <3>1. CASE j = i BY <2>3, <2>4, <2>5, <3>1
    <3>2. CASE j # i
      <4>1. bots'[j] = bots[j] /\ bots[j].link # l BY <2>5, <2>6, <3>2
      <4>2. bots[j].link \in Links BY <1>1, <2>8, <4>1, PoolAssumption DEF BotRec, Links
      <4>3. links'[bots[j].link] = links[bots[j].link] BY <1>1, <1>2, <4>1, <4>2
      <4>4. Open(bots[j].link) BY <2>8, <4>1, <4>3 DEF Open
      <4> QED BY <2>8, <4>1, <4>3, <4>4 DEF Ties, TiedAll
    <3> QED BY <3>1, <3>2
  <2>9. TiedAll' BY <2>8 DEF TiedAll, Open
  <2> QED BY <2>7, <2>9
<1>3. ASSUME bots' = [bots EXCEPT ![i].retry = TRUE], UNCHANGED links
      PROVE  Apart' /\ TiedAll'
  <2> DEFINE c == [bots[i] EXCEPT !.retry = TRUE]
  <2>1. bots' = [bots EXCEPT ![i] = c] /\ links' = links /\ c.link = 0 BY <1>1, <1>3 DEF BotRec
  <2> HIDE DEF c
  <2> QED BY <2>1, LoneSteps
<1> QED BY <1>2, <1>3 DEF ConnectBot

LEMMA PendingTies ==
  ASSUME Ties, NEW i \in Bots, NEW c \in BotRec, c.link = bots[i].link, c.state = bots[i].state,
         c.retry = bots[i].retry, NEW msg \in Requests, msg # "QUEUE", SendPending(i, c, msg)
  PROVE  Apart' /\ TiedAll'
<1>1. CASE c.link = 0
  <2>1. bots' = [bots EXCEPT ![i] = c] /\ links' = links BY <1>1 DEF SendPending
  <2> QED BY <1>1, <2>1, LoneSteps
<1>2. CASE c.link # 0
  <2> DEFINE l == bots[i].link
             k == links[l]
             d == [k EXCEPT !.up = Append(@, msg)]
  <2>1. /\ links \in [Links -> LinkRec] /\ bots[i] \in BotRec /\ l \in Links /\ k \in LinkRec
    BY <1>2, PoolAssumption DEF Ties, PoolTypeOK, BotRec, Links
  <2>2. Send(i, c, links, msg) BY <1>2 DEF SendPending
  <2>3. links = [links EXCEPT ![l] = k] BY <2>1
  <2> HIDE DEF k
  <2>4. d \in LinkRec /\ d.state = k.state /\ d.down = k.down /\ d.up = Append(k.up, msg)
    BY <2>1, WithRequest
  <2> HIDE DEF d
  <2>5. Tied(bots[i], k) => Tied(c, d) BY <2>1, <2>4, SentTied
  <2> QED BY <1>2, <2>1, <2>2, <2>3, <2>5, SendTies DEF k, d
<1> QED BY <1>1, <1>2

LEMMA PoolTies ==
  ASSUME Ties, NEW i \in Bots, Pool(i)
  PROVE  Apart' /\ TiedAll'
<1>1. bots[i] \in BotRec /\ links \in [Links -> LinkRec] BY DEF Ties, PoolTypeOK
<1>2. CASE Receive(i) BY <1>2, ReceiveTies
<1>3. CASE HangUp(i)
  <2>1. Drop(bots[i]).link = 0 BY <1>1 DEF Drop, Down, BotRec
  <2>2. NoLink.state = "gone" BY DEF NoLink
  <2>3. Becoming(i, Drop(bots[i]), NoLink) BY <1>3, <2>1, <2>2 DEF HangUp, Becoming
  <2> QED BY <2>3, BotSteps
<1>4. CASE ConnectBot(i) BY <1>4, ConnectTies
<1>5. CASE QueueUp(i)
  <2> DEFINE l == bots[i].link
             k == links[l]
             c == [bots[i] EXCEPT !.retry = FALSE]
             d == [k EXCEPT !.up = Append(@, "QUEUE")]
  <2>1. /\ l # 0 /\ l \in Links /\ k \in LinkRec /\ bots[i].retry
    BY <1>1, <1>5, PoolAssumption DEF QueueUp, Ties, PoolTypeOK, BotRec, Links
  <2>2. Send(i, c, links, "QUEUE") BY <1>5 DEF QueueUp
  <2>3. c \in BotRec /\ c.link = l /\ c.state = bots[i].state /\ c.retry = FALSE
    BY <1>1 DEF BotRec
  <2>4. links = [links EXCEPT ![l] = k] /\ "QUEUE" \in Requests BY <1>1, <2>1 DEF Requests
  <2> HIDE DEF k, c
  <2>5. d \in LinkRec /\ d.state = k.state /\ d.down = k.down /\ d.up = Append(k.up, "QUEUE")
    BY <2>1, <2>4, WithRequest
  <2> HIDE DEF d
  <2>6. Tied(bots[i], k) => Tied(c, d) BY <1>1, <2>1, <2>3, <2>5, AskedTied
  <2> QED BY <2>1, <2>2, <2>3, <2>4, <2>6, SendTies DEF k, d
<1>6. CASE SendReady(i)
  <2> DEFINE c == [bots[i] EXCEPT !.ready = FALSE]
  <2>1. SendPending(i, c, "READY") BY <1>6 DEF SendReady
  <2>2. c \in BotRec /\ c.link = bots[i].link /\ c.state = bots[i].state /\ c.retry = bots[i].retry
    BY <1>1 DEF BotRec
  <2>3. "READY" \in Requests BY DEF Requests
  <2> HIDE DEF c
  <2> QED BY <2>1, <2>2, <2>3, PendingTies
<1>7. CASE SendCall(i)
  <2> DEFINE c == [bots[i] EXCEPT !.call = FALSE]
  <2>1. SendPending(i, c, "CALL") BY <1>7 DEF SendCall
  <2>2. c \in BotRec /\ c.link = bots[i].link /\ c.state = bots[i].state /\ c.retry = bots[i].retry
    BY <1>1 DEF BotRec
  <2>3. "CALL" \in Requests BY DEF Requests
  <2> HIDE DEF c
  <2> QED BY <2>1, <2>2, <2>3, PendingTies
<1> QED BY <1>2, <1>3, <1>4, <1>5, <1>6, <1>7 DEF Pool

\* A bot that is switched on has no socket, and one that is let go loses its.
LEMMA ScaleTies ==
  ASSUME Ties, Grow \/ Release
  PROVE  Apart' /\ TiedAll'
<1>1. bots \in [Bots -> BotRec] /\ links \in [Links -> LinkRec] BY DEF Ties, PoolTypeOK
<1>2. CASE Grow
  <2>1. PICK i \in Bots \ Live :
          bots' = [bots EXCEPT ![i] = [@ EXCEPT !.state = "down", !.retry = TRUE]]
    BY <1>2 DEF Grow
  <2> DEFINE c == [bots[i] EXCEPT !.state = "down", !.retry = TRUE]
  <2>2. bots[i] \in BotRec /\ bots[i].link = 0 BY <1>1, <2>1 DEF Live, Ties, PoolTypeOK
  <2>3. c.link = 0 /\ bots' = [bots EXCEPT ![i] = c] /\ links' = links
    BY <1>2, <2>1, <2>2 DEF BotRec, Grow
  <2> HIDE DEF c
  <2> QED BY <2>3, LoneSteps
<1>3. ASSUME NEW i \in Waiting,
             bots' = [bots EXCEPT ![i] = [Drop(@) EXCEPT !.state = "off"]],
             links' = IF Open(bots[i].link) THEN links
                      ELSE [links EXCEPT ![bots[i].link] = NoLink]
      PROVE  Apart' /\ TiedAll'
  <2> DEFINE c == [Drop(bots[i]) EXCEPT !.state = "off"]
             d == IF Open(bots[i].link) THEN links[bots[i].link] ELSE NoLink
  <2>1. i \in Bots /\ bots[i].link # 0 /\ bots[i] \in BotRec BY <1>1 DEF Waiting, Ties, PoolTypeOK
  <2>2. bots[i].link \in Links BY <2>1, PoolAssumption DEF BotRec, Links
  <2>3. c.link = 0 BY <2>1 DEF Drop, Down, BotRec
  <2>4. links' = [links EXCEPT ![bots[i].link] = d] BY <1>1, <1>3, <2>2
  <2>5. bots' = [bots EXCEPT ![i] = c] BY <1>3
  <2> HIDE DEF c, d
  <2>6. Becoming(i, c, d) BY <2>1, <2>3, <2>4, <2>5 DEF Becoming
  <2> QED BY <2>1, <2>6, BotSteps
<1>4. ASSUME UNCHANGED <<bots, links>> PROVE Apart' /\ TiedAll'
  BY <1>4 DEF Ties, Apart, TiedAll, Open
<1> QED BY <1>2, <1>3, <1>4 DEF Release

LEMMA EveryStepTies ==
  ASSUME InBounds, Ties, [Next]_vars
  PROVE  InBounds' /\ Ties'
<1>1. InBounds' BY EveryStepInBounds
<1>2. Apart' /\ TiedAll'
  <2>1. ASSUME NEW i \in Bots, Pool(i) PROVE Apart' /\ TiedAll' BY <2>1, PoolTies
  <2>2. ASSUME NEW l \in Links, Server(l) PROVE Apart' /\ TiedAll' BY <2>2, ServerTies
  <2>3. CASE Grow \/ Release BY <2>3, ScaleTies
  <2>4. CASE Minute \/ Spell \/ UNCHANGED vars
    BY <2>4 DEF Minute, Spell, vars, Ties, Apart, TiedAll, Open
  <2> QED BY <2>1, <2>2, <2>3, <2>4 DEF Next
<1> QED BY <1>1, <1>2 DEF InBounds, Ties

LEMMA StartTies == Init => InBounds /\ Ties
<1> SUFFICES ASSUME Init PROVE InBounds /\ Ties OBVIOUS
<1>1. InBounds BY StartInBounds
<1>2. \A i \in Bots : bots[i].link = 0 BY DEF Init
<1> QED BY <1>1, <1>2 DEF InBounds, Ties, Apart, TiedAll

\* A bot that is tied to the server's end of its connection agrees with it.
LEMMA TiedAgree ==
  ASSUME NEW b \in BotRec, NEW k \in LinkRec, k.state # "gone", Tied(b, k)
  PROVE  Agrees(b, k)
<1>1. k.down \in Seq(Replies) /\ k.state \in LinkStates BY DEF LinkRec
<1>2. Becomes(b, k.down, SeenAs(k.state)) /\ None(k.down, {"ERROR"}) BY DEF Tied
<1>3. CASE k.state = "connected"
  BY <1>2, <1>3 DEF Tied, Agrees, SeenAs
<1>4. CASE k.state = "ready"
  <2>1. Owed(b, k) BY <1>4 DEF Tied
  <2>2. ASSUME One(k.down, Prompts) PROVE Promised(b, k)
    <3>1. PICK n \in 1 .. Len(k.down) : k.down[n] \in Prompts BY <2>2 DEF One, Places
    <3>2. CASE k.down[n] = "WELCOME" BY <3>1, <3>2 DEF Promised, Places
    <3>3. CASE k.down[n] = "END"
      <4>1. OnMsg(b, k.down[n]).retry = TRUE BY <3>3, Moves DEF Replies
      <4> QED BY <3>1, <4>1 DEF Promised, WillAsk
    <3> QED BY <3>1, <3>2, <3>3 DEF Prompts
  <2>3. One(k.up, {"QUEUE"}) => Promised(b, k) BY DEF One, Promised
  <2>4. b.retry => Promised(b, k) BY DEF Promised, WillAsk
  <2>5. Promised(b, k) BY <2>1, <2>2, <2>3, <2>4 DEF Owed
  <2> QED BY <1>2, <1>4, <2>5 DEF Agrees, SeenAs
<1>5. CASE k.state = "queued"
  <2>1. ~b.retry /\ None(k.down, Prompts) BY <1>5 DEF Tied, Settled
  <2>2. ASSUME NEW n \in 1 .. Len(k.down) PROVE ~OnMsg(b, k.down[n]).retry
    <3>1. k.down[n] \in Replies BY <1>1
    <3>2. k.down[n] \notin {"END", "ERROR"} BY <1>2, <2>1 DEF None, Places, Prompts
    <3>3. OnMsg(b, k.down[n]).retry = b.retry BY <3>1, <3>2, Moves
    <3> QED BY <2>1, <3>3
  <2>3. ~WillAsk(b, k.down) BY <2>1, <2>2 DEF WillAsk
  <2> QED BY <1>2, <1>5, <2>3 DEF Agrees, SeenAs
<1>6. CASE k.state \in Playing
  BY <1>2, <1>6 DEF Agrees, SeenAs, Playing
<1> QED BY <1>1, <1>3, <1>4, <1>5, <1>6 DEF LinkStates

\* A bot and the server never lose each other, for any pool, any number of
\* connections and any buffers (apps/bot/main.c:85-171 against the dispatch of
\* apps/server/main.c): what a bot will make of what is under way is what the
\* server has it as, and a bot outside the queue is about to ask for it.
THEOREM BotsKeepUp == Spec => []ViewsAgree
<1>1. InBounds /\ Ties => ViewsAgree
  <2> SUFFICES ASSUME Ties, NEW i \in Bots, bots[i].link # 0, Open(bots[i].link)
               PROVE  Agrees(bots[i], links[bots[i].link])
    BY DEF ViewsAgree
  <2>1. bots[i] \in BotRec /\ links[bots[i].link] \in LinkRec
    BY PoolAssumption DEF Ties, PoolTypeOK, BotRec, Links
  <2>2. Tied(bots[i], links[bots[i].link]) BY DEF Ties, TiedAll
  <2> QED BY <2>1, <2>2, TiedAgree DEF Open
<1>2. (InBounds /\ Ties) /\ [Next]_vars => (InBounds /\ Ties)' BY EveryStepTies
<1> QED BY <1>1, <1>2, StartTies, PTL DEF Spec

===============================================================================
