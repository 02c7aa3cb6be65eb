--------------------------- MODULE Dw2Server_proofs ---------------------------
(***************************************************************************)
(* Proofs about the match server, for tables of every size.  The handlers  *)
(* index the match table through c->match without a check, so the types of *)
(* the state and the agreement of the two tables are one inductive         *)
(* invariant: neither is inductive alone.                                  *)
(***************************************************************************)
EXTENDS Dw2Server, FiniteSetTheorems, TLAPS

Agreed == TypeOK /\ MatchesAgree

\* Match slots are numbered from 1, so that 0 can stand for none.
LEMMA SlotFacts ==
  /\ NoMatch \notin Matches
  /\ Matches \subseteq Nat /\ Conns \subseteq Nat
  /\ 0 \in Seats /\ 1 \in Seats /\ 0 # 1
  /\ \A s \in Seats : s = 0 \/ s = 1
  /\ 1 \in Conns
  /\ 0 \in Levels /\ FullHull \in Levels
  /\ 0 \in 0 .. TimeoutTicks
BY SizesAssumption, HullAssumption DEF NoMatch, Matches, Conns, Seats, Levels

LEMMA BlankTypes ==
  /\ FreeConn \in ConnRec
  /\ BlankMatch \in MatchRec
  /\ ~BlankMatch.active
BY SlotFacts DEF FreeConn, ConnRec, ConnStates, Kinds, BlankMatch, MatchRec, NoCall

\* A connection in a match finds its slot and its seat in the tables.
LEMMA PlayerFacts ==
  ASSUME Agreed, NEW c \in Conns, conns[c].state \in InMatch
  PROVE  /\ conns[c].match \in Matches
         /\ matches[conns[c].match].active
         /\ conns[c].seat \in Seats
         /\ matches[conns[c].match].conn[conns[c].seat] = c
BY DEF Agreed, TypeOK, MatchesAgree, ConnRec

LEMMA PlayersAreConns ==
  ASSUME TypeOK, NEW m \in Matches
  PROVE  Players(m) \subseteq Conns
BY DEF TypeOK, MatchRec, Players

LEMMA SendTypes ==
  ASSUME NEW marked \in SUBSET Conns, NEW R \in SUBSET Conns, Send(marked, R)
  PROVE  closing' \subseteq Conns
BY DEF Send

LEMMA ReleasedTypes ==
  ASSUME TypeOK, NEW P \in SUBSET Conns
  PROVE  Released(P) \in [Conns -> ConnRec]
BY DEF TypeOK, Released, ConnRec, ConnStates

LEMMA ResultTypes ==
  ASSUME NEW r
  PROVE  SeatResults(r) \in [Seats -> Results]
BY DEF SeatResults, Results

LEMMA EndMatchTypes ==
  ASSUME TypeOK, NEW m \in Matches, NEW mt, mt.hull \in [Seats -> Levels],
         NEW why \in Reasons, EndMatch(m, mt, why)
  PROVE  /\ matches' \in [Matches -> MatchRec]
         /\ matchDue' \subseteq Matches
         /\ lastEnd' \in EndRec \cup {NoEnd}
<1>1. matches' \in [Matches -> MatchRec]
  BY BlankTypes DEF EndMatch, TypeOK
<1>2. matchDue' \subseteq Matches
  BY DEF EndMatch, TypeOK
<1>3. lastEnd' \in EndRec
  BY ResultTypes DEF EndMatch, EndRec
<1> QED BY <1>1, <1>2, <1>3

-----------------------------------------------------------------------------
(* How the two tables stay in agreement: by a step that touches neither the *)
(* players nor what matters of the matches; by the end of a match; by the   *)
(* start of its combat; and by its creation.                                *)

LEMMA FrameAgrees ==
  ASSUME Agreed,
         \A m \in Matches :
           /\ matches'[m].active = matches[m].active
           /\ matches[m].active => /\ matches'[m].conn = matches[m].conn
                                   /\ matches'[m].started = matches[m].started,
         \A c \in Conns : conns[c].state \in InMatch \/ conns'[c].state \in InMatch
                            => conns'[c] = conns[c]
  PROVE  MatchesAgree'
<1>1. ASSUME NEW c \in Conns, conns'[c].state \in InMatch
      PROVE  /\ conns'[c].match \in Matches
             /\ matches'[conns'[c].match].active
             /\ matches'[conns'[c].match].conn[conns'[c].seat] = c
             /\ conns'[c].state =
                  IF matches'[conns'[c].match].started THEN "combat" ELSE "packing"
  BY <1>1 DEF Agreed, MatchesAgree
<1>2. ASSUME NEW m \in Matches, matches'[m].active, NEW s \in Seats
      PROVE  /\ conns'[matches'[m].conn[s]].state \in InMatch
             /\ conns'[matches'[m].conn[s]].match = m
             /\ conns'[matches'[m].conn[s]].seat = s
  <2>1. /\ conns[matches[m].conn[s]].state \in InMatch
        /\ conns[matches[m].conn[s]].match = m
        /\ conns[matches[m].conn[s]].seat = s
        /\ matches[m].conn[s] \in Conns
    BY <1>2 DEF Agreed, MatchesAgree, TypeOK, MatchRec
  <2> QED BY <2>1, <1>2
<1> QED BY <1>1, <1>2 DEF MatchesAgree

LEMMA EndAgrees ==
  ASSUME Agreed, NEW m \in Matches, matches[m].active,
         matches' = [matches EXCEPT ![m] = BlankMatch],
         \A c \in Players(m) : conns'[c].state \notin InMatch,
         \A c \in Conns \ Players(m) :
           conns[c].state \in InMatch \/ conns'[c].state \in InMatch
             => conns'[c] = conns[c]
  PROVE  MatchesAgree'
<1>1. matches'[m] = BlankMatch /\ \A n \in Matches \ {m} : matches'[n] = matches[n]
  BY DEF Agreed, TypeOK
<1>2. ASSUME NEW c \in Conns, conns'[c].state \in InMatch
      PROVE  /\ conns'[c].match \in Matches
             /\ matches'[conns'[c].match].active
             /\ matches'[conns'[c].match].conn[conns'[c].seat] = c
             /\ conns'[c].state =
                  IF matches'[conns'[c].match].started THEN "combat" ELSE "packing"
  <2>1. c \notin Players(m) /\ conns'[c] = conns[c]
    BY <1>2
  <2>2. conns[c].match # m
    BY <2>1, <1>2, PlayerFacts DEF Players
  <2> QED BY <2>1, <2>2, <1>1, <1>2 DEF Agreed, MatchesAgree
<1>3. ASSUME NEW n \in Matches, matches'[n].active, NEW s \in Seats
      PROVE  /\ conns'[matches'[n].conn[s]].state \in InMatch
             /\ conns'[matches'[n].conn[s]].match = n
             /\ conns'[matches'[n].conn[s]].seat = s
  <2>1. n # m /\ matches'[n] = matches[n]
    BY <1>1, <1>3, BlankTypes
  <2>2. /\ conns[matches[n].conn[s]].state \in InMatch
        /\ conns[matches[n].conn[s]].match = n
        /\ conns[matches[n].conn[s]].seat = s
        /\ matches[n].conn[s] \in Conns
    BY <1>3, <2>1 DEF Agreed, MatchesAgree, TypeOK, MatchRec
  <2>3. matches[n].conn[s] \notin Players(m)
    BY <2>1, <2>2 DEF Agreed, MatchesAgree, Players
  <2> QED BY <2>1, <2>2, <2>3
<1> QED BY <1>2, <1>3 DEF MatchesAgree

LEMMA StartCombatAgrees ==
  ASSUME Agreed, NEW m \in Matches, NEW mt, matches[m].active,
         mt.active, mt.conn = matches[m].conn, StartCombat(m, mt),
         InCombat(mt).active, InCombat(mt).started,
         InCombat(mt).conn = matches[m].conn
  PROVE  MatchesAgree'
<1>1. /\ matches'[m] = InCombat(mt)
      /\ \A n \in Matches \ {m} : matches'[n] = matches[n]
  BY DEF StartCombat, Agreed, TypeOK
<1>2. /\ \A c \in Conns : c \in Players(m) =>
            /\ conns'[c].state = "combat"
            /\ conns'[c].match = conns[c].match
            /\ conns'[c].seat = conns[c].seat
      /\ \A c \in Conns : c \notin Players(m) => conns'[c] = conns[c]
  <2>1. ASSUME NEW c \in Conns, c \in Players(m)
        PROVE  /\ conns'[c].state = "combat"
               /\ conns'[c].match = conns[c].match
               /\ conns'[c].seat = conns[c].seat
    <3>1. conns'[c] = [conns[c] EXCEPT !.state = "combat"]
      BY <2>1 DEF StartCombat
    <3>2. conns[c] \in ConnRec
      BY DEF Agreed, TypeOK
    <3> QED BY <3>1, <3>2 DEF ConnRec
  <2>2. \A c \in Conns : c \notin Players(m) => conns'[c] = conns[c]
    BY DEF StartCombat
  <2> QED BY <2>1, <2>2
<1>3. ASSUME NEW c \in Conns, conns'[c].state \in InMatch
      PROVE  /\ conns'[c].match \in Matches
             /\ matches'[conns'[c].match].active
             /\ matches'[conns'[c].match].conn[conns'[c].seat] = c
             /\ conns'[c].state =
                  IF matches'[conns'[c].match].started THEN "combat" ELSE "packing"
  <2>1. CASE c \in Players(m)
    <3>1. conns[c].state \in InMatch /\ conns[c].match = m
      BY <2>1 DEF Agreed, MatchesAgree, Players
    <3>2. /\ conns'[c].state = "combat" /\ conns'[c].match = m
          /\ conns'[c].seat = conns[c].seat
      BY <2>1, <3>1, <1>2
    <3> QED BY <1>1, <3>1, <3>2, PlayerFacts
  <2>2. CASE c \notin Players(m)
    <3>1. conns'[c] = conns[c]
      BY <2>2, <1>2
    <3>2. conns[c].match # m
      BY <3>1, <2>2, <1>3, PlayerFacts DEF Players
    <3> QED BY <1>1, <1>3, <3>1, <3>2 DEF Agreed, MatchesAgree
  <2> QED BY <2>1, <2>2
<1>4. ASSUME NEW n \in Matches, matches'[n].active, NEW s \in Seats
      PROVE  /\ conns'[matches'[n].conn[s]].state \in InMatch
             /\ conns'[matches'[n].conn[s]].match = n
             /\ conns'[matches'[n].conn[s]].seat = s
  <2>1. matches[n].active /\ matches'[n].conn = matches[n].conn
    BY <1>1, <1>4
  <2>2. /\ conns[matches[n].conn[s]].state \in InMatch
        /\ conns[matches[n].conn[s]].match = n
        /\ conns[matches[n].conn[s]].seat = s
        /\ matches[n].conn[s] \in Conns
    BY <2>1 DEF Agreed, MatchesAgree, TypeOK, MatchRec
  <2>3. CASE matches[n].conn[s] \in Players(m)
    BY <2>1, <2>2, <2>3, <1>2 DEF InMatch
  <2>4. CASE matches[n].conn[s] \notin Players(m)
    BY <2>1, <2>2, <2>4, <1>2
  <2> QED BY <2>3, <2>4
<1> QED BY <1>3, <1>4 DEF MatchesAgree

LEMMA StartMatchAgrees ==
  ASSUME Agreed, NEW a \in Conns, NEW b \in Conns, a # b,
         conns[a].state \notin InMatch, conns[b].state \notin InMatch,
         NEW m \in Matches, ~matches[m].active, StartMatch(a, b, m)
  PROVE  MatchesAgree'
<1> DEFINE seated == [s \in Seats |-> IF s = 0 THEN a ELSE b]
<1>1. /\ matches'[m].active /\ matches'[m].conn = seated /\ ~matches'[m].started
      /\ \A n \in Matches \ {m} : matches'[n] = matches[n]
  BY DEF StartMatch, Agreed, TypeOK, BlankMatch
<1>2. /\ conns'[a].state = "packing" /\ conns'[a].match = m /\ conns'[a].seat = 0
      /\ conns'[b].state = "packing" /\ conns'[b].match = m /\ conns'[b].seat = 1
      /\ \A c \in Conns \ {a, b} : conns'[c] = conns[c]
  BY DEF StartMatch, Agreed, TypeOK, ConnRec
<1>3. ASSUME NEW c \in Conns, conns'[c].state \in InMatch
      PROVE  /\ conns'[c].match \in Matches
             /\ matches'[conns'[c].match].active
             /\ matches'[conns'[c].match].conn[conns'[c].seat] = c
             /\ conns'[c].state =
                  IF matches'[conns'[c].match].started THEN "combat" ELSE "packing"
  <2>1. CASE c \in {a, b}
    BY <2>1, <1>1, <1>2, SlotFacts
  <2>2. CASE c \notin {a, b}
    <3>1. conns'[c] = conns[c] /\ conns[c].match # m
      BY <2>2, <1>2, <1>3, PlayerFacts
    <3> QED BY <1>1, <1>3, <3>1 DEF Agreed, MatchesAgree
  <2> QED BY <2>1, <2>2
<1>4. ASSUME NEW n \in Matches, matches'[n].active, NEW s \in Seats
      PROVE  /\ conns'[matches'[n].conn[s]].state \in InMatch
             /\ conns'[matches'[n].conn[s]].match = n
             /\ conns'[matches'[n].conn[s]].seat = s
  <2>1. CASE n = m
    BY <2>1, <1>1, <1>2, SlotFacts DEF InMatch
  <2>2. CASE n # m
    <3>1. /\ matches'[n] = matches[n]
          /\ conns[matches[n].conn[s]].state \in InMatch
          /\ conns[matches[n].conn[s]].match = n
          /\ conns[matches[n].conn[s]].seat = s
          /\ matches[n].conn[s] \in Conns
      BY <2>2, <1>1, <1>4 DEF Agreed, MatchesAgree, TypeOK, MatchRec
    <3> QED BY <3>1, <1>2
  <2> QED BY <2>1, <2>2
<1> QED BY <1>3, <1>4 DEF MatchesAgree

-----------------------------------------------------------------------------
(* What each group of steps does to the tables.                             *)

TablesOK ==
  /\ conns \in [Conns -> ConnRec]
  /\ closing \subseteq Conns
  /\ ahead \subseteq Conns \X Conns
  /\ matches \in [Matches -> MatchRec]
  /\ lastEnd \in EndRec \cup {NoEnd}
  /\ connDue \subseteq Conns
  /\ matchDue \subseteq Matches

Kept == TablesOK' /\ MatchesAgree'

LEMMA HullTypes ==
  ASSUME TypeOK, NEW m \in Matches
  PROVE  matches[m].hull \in [Seats -> Levels]
BY DEF TypeOK, MatchRec

LEMMA DequeuedTypes ==
  ASSUME TypeOK, NEW S
  PROVE  Dequeued(S) \subseteq Conns \X Conns
BY DEF TypeOK, Dequeued

LEMMA ReleasedPlayers ==
  ASSUME TypeOK, NEW P \in SUBSET Conns
  PROVE  /\ \A c \in P : Released(P)[c].state \notin InMatch
         /\ \A c \in Conns \ P : Released(P)[c] = conns[c]
<1>1. ASSUME NEW c \in P PROVE Released(P)[c].state \notin InMatch
  <2>1. conns[c] \in ConnRec
    BY DEF TypeOK
  <2>2. CASE conns[c].state \in InMatch
    <3>1. Released(P)[c] = [conns[c] EXCEPT !.state = "ready", !.match = NoMatch]
      BY <2>2 DEF Released
    <3> QED BY <3>1, <2>1 DEF ConnRec, InMatch
  <2>3. CASE conns[c].state \notin InMatch
    BY <2>3 DEF Released
  <2> QED BY <2>2, <2>3
<1>2. \A c \in Conns \ P : Released(P)[c] = conns[c]
  BY DEF Released
<1> QED BY <1>1, <1>2

\* A connection that leaves, or is closed, in or out of a match.
LEMMA QuitKeeps ==
  ASSUME Agreed, NEW c \in Conns, NEW to \in {"ready", "free"}, Quit(c, to)
  PROVE  Kept
<1> DEFINE m == conns[c].match
           P == Players(m)
           gone(f) == [f EXCEPT ![c] =
                         IF to = "free" THEN FreeConn
                         ELSE IF @.state = "queued" THEN [@ EXCEPT !.state = to]
                         ELSE @]
           kept == IF to = "free" THEN closing \ {c} ELSE closing
<1> USE DEF Agreed
<1>1. kept \subseteq Conns
  BY DEF TypeOK
<1>2. ahead' \subseteq Conns \X Conns /\ connDue' \subseteq Conns
  BY DequeuedTypes DEF Quit, TypeOK
<1>3. ASSUME NEW f \in [Conns -> ConnRec]
      PROVE  /\ gone(f) \in [Conns -> ConnRec]
             /\ gone(f)[c].state \in InMatch => gone(f)[c] = f[c]
             /\ \A d \in Conns \ {c} : gone(f)[d] = f[d]
  <2>1. ASSUME f[c].state = "queued"
        PROVE  /\ [f[c] EXCEPT !.state = "ready"] \in ConnRec
               /\ [f[c] EXCEPT !.state = "ready"].state = "ready"
    <3>1. f[c] \in ConnRec
      OBVIOUS
    <3> QED BY <3>1 DEF ConnRec, ConnStates
  <2>2. "ready" \notin InMatch /\ FreeConn.state \notin InMatch
    BY DEF InMatch, FreeConn
  <2>3. CASE to = "free"
    BY <2>2, <2>3, BlankTypes
  <2>4. CASE to = "ready"
    BY <2>1, <2>2, <2>4
  <2> QED BY <2>3, <2>4
<1>4. CASE Plays(c)
  <2>1. /\ m \in Matches /\ matches[m].active /\ P \subseteq Conns /\ c \in P
    BY <1>4, PlayerFacts, PlayersAreConns DEF Plays, Players
  <2>2. /\ EndMatch(m, matches[m], "forfeit")
        /\ conns' = gone(Released(P))
        /\ Send(kept, IF to = "free" THEN P \ {c} ELSE P)
    BY <1>4 DEF Quit
  <2>3. Released(P) \in [Conns -> ConnRec]
    BY <2>1, ReleasedTypes
  <2>4. conns' \in [Conns -> ConnRec]
    BY <2>2, <2>3, <1>3
  <2>5. /\ matches' \in [Matches -> MatchRec] /\ matchDue' \subseteq Matches
        /\ lastEnd' \in EndRec \cup {NoEnd}
    BY <2>1, <2>2, HullTypes, EndMatchTypes DEF Reasons
  <2>6. closing' \subseteq Conns
    <3>1. (IF to = "free" THEN P \ {c} ELSE P) \in SUBSET Conns
      BY <2>1
    <3> HIDE DEF kept, P
    <3> QED BY <3>1, <2>2, <1>1, SendTypes
  <2>7. MatchesAgree'
    <3> DEFINE rel == Released(P)
    <3>0. /\ rel \in [Conns -> ConnRec] /\ conns' = gone(rel)
          /\ \A d \in P : rel[d].state \notin InMatch
          /\ \A d \in Conns \ P : rel[d] = conns[d]
      BY <2>1, <2>2, <2>3, ReleasedPlayers
    <3>5. /\ conns'[c].state \in InMatch => conns'[c] = rel[c]
          /\ \A d \in Conns \ {c} : conns'[d] = rel[d]
      <4> HIDE DEF rel
      <4> QED BY <3>0, <1>3
    <3> HIDE DEF rel, gone
    <3>1. \A d \in P : conns'[d].state \notin InMatch
      BY <2>1, <3>0, <3>5
    <3>2. \A d \in Conns \ P : conns'[d] = conns[d]
      BY <2>1, <3>0, <3>5
    <3>3. matches' = [matches EXCEPT ![m] = BlankMatch]
      BY <2>2 DEF EndMatch
    <3> QED BY <2>1, <3>1, <3>2, <3>3, EndAgrees
  <2> QED BY <1>2, <2>4, <2>5, <2>6, <2>7 DEF Kept, TablesOK
<1>5. CASE ~Plays(c)
  <2>1. conns' = gone(conns) /\ closing' = kept /\ UNCHANGED <<matches, matchDue, lastEnd>>
    BY <1>5 DEF Quit
  <2>2. conns \in [Conns -> ConnRec] /\ conns[c].state \notin InMatch
    BY <1>5, PlayerFacts DEF Plays, TypeOK
  <2>3. /\ conns' \in [Conns -> ConnRec]
        /\ \A d \in Conns : conns[d].state \in InMatch \/ conns'[d].state \in InMatch
                              => conns'[d] = conns[d]
    BY <2>1, <2>2, <1>3
  <2>4. MatchesAgree'
    BY <2>1, <2>3, FrameAgrees
  <2> QED BY <1>1, <1>2, <2>1, <2>3, <2>4 DEF Kept, TablesOK, TypeOK
<1> QED BY <1>4, <1>5

\* The start of a combat, from a record that differs from the slot in its
\* READY flags at most.
LEMMA StartCombatKeeps ==
  ASSUME Agreed, NEW m \in Matches, matches[m].active,
         NEW ready \in [Seats -> BOOLEAN], NEW mt,
         mt = [matches[m] EXCEPT !.ready = ready],
         StartCombat(m, mt), UNCHANGED <<ahead, connDue>>,
         lastEnd' \in {lastEnd, NoEnd}
  PROVE  Kept
<1> USE DEF Agreed
<1>1. mt \in MatchRec /\ mt.active /\ mt.conn = matches[m].conn
  BY DEF TypeOK, MatchRec
<1>2. /\ InCombat(mt) \in MatchRec
      /\ InCombat(mt).active /\ InCombat(mt).started
      /\ InCombat(mt).conn = matches[m].conn
  BY <1>1, SlotFacts DEF InCombat, MatchRec
<1>3. MatchesAgree'
  BY <1>1, <1>2, StartCombatAgrees
<1>4. matches' \in [Matches -> MatchRec] /\ matchDue' \subseteq Matches
  BY <1>2 DEF StartCombat, TypeOK
<1>5. conns' \in [Conns -> ConnRec]
  <2>1. \A c \in Conns : [conns[c] EXCEPT !.state = "combat"] \in ConnRec
    BY DEF TypeOK, ConnRec, ConnStates
  <2> QED BY <2>1 DEF StartCombat, TypeOK
<1>6. closing' \subseteq Conns
  BY PlayersAreConns, SendTypes DEF StartCombat, SendTo, TypeOK
<1> QED BY <1>3, <1>4, <1>5, <1>6 DEF Kept, TablesOK, TypeOK

\* The end of a round break, from a record that differs from the slot in its
\* calls at most.
LEMMA ResolveBreakKeeps ==
  ASSUME Agreed, NEW m \in Matches,
         NEW call \in [Seats -> Calls \cup {NoCall}], NEW mt,
         mt = [matches[m] EXCEPT !.call = call],
         ResolveBreak(m, mt), UNCHANGED <<conns, ahead, connDue>>,
         lastEnd' \in {lastEnd, NoEnd}
  PROVE  Kept
<1> USE DEF Agreed
<1>1. PICK h \in [Seats -> Levels] :
        matches' = [matches EXCEPT ![m] = [mt EXCEPT !.break = FALSE, !.hull = h]]
  BY DEF ResolveBreak, HullsAfterBreak
<1> DEFINE new == [mt EXCEPT !.break = FALSE, !.hull = h]
<1>2. matches[m] \in MatchRec
  BY DEF TypeOK
<1>3. /\ new \in MatchRec
      /\ new.active = matches[m].active /\ new.conn = matches[m].conn
      /\ new.started = matches[m].started
  BY <1>2 DEF MatchRec
<1>4. matches' \in [Matches -> MatchRec]
  BY <1>1, <1>3 DEF TypeOK
<1>5. MatchesAgree'
  <2>1. matches'[m] = new /\ \A n \in Matches \ {m} : matches'[n] = matches[n]
    BY <1>1 DEF TypeOK
  <2> HIDE DEF new
  <2> QED BY <2>1, <1>3, FrameAgrees
<1>6. closing' \subseteq Conns /\ matchDue' \subseteq Matches
  BY PlayersAreConns, SendTypes DEF ResolveBreak, SendTo, TypeOK
<1> QED BY <1>4, <1>5, <1>6 DEF Kept, TablesOK, TypeOK

\* A match that ends with all its players released: by its tick or the server.
LEMMA ReleaseKeeps ==
  ASSUME Agreed, NEW m \in Matches, matches[m].active,
         NEW mt, mt.hull \in [Seats -> Levels], NEW why \in Reasons,
         EndMatch(m, mt, why), conns' = Released(Players(m)),
         SendTo(Players(m)), UNCHANGED <<ahead, connDue>>
  PROVE  Kept
<1> USE DEF Agreed
<1>1. Players(m) \subseteq Conns
  BY PlayersAreConns
<1>2. MatchesAgree'
  BY <1>1, ReleasedPlayers, EndAgrees DEF EndMatch
<1>3. conns' \in [Conns -> ConnRec] /\ closing' \subseteq Conns
  BY <1>1, ReleasedTypes, SendTypes DEF SendTo, TypeOK
<1> QED BY <1>2, <1>3, EndMatchTypes DEF Kept, TablesOK, TypeOK

\* A second of combat.
LEMMA RunTickKeeps ==
  ASSUME Agreed, NEW m \in Matches, matches[m].active, RunTick(m),
         UNCHANGED <<ahead, connDue>>
  PROVE  Kept
<1> USE DEF Agreed
<1>1. PICK h \in HullsAfterTick(matches[m].hull) :
        LET t      == matches[m].elapsed + 1
            ticked == [matches[m] EXCEPT !.hull = h, !.elapsed = t]
            dead   == \E s \in Seats : h[s] = 0
        IN /\ IF MatchResult(ticked, "tie") # "ongoing"
              THEN /\ EndMatch(m, ticked, IF dead THEN "hull" ELSE "timeout")
                   /\ conns' = Released(Players(m))
              ELSE /\ matches' = [matches EXCEPT ![m] =
                        IF t % RoundTicks = 0 /\ t < TimeoutTicks
                        THEN Broken(ticked) ELSE ticked]
                   /\ matchDue' = matchDue \ {m}
                   /\ lastEnd' = NoEnd
                   /\ UNCHANGED conns
           /\ SendTo(Players(m))
  BY DEF RunTick
<1> DEFINE t == matches[m].elapsed + 1
           ticked == [matches[m] EXCEPT !.hull = h, !.elapsed = t]
           why == IF \E s \in Seats : h[s] = 0 THEN "hull" ELSE "timeout"
           next == IF t % RoundTicks = 0 /\ t < TimeoutTicks
                   THEN Broken(ticked) ELSE ticked
<1>2. h \in [Seats -> Levels] /\ matches[m] \in MatchRec
  BY DEF HullsAfterTick, TypeOK
<1>3. /\ ticked.hull = h /\ ticked.elapsed = t /\ t \in Nat
      /\ ticked.hull \in [Seats -> Levels]
  BY <1>2 DEF MatchRec
<1>4. CASE MatchResult(ticked, "tie") # "ongoing"
  <2>1. /\ EndMatch(m, ticked, why) /\ conns' = Released(Players(m))
        /\ SendTo(Players(m)) /\ why \in Reasons
    BY <1>1, <1>4 DEF Reasons
  <2> HIDE DEF ticked, why
  <2> QED BY <2>1, <1>3, ReleaseKeeps
<1>5. CASE MatchResult(ticked, "tie") = "ongoing"
  <2>1. /\ matches' = [matches EXCEPT ![m] = next] /\ matchDue' = matchDue \ {m}
        /\ lastEnd' = NoEnd /\ conns' = conns /\ SendTo(Players(m))
    BY <1>1, <1>5
  <2>2. t \in 0 .. TimeoutTicks
    <3>1. ticked.elapsed < TimeoutTicks
      BY <1>5 DEF MatchResult
    <3> QED BY <3>1, <1>3, SizesAssumption
  <2>3. /\ ticked \in MatchRec
        /\ ticked.active = matches[m].active /\ ticked.conn = matches[m].conn
        /\ ticked.started = matches[m].started
    BY <1>2, <2>2 DEF MatchRec
  <2>4. /\ next \in MatchRec
        /\ next.active = matches[m].active /\ next.conn = matches[m].conn
        /\ next.started = matches[m].started
    <3> HIDE DEF ticked
    <3> QED BY <2>3 DEF Broken, MatchRec
  <2> HIDE DEF next
  <2>5. matches' \in [Matches -> MatchRec]
    BY <2>1, <2>4 DEF TypeOK
  <2>6. MatchesAgree'
    <3>1. matches'[m] = next /\ \A n \in Matches \ {m} : matches'[n] = matches[n]
      BY <2>1 DEF TypeOK
    <3> QED BY <3>1, <2>1, <2>4, FrameAgrees
  <2>7. closing' \subseteq Conns
    BY <2>1, PlayersAreConns, SendTypes DEF SendTo, TypeOK
  <2> QED BY <2>1, <2>5, <2>6, <2>7 DEF Kept, TablesOK, TypeOK
<1> QED BY <1>4, <1>5

-----------------------------------------------------------------------------
(* The theorems.                                                            *)

LoopOK == phase \in Phases /\ at \in Nat /\ pairing \in BOOLEAN

\* A step that leaves players and matches alone.
LEMMA QuietKeeps ==
  ASSUME Agreed, conns' \in [Conns -> ConnRec], closing' \subseteq Conns,
         ahead' \subseteq Conns \X Conns, UNCHANGED matches,
         lastEnd' \in {lastEnd, NoEnd}, connDue' \subseteq Conns,
         matchDue' \subseteq Matches,
         \A c \in Conns : conns[c].state \in InMatch \/ conns'[c].state \in InMatch
                            => conns'[c] = conns[c]
  PROVE  Kept
BY FrameAgrees DEF Kept, TablesOK, Agreed, TypeOK

\* One connection's record changes outside any match.
LEMMA ConnKeeps ==
  ASSUME Agreed, NEW c \in Conns, conns[c].state \notin InMatch,
         NEW r \in ConnRec, r.state \notin InMatch,
         conns' = [conns EXCEPT ![c] = r], closing' \subseteq Conns,
         ahead' \subseteq Conns \X Conns, connDue' \subseteq Conns,
         UNCHANGED <<matches, lastEnd, matchDue>>
  PROVE  Kept
<1>1. /\ conns' \in [Conns -> ConnRec] /\ matchDue' \subseteq Matches
      /\ conns'[c] = r
      /\ \A d \in Conns \ {c} : conns'[d] = conns[d]
  BY DEF Agreed, TypeOK
<1> QED BY <1>1, QuietKeeps

LEMMA ClientsKeep == ASSUME Agreed, Clients PROVE LoopOK' /\ Kept
<1> USE DEF Agreed
<1>1. CASE Accept
  <2>1. PICK c \in Conns :
          /\ FirstOf(c, InState("free"))
          /\ conns' = [conns EXCEPT ![c] = [FreeConn EXCEPT !.state = "connected"]]
          /\ closing' = closing \ {c}
          /\ connDue' = connDue \ {c}
    BY <1>1 DEF Accept
  <2>2. conns[c].state \notin InMatch
    BY <2>1 DEF FirstOf, InState, InMatch
  <2>3. /\ [FreeConn EXCEPT !.state = "connected"] \in ConnRec
        /\ [FreeConn EXCEPT !.state = "connected"].state \notin InMatch
    BY SlotFacts DEF FreeConn, ConnRec, ConnStates, Kinds, InMatch
  <2> QED BY <1>1, <2>1, <2>2, <2>3, ConnKeeps DEF Accept, loop, LoopOK, TypeOK
<1>2. ASSUME NEW c \in Conns, NEW kind \in Clientele, Hello(c, kind)
      PROVE  LoopOK' /\ Kept
  <2> DEFINE r == [conns[c] EXCEPT !.state = "ready", !.kind = kind]
  <2>1. conns[c] \in ConnRec /\ conns[c].state \notin InMatch
    BY <1>2 DEF Hello, InMatch, TypeOK
  <2>2. r \in ConnRec /\ r.state \notin InMatch
    BY <2>1, SizesAssumption DEF ConnRec, ConnStates, Kinds, InMatch
  <2>3. conns' = [conns EXCEPT ![c] = r]
    BY <1>2 DEF Hello
  <2>4. closing' \subseteq Conns /\ connDue' \subseteq Conns
    BY <1>2, SendTypes DEF Hello, SendTo, TypeOK
  <2> HIDE DEF r
  <2> QED BY <1>2, <2>1, <2>2, <2>3, <2>4, ConnKeeps DEF Hello, loop, LoopOK, TypeOK
<1>3. ASSUME NEW c \in Conns, Queue(c)
      PROVE  LoopOK' /\ Kept
  <2> DEFINE r == [conns[c] EXCEPT !.state = "queued"]
  <2>1. conns[c] \in ConnRec /\ conns[c].state \notin InMatch
    BY <1>3 DEF Queue, InMatch, TypeOK
  <2>2. r \in ConnRec /\ r.state \notin InMatch
    BY <2>1 DEF ConnRec, ConnStates, InMatch
  <2>3. conns' = [conns EXCEPT ![c] = r]
    BY <1>3 DEF Queue
  <2>4. closing' \subseteq Conns /\ connDue' \subseteq Conns
    BY <1>3, SendTypes DEF Queue, SendTo, TypeOK
  <2>5. ahead' \subseteq Conns \X Conns
    BY <1>3 DEF Queue, InState, TypeOK
  <2> HIDE DEF r
  <2> QED BY <1>3, <2>1, <2>2, <2>3, <2>4, <2>5, ConnKeeps DEF Queue, LoopOK, TypeOK
<1>4. ASSUME NEW c \in Conns, Ready(c)
      PROVE  LoopOK' /\ Kept
  <2> DEFINE m == conns[c].match
             s == conns[c].seat
             mt == [matches[m] EXCEPT !.ready[s] = TRUE]
             ready == [matches[m].ready EXCEPT ![s] = TRUE]
  <2>1. m \in Matches /\ matches[m].active /\ s \in Seats
    BY <1>4, PlayerFacts DEF Ready, InMatch
  <2>2. /\ matches[m] \in MatchRec
        /\ mt = [matches[m] EXCEPT !.ready = ready]
        /\ ready \in [Seats -> BOOLEAN]
    BY <2>1 DEF TypeOK, MatchRec
  <2>3. /\ mt \in MatchRec /\ mt.active = matches[m].active
        /\ mt.conn = matches[m].conn /\ mt.started = matches[m].started
    BY <2>2 DEF MatchRec
  <2>4. LoopOK' /\ UNCHANGED <<ahead, lastEnd, connDue>>
    BY <1>4 DEF Ready, loop, LoopOK, TypeOK
  <2>5. CASE PackingOver(mt, m)
    <3>1. StartCombat(m, mt)
      BY <1>4, <2>5 DEF Ready
    <3> HIDE DEF mt, ready, m
    <3> QED BY <2>1, <2>2, <2>4, <3>1, StartCombatKeeps
  <2>6. CASE ~PackingOver(mt, m)
    <3>1. matches' = [matches EXCEPT ![m] = mt] /\ UNCHANGED <<conns, closing, matchDue>>
      BY <1>4, <2>6 DEF Ready
    <3>2. matches' \in [Matches -> MatchRec]
      BY <3>1, <2>3 DEF TypeOK
    <3>3. matches'[m] = mt /\ \A n \in Matches \ {m} : matches'[n] = matches[n]
      BY <2>1, <3>1 DEF TypeOK
    <3> HIDE DEF mt, m
    <3>4. MatchesAgree'
      BY <2>3, <3>1, <3>3, FrameAgrees
    <3> QED BY <2>4, <3>1, <3>2, <3>4 DEF Kept, TablesOK, TypeOK
  <2> QED BY <2>5, <2>6
<1>5. ASSUME NEW c \in Conns, NEW call \in Calls, RoundCall(c, call)
      PROVE  LoopOK' /\ Kept
  <2> DEFINE m == conns[c].match
             s == conns[c].seat
             mt == Called(matches[m], s, call)
             calls == [matches[m].call EXCEPT ![s] = IF @ = NoCall THEN call ELSE @]
  <2>1. m \in Matches /\ s \in Seats
    BY <1>5, PlayerFacts DEF RoundCall, InMatch
  <2>2. /\ matches[m] \in MatchRec
        /\ mt = [matches[m] EXCEPT !.call = calls]
        /\ calls \in [Seats -> Calls \cup {NoCall}]
    BY <2>1 DEF TypeOK, MatchRec, Called
  <2>3. /\ mt \in MatchRec /\ mt.active = matches[m].active
        /\ mt.conn = matches[m].conn /\ mt.started = matches[m].started
    BY <2>2 DEF MatchRec
  <2>4. LoopOK' /\ UNCHANGED <<conns, ahead, lastEnd, connDue>>
    BY <1>5 DEF RoundCall, loop, LoopOK, TypeOK
  <2>5. CASE \A t \in Seats : mt.call[t] # NoCall
    <3>1. ResolveBreak(m, mt)
      BY <1>5, <2>5 DEF RoundCall
    <3> HIDE DEF mt, calls, m
    <3> QED BY <2>1, <2>2, <2>4, <3>1, ResolveBreakKeeps
  <2>6. CASE ~ \A t \in Seats : mt.call[t] # NoCall
    <3>1. matches' = [matches EXCEPT ![m] = mt] /\ UNCHANGED <<closing, matchDue>>
      BY <1>5, <2>6 DEF RoundCall
    <3>2. matches' \in [Matches -> MatchRec]
      BY <3>1, <2>3 DEF TypeOK
    <3>3. matches'[m] = mt /\ \A n \in Matches \ {m} : matches'[n] = matches[n]
      BY <2>1, <3>1 DEF TypeOK
    <3> HIDE DEF mt, m
    <3>4. MatchesAgree'
      BY <2>3, <2>4, <3>1, <3>3, FrameAgrees
    <3> QED BY <2>4, <3>1, <3>2, <3>4 DEF Kept, TablesOK, TypeOK
  <2> QED BY <2>5, <2>6
<1>6. ASSUME NEW c \in Conns, Leave(c)
      PROVE  LoopOK' /\ Kept
  BY <1>6, QuitKeeps DEF Leave, loop, LoopOK, TypeOK
<1>7. ASSUME NEW c \in Conns, Refuse(c)
      PROVE  LoopOK' /\ Kept
  BY <1>7, QuietKeeps DEF Refuse, loop, LoopOK, TypeOK
<1>8. ASSUME NEW c \in Conns, Disconnect(c)
      PROVE  LoopOK' /\ Kept
  BY <1>8, QuitKeeps DEF Disconnect, loop, LoopOK, TypeOK
<1> QED BY <1>1, <1>2, <1>3, <1>4, <1>5, <1>6, <1>7, <1>8 DEF Clients

LEMMA OldestDistinct ==
  ASSUME NEW S, NEW a, NEW b, IsOldest(a, S), IsOldest(b, S \ {a})
  PROVE  a \in S /\ b \in S /\ a # b
BY DEF IsOldest

LEMMA PickedAreQueued ==
  ASSUME NEW a \in Conns, NEW b \in Conns, Picks(a, b)
  PROVE  a # b /\ conns[a].state = "queued" /\ conns[b].state = "queued"
<1> DEFINE humans == QueuedOf("human")
           bots == QueuedOf("bot")
<1>1. /\ \A c \in humans : conns[c].state = "queued" /\ conns[c].kind = "human"
      /\ \A c \in bots : conns[c].state = "queued" /\ conns[c].kind = "bot"
  BY DEF QueuedOf, InState
<1>2. \/ IsOldest(a, humans) /\ IsOldest(b, humans \ {a})
      \/ humans = {a} /\ IsOldest(b, bots)
      \/ IsOldest(a, bots) /\ IsOldest(b, bots \ {a})
  BY DEF Picks
<1> HIDE DEF humans, bots
<1>3. CASE IsOldest(a, humans) /\ IsOldest(b, humans \ {a})
  BY <1>1, <1>3, OldestDistinct
<1>4. CASE humans = {a} /\ IsOldest(b, bots)
  BY <1>1, <1>4 DEF IsOldest
<1>5. CASE IsOldest(a, bots) /\ IsOldest(b, bots \ {a})
  BY <1>1, <1>5, OldestDistinct
<1> QED BY <1>2, <1>3, <1>4, <1>5

LEMMA PairKeeps == ASSUME Agreed, Pair PROVE LoopOK' /\ Kept
<1> USE DEF Agreed
<1>1. PICK a \in Conns, b \in Conns, m \in Matches :
        Picks(a, b) /\ FirstOf(m, FreeMatches) /\ StartMatch(a, b, m)
  BY DEF Pair
<1>2. /\ a # b /\ conns[a].state \notin InMatch /\ conns[b].state \notin InMatch
      /\ ~matches[m].active
  BY <1>1, PickedAreQueued DEF InMatch, FirstOf, FreeMatches
<1>3. MatchesAgree'
  BY <1>1, <1>2, StartMatchAgrees
<1> DEFINE new == [BlankMatch EXCEPT !.active = TRUE,
                     !.conn = [s \in Seats |-> IF s = 0 THEN a ELSE b]]
<1>4. matches' \in [Matches -> MatchRec]
  <2>1. new \in MatchRec
    BY BlankTypes DEF MatchRec
  <2> QED BY <1>1, <2>1 DEF StartMatch, TypeOK
<1>5. conns' \in [Conns -> ConnRec]
  <2>3. conns[a] \in ConnRec /\ conns[b] \in ConnRec
    BY DEF TypeOK
  <2>4. m \in Matches \cup {NoMatch} /\ 0 \in Seats /\ 1 \in Seats /\ "packing" \in ConnStates
    BY SlotFacts DEF ConnStates
  <2>1. /\ [conns[a] EXCEPT !.state = "packing", !.match = m, !.seat = 0] \in ConnRec
        /\ [conns[b] EXCEPT !.state = "packing", !.match = m, !.seat = 1] \in ConnRec
    BY <2>3, <2>4 DEF ConnRec
  <2>2. conns' = [conns EXCEPT ![a] = [conns[a] EXCEPT !.state = "packing", !.match = m, !.seat = 0],
                               ![b] = [conns[b] EXCEPT !.state = "packing", !.match = m, !.seat = 1]]
    BY <1>1, <1>2 DEF StartMatch, TypeOK
  <2> QED BY <2>1, <2>2 DEF TypeOK
<1>6. /\ ahead' \subseteq Conns \X Conns /\ connDue' \subseteq Conns
      /\ matchDue' \subseteq Matches /\ closing' \subseteq Conns
  BY <1>1, DequeuedTypes, SendTypes DEF StartMatch, SendTo, TypeOK
<1>7. lastEnd' = lastEnd /\ UNCHANGED <<phase, at, pairing>>
  BY DEF Pair, loop
<1>8. LoopOK'
  BY <1>7 DEF LoopOK, TypeOK
<1>9. TablesOK'
  BY <1>4, <1>5, <1>6, <1>7 DEF TablesOK, TypeOK
<1> QED BY <1>3, <1>8, <1>9 DEF Kept

LEMMA ServerKeeps == ASSUME Agreed, Server PROVE LoopOK' /\ Kept
<1> USE DEF Agreed
<1>1. CASE Pair
  BY <1>1, PairKeeps
<1>2. CASE PairingDone
  BY <1>2, QuietKeeps DEF PairingDone, LoopOK, TypeOK
<1>3. CASE Sweep
  BY <1>3, SlotFacts, QuitKeeps DEF Sweep, LoopOK, TypeOK
<1>4. CASE SweepOver
  BY <1>4, QuietKeeps DEF SweepOver, LoopOK, TypeOK, Phases
<1>5. CASE ExpireHellos
  <2> DEFINE silent == InState("connected") \cap connDue
  <2>1. /\ \A c \in silent : conns[c].state \notin InMatch
        /\ FreeConn \in ConnRec /\ FreeConn.state \notin InMatch
    BY BlankTypes DEF InState, InMatch, FreeConn
  <2>2. /\ conns' = [c \in Conns |-> IF c \in silent THEN FreeConn ELSE conns[c]]
        /\ closing' \subseteq Conns /\ connDue' \subseteq Conns
        /\ lastEnd' = NoEnd /\ UNCHANGED <<ahead, matches, matchDue>>
    BY <1>5 DEF ExpireHellos, TypeOK
  <2> HIDE DEF silent
  <2>3. /\ conns' \in [Conns -> ConnRec]
        /\ \A c \in Conns : conns[c].state \in InMatch \/ conns'[c].state \in InMatch
                              => conns'[c] = conns[c]
    BY <2>1, <2>2 DEF TypeOK
  <2>4. Kept
    BY <2>2, <2>3, QuietKeeps DEF TypeOK
  <2> QED BY <1>5, <2>4 DEF ExpireHellos, LoopOK, TypeOK, Phases
<1>6. ASSUME NEW m \in Matches, ExpireMatch(m)
      PROVE  LoopOK' /\ Kept
  <2>1. LoopOK' /\ UNCHANGED <<ahead, connDue>>
    BY <1>6, SlotFacts DEF ExpireMatch, LoopOK, TypeOK, Phases
  <2>2. CASE lastEnd' = NoEnd /\ UNCHANGED <<conns, closing, matches, matchDue>>
    BY <2>1, <2>2, QuietKeeps DEF TypeOK
  <2>3. CASE matches[m].active /\ StartCombat(m, matches[m]) /\ lastEnd' = NoEnd
    <3>1. /\ matches[m].ready \in [Seats -> BOOLEAN]
          /\ matches[m] = [matches[m] EXCEPT !.ready = matches[m].ready]
      BY DEF TypeOK, MatchRec
    <3> QED BY <2>1, <2>3, <3>1, StartCombatKeeps
  <2>4. CASE ResolveBreak(m, matches[m]) /\ lastEnd' = NoEnd /\ UNCHANGED conns
    <3>1. /\ matches[m].call \in [Seats -> Calls \cup {NoCall}]
          /\ matches[m] = [matches[m] EXCEPT !.call = matches[m].call]
      BY DEF TypeOK, MatchRec
    <3> QED BY <2>1, <2>4, <3>1, ResolveBreakKeeps
  <2>5. CASE matches[m].active /\ RunTick(m)
    BY <2>1, <2>5, RunTickKeeps
  <2> QED BY <1>6, <2>2, <2>3, <2>4, <2>5 DEF ExpireMatch
<1>7. ASSUME NEW m \in Matches, StopMatch(m)
      PROVE  LoopOK' /\ Kept
  <2>1. LoopOK' /\ UNCHANGED <<ahead, connDue>>
    BY <1>7, SlotFacts DEF StopMatch, LoopOK, TypeOK
  <2>2. CASE m \notin FreeMatches
    <3>1. /\ matches[m].active /\ EndMatch(m, matches[m], "server")
          /\ conns' = Released(Players(m)) /\ SendTo(Players(m))
      BY <1>7, <2>2 DEF StopMatch, FreeMatches
    <3> QED BY <2>1, <3>1, HullTypes, ReleaseKeeps DEF Reasons
  <2>3. CASE m \in FreeMatches
    BY <1>7, <2>1, <2>3, QuietKeeps DEF StopMatch, TypeOK
  <2> QED BY <2>1, <2>2, <2>3
<1>8. CASE StopConn
  <2>1. CASE \E c \in Conns : Quit(c, "free") /\ UNCHANGED phase
    BY <1>8, <2>1, QuitKeeps DEF StopConn, LoopOK, TypeOK
  <2>2. CASE /\ phase' = "stopped"
             /\ UNCHANGED <<conns, closing, ahead, matches, lastEnd, connDue, matchDue>>
    BY <1>8, <2>2, QuietKeeps DEF StopConn, LoopOK, TypeOK, Phases
  <2> QED BY <1>8, <2>1, <2>2 DEF StopConn
<1> QED BY <1>1, <1>2, <1>3, <1>4, <1>5, <1>6, <1>7, <1>8 DEF Server

LEMMA InitAgreed == Init => Agreed
<1> SUFFICES ASSUME Init PROVE Agreed
  OBVIOUS
<1>1. TypeOK
  BY BlankTypes DEF Init, TypeOK, Phases
<1>2. MatchesAgree
  BY BlankTypes DEF Init, MatchesAgree, FreeConn, InMatch
<1> QED BY <1>1, <1>2 DEF Agreed

\* Every step keeps the types and the agreement of the two tables.
LEMMA NextAgreed == Agreed /\ [Next]_vars => Agreed'
<1> SUFFICES ASSUME Agreed, [Next]_vars PROVE LoopOK' /\ Kept
  BY DEF Kept, TablesOK, LoopOK, Agreed, TypeOK
<1> USE DEF Agreed
<1>1. CASE Clients
  BY <1>1, ClientsKeep
<1>2. CASE Server
  BY <1>2, ServerKeeps
<1>3. CASE ReadNext
  BY <1>3, SlotFacts, QuietKeeps DEF ReadNext, LoopOK, TypeOK
<1>4. CASE ReadsOver
  BY <1>4, QuietKeeps DEF ReadsOver, LoopOK, TypeOK, Phases
<1>5. CASE Clock
  <2>1. /\ UNCHANGED <<loop, conns, closing, ahead, matches, lastEnd>>
        /\ connDue' \subseteq Conns /\ matchDue' \subseteq Matches
    BY <1>5 DEF Clock, ConnTimer, MatchTimer, TypeOK
  <2> QED BY <2>1, QuietKeeps DEF loop, LoopOK, TypeOK
<1>6. CASE Stop
  BY <1>6, QuietKeeps DEF Stop, LoopOK, TypeOK, Phases
<1>7. CASE UNCHANGED vars
  BY <1>7, QuietKeeps DEF vars, LoopOK, TypeOK
<1> QED BY <1>1, <1>2, <1>3, <1>4, <1>5, <1>6, <1>7 DEF Next, Stopped

\* The state of main.c stays within its types, whatever the sizes of the
\* tables: no step of any handler writes a value its field cannot hold.
THEOREM TypeCorrect == Spec => []TypeOK
<1>1. Agreed => TypeOK
  BY DEF Agreed
<1> QED BY <1>1, InitAgreed, NextAgreed, PTL DEF Spec

\* The unchecked accesses through c->match and c->seat are sound: a connection
\* that packs or fights is where its active match says, and conversely.
THEOREM TablesAgree == Spec => []MatchesAgree
<1>1. Agreed => MatchesAgree
  BY DEF Agreed
<1> QED BY <1>1, InitAgreed, NextAgreed, PTL DEF Spec

-----------------------------------------------------------------------------
(* The queue, and the life of a match, for tables of every size, rounds    *)
(* and timeouts of every length.  `ahead` orders the queue, so that        *)
(* somebody in it is the oldest; nobody waits alone for a deadline, a      *)
(* wreck does not fight on, and the verdict is the ships'.                 *)

Queued == InState("queued")

-----------------------------------------------------------------------------
(* The match table has room for whoever may be paired: two queued players  *)
(* leave fewer connections than a full table of matches would hold.        *)

\* The connection of seat i % 2 of match (i + 1) \div 2.
PlayerAt(i) == matches[(i + 1) \div 2].conn[i % 2]

LEMMA PlaceIs ==
  ASSUME NEW i \in 1 .. 2 * MaxMatches
  PROVE  /\ (i + 1) \div 2 \in Matches /\ i % 2 \in Seats
         /\ i = 2 * ((i + 1) \div 2) - (i % 2)
<1>1. i \in Nat /\ MaxMatches \in Nat
  BY SizesAssumption
<1>2. PICK k \in Nat : i = 2 * k \/ i = 2 * k + 1
  <2>1. i \div 2 \in Nat /\ (i = 2 * (i \div 2) \/ i = 2 * (i \div 2) + 1)
    BY <1>1
  <2> QED BY <2>1
<1>3. CASE i = 2 * k
  <2>1. (i + 1) \div 2 = k /\ i % 2 = 0
    BY <1>3
  <2>2. k \in Matches
    BY <1>1, <1>3 DEF Matches
  <2> QED BY <1>3, <2>1, <2>2 DEF Seats
<1>4. CASE i = 2 * k + 1
  <2>1. (i + 1) \div 2 = k + 1 /\ i % 2 = 1
    BY <1>4
  <2>2. k + 1 \in Matches
    BY <1>1, <1>4 DEF Matches
  <2> QED BY <1>4, <2>1, <2>2 DEF Seats
<1> QED BY <1>2, <1>3, <1>4

LEMMA RoomForTwo ==
  ASSUME Agreed, NEW a \in Queued, NEW b \in Queued, a # b
  PROVE  FreeMatches # {}
<1> SUFFICES ASSUME FreeMatches = {}
             PROVE  FALSE
  OBVIOUS
<1> DEFINE I == 1 .. 2 * MaxMatches
           T == (Conns \ {a}) \ {b}
           f == [i \in I |-> PlayerAt(i)]
<1>1. /\ a \in Conns /\ b \in Conns
      /\ conns[a].state = "queued" /\ conns[b].state = "queued"
  BY DEF Queued, InState
<1>2. ASSUME NEW i \in I
      PROVE  /\ f[i] \in T
             /\ conns[f[i]].match = (i + 1) \div 2 /\ conns[f[i]].seat = i % 2
  <2> DEFINE m == (i + 1) \div 2
             s == i % 2
  <2>1. m \in Matches /\ s \in Seats /\ f[i] = matches[m].conn[s]
    BY PlaceIs DEF PlayerAt
  <2> HIDE DEF m, s, f
  <2>2. matches[m].active
    BY <2>1 DEF FreeMatches
  <2>3. /\ conns[f[i]].state \in InMatch /\ conns[f[i]].match = m /\ conns[f[i]].seat = s
        /\ f[i] \in Conns
    BY <2>1, <2>2 DEF Agreed, MatchesAgree, TypeOK, MatchRec
  <2>4. f[i] # a /\ f[i] # b
    BY <1>1, <2>3 DEF InMatch
  <2> QED BY <2>3, <2>4 DEF m, s
<1>3. f \in [I -> T]
  BY <1>2
<1>4. /\ IsFiniteSet(Conns) /\ Cardinality(Conns) = MaxConns
      /\ IsFiniteSet(I) /\ Cardinality(I) = 2 * MaxMatches
  BY SizesAssumption, FS_Interval DEF Conns
<1>5. IsFiniteSet(T) /\ Cardinality(T) = MaxConns - 2
  <2>1. IsFiniteSet(Conns \ {a}) /\ Cardinality(Conns \ {a}) = MaxConns - 1
    BY <1>1, <1>4, FS_RemoveElement
  <2>2. b \in Conns \ {a}
    BY <1>1
  <2>3. IsFiniteSet(T) /\ Cardinality(T) = (MaxConns - 1) - 1
    BY <2>1, <2>2, FS_RemoveElement
  <2> QED BY <2>3, SizesAssumption
<1>6. Cardinality(T) < Cardinality(I)
  BY <1>4, <1>5, SizesAssumption, SlotsAssumption
<1> HIDE DEF f, T
<1>7. PICK i \in I, j \in I : i # j /\ f[i] = f[j]
  BY <1>3, <1>4, <1>5, <1>6, FS_PigeonHole
<1>8. (i + 1) \div 2 = (j + 1) \div 2 /\ i % 2 = j % 2
  BY <1>2, <1>7
<1>9. i = 2 * ((i + 1) \div 2) - (i % 2) /\ j = 2 * ((j + 1) \div 2) - (j % 2)
  BY PlaceIs
<1> QED BY <1>7, <1>8, <1>9

\* start_match never has to give up.
LEMMA NeverShort == Agreed => NoMatchShortage
<1> SUFFICES ASSUME Agreed, NEW a \in Conns, NEW b \in Conns, Picks(a, b)
             PROVE  FreeMatches # {}
  BY DEF NoMatchShortage
<1> QED BY PickedAreQueued, RoomForTwo DEF Queued, InState

-----------------------------------------------------------------------------
(* The order of the queue.                                                 *)

QueueOrder ==
  /\ ahead \subseteq Queued \X Queued
  /\ \A a, b \in Queued : a # b => (<<a, b>> \in ahead <=> <<b, a>> \notin ahead)
  /\ \A a \in Queued : <<a, a>> \notin ahead
  /\ \A a, b, c \in Queued : <<a, b>> \in ahead /\ <<b, c>> \in ahead => <<a, c>> \in ahead

\* Whoever has the fewest ahead of it has none.
LEMMA OldestExists ==
  ASSUME QueueOrder, NEW S, S \subseteq Queued, S # {}
  PROVE  \E c \in S : IsOldest(c, S)
<1> DEFINE before(c) == {d \in S : <<d, c>> \in ahead}
           counts == {Cardinality(before(c)) : c \in S}
<1>1. IsFiniteSet(S)
  <2>1. IsFiniteSet(Conns) /\ S \subseteq Conns
    BY SizesAssumption, FS_Interval DEF Conns, Queued, InState
  <2> QED BY <2>1, FS_Subset
<1>2. \A c \in S : IsFiniteSet(before(c)) /\ Cardinality(before(c)) \in Nat
  BY <1>1, FS_Subset, FS_CardinalityType
<1>3. counts \subseteq Nat /\ counts # {}
  BY <1>2
<1>4. PICK n \in counts : \A k \in counts : ~(<<k, n>> \in OpToRel(<, Nat))
  <2> HIDE DEF counts
  <2> QED BY <1>3, NatLessThanWellFounded, WFMin
<1>5. PICK c \in S : n = Cardinality(before(c))
  OBVIOUS
<1>6. ASSUME NEW d \in S, d # c, <<c, d>> \notin ahead
      PROVE  FALSE
  <2>1. <<d, c>> \in ahead
    BY <1>6 DEF QueueOrder
  <2>2. before(d) \subseteq before(c)
    BY <2>1 DEF QueueOrder
  <2>3. d \in before(c) /\ d \notin before(d)
    BY <2>1 DEF QueueOrder
  <2> DEFINE B == before(c)
             D == before(d)
  <2>4. IsFiniteSet(B) /\ D \in SUBSET B /\ D # B
    BY <1>2, <2>2, <2>3
  <2>5. Cardinality(B) \in Nat /\ Cardinality(D) \in Nat
    BY <1>2
  <2>6. Cardinality(D) < Cardinality(B)
    <3> HIDE DEF B, D
    <3> QED BY <2>4, <2>5, FS_Subset
  <2>7. Cardinality(D) \in counts /\ n = Cardinality(B)
    BY <1>5
  <2> HIDE DEF B, D, counts
  <2> QED BY <1>4, <2>5, <2>6, <2>7 DEF OpToRel
<1> QED BY <1>6 DEF IsOldest

\* Two humans in the queue can be paired.
LEMMA HumansArePicked ==
  ASSUME QueueOrder, NEW x \in QueuedOf("human"), NEW y \in QueuedOf("human"), x # y
  PROVE  \E a, b \in Conns : Picks(a, b)
<1> DEFINE humans == QueuedOf("human")
<1>1. humans \subseteq Queued /\ humans \subseteq Conns
  BY DEF QueuedOf, Queued, InState
<1>2. PICK a \in humans : IsOldest(a, humans)
  BY <1>1, OldestExists
<1>3. PICK b \in humans \ {a} : IsOldest(b, humans \ {a})
  BY <1>1, OldestExists
<1> QED BY <1>1, <1>2, <1>3 DEF Picks

-----------------------------------------------------------------------------
(* What a step does to the queue.                                          *)

\* The connections of S leave the queue, or were not in it.
Drops(S) ==
  /\ Queued' = Queued \ S
  /\ ahead' = Dequeued(S)
  /\ \A c \in Conns : conns'[c].state = "queued" => conns'[c] = conns[c]

\* Nobody goes from the queue into a match.
NoStart ==
  \A c \in Conns : conns[c].state = "queued" => conns'[c].state # "packing"

\* A step that moves nobody into the queue or out of it, but for S, and starts
\* no match.
LEMMA OthersStay ==
  ASSUME NEW S, ahead' = Dequeued(S),
         \A c \in Conns \cap S : conns'[c].state \notin {"queued", "packing"},
         \A c \in Conns \ S :
           \/ conns'[c] = conns[c]
           \/ conns[c].state # "queued" /\ conns'[c].state # "queued"
  PROVE  Drops(S) /\ NoStart
BY DEF Drops, NoStart, Queued, InState

LEMMA NobodyMoves ==
  ASSUME Agreed, UNCHANGED ahead,
         \A c \in Conns :
           \/ conns'[c] = conns[c]
           \/ conns[c].state # "queued" /\ conns'[c].state # "queued"
  PROVE  Drops({}) /\ NoStart
<1>1. ahead' = Dequeued({})
  BY DEF Dequeued
<1> QED BY <1>1, OthersStay

\* The end of a match frees players, and they were not in the queue.
LEMMA ReleasedStay ==
  ASSUME Agreed, NEW P, NEW c \in Conns
  PROVE  \/ Released(P)[c] = conns[c]
         \/ conns[c].state # "queued" /\ Released(P)[c].state = "ready"
<1>1. conns[c] \in ConnRec
  BY DEF Agreed, TypeOK
<1>2. CASE c \in P /\ conns[c].state \in InMatch
  <2>1. Released(P)[c] = [conns[c] EXCEPT !.state = "ready", !.match = NoMatch]
    BY <1>2 DEF Released
  <2> QED BY <1>1, <1>2, <2>1 DEF ConnRec, InMatch
<1>3. CASE ~(c \in P /\ conns[c].state \in InMatch)
  BY <1>3 DEF Released
<1> QED BY <1>2, <1>3

LEMMA QuitDrops ==
  ASSUME Agreed, NEW c \in Conns, NEW to \in {"ready", "free"}, Quit(c, to)
  PROVE  Drops({c}) /\ NoStart
<1> DEFINE m == conns[c].match
           gone(f) == [f EXCEPT ![c] =
                         IF to = "free" THEN FreeConn
                         ELSE IF @.state = "queued" THEN [@ EXCEPT !.state = to]
                         ELSE @]
           rel == Released(Players(m))
<1>1. ahead' = Dequeued({c})
  BY DEF Quit
<1>2. \/ Plays(c) /\ conns' = gone(rel)
      \/ ~Plays(c) /\ conns' = gone(conns)
  BY DEF Quit
<1>3. ASSUME NEW f \in [Conns -> ConnRec]
      PROVE  /\ to = "free" => gone(f)[c] = FreeConn
             /\ to = "ready" /\ f[c].state = "queued" => gone(f)[c].state = "ready"
             /\ to = "ready" /\ f[c].state # "queued" => gone(f)[c] = f[c]
             /\ \A d \in Conns \ {c} : gone(f)[d] = f[d]
  <2>1. f[c].state = "queued" => [f[c] EXCEPT !.state = "ready"].state = "ready"
    <3>1. f[c] \in ConnRec
      OBVIOUS
    <3> QED BY <3>1 DEF ConnRec
  <2>2. CASE to = "free"
    BY <2>2
  <2>3. CASE to = "ready"
    BY <2>1, <2>3
  <2> QED BY <2>2, <2>3
<1>4. conns \in [Conns -> ConnRec]
  BY DEF Agreed, TypeOK
<1>5. CASE Plays(c)
  <2>1. /\ m \in Matches /\ matches[m].active /\ c \in Players(m)
        /\ Players(m) \subseteq Conns
    BY <1>5, PlayerFacts, PlayersAreConns DEF Plays, Players, Agreed
  <2>2. rel \in [Conns -> ConnRec]
    BY <2>1, ReleasedTypes DEF Agreed
  <2>3. /\ conns[c].state \in InMatch
        /\ \A d \in Conns : \/ rel[d] = conns[d]
                            \/ conns[d].state # "queued" /\ rel[d].state = "ready"
    BY <1>5, ReleasedStay DEF Plays
  <2>4. rel[c].state \notin InMatch
    BY <2>1, ReleasedPlayers DEF Agreed
  <2>5. conns' = gone(rel)
    BY <1>2, <1>5
  <2> HIDE DEF rel
  <2>6. /\ to = "free" => conns'[c] = FreeConn
        /\ to = "ready" => conns'[c].state = "ready" \/ conns'[c] = rel[c]
        /\ \A d \in Conns \ {c} : conns'[d] = rel[d]
    <3> HIDE DEF gone
    <3> QED BY <1>3, <2>2, <2>5
  <2> HIDE DEF gone
  <2>7. conns'[c].state \notin {"queued", "packing"}
    BY <2>3, <2>4, <2>6 DEF FreeConn, InMatch
  <2>8. \A d \in Conns \ {c} : \/ conns'[d] = conns[d]
                               \/ conns[d].state # "queued" /\ conns'[d].state # "queued"
    BY <2>3, <2>6
  <2> QED BY <1>1, <2>7, <2>8, OthersStay
<1>6. CASE ~Plays(c)
  <2>1. conns' = gone(conns)
    BY <1>2, <1>6
  <2>2. conns[c].state \notin InMatch
    BY <1>6, PlayerFacts DEF Plays
  <2>3. /\ to = "free" => conns'[c] = FreeConn
        /\ to = "ready" /\ conns[c].state = "queued" => conns'[c].state = "ready"
        /\ to = "ready" /\ conns[c].state # "queued" => conns'[c] = conns[c]
        /\ \A d \in Conns \ {c} : conns'[d] = conns[d]
    <3> HIDE DEF gone
    <3> QED BY <1>3, <1>4, <2>1
  <2>4. conns'[c].state \notin {"queued", "packing"}
    BY <2>2, <2>3 DEF FreeConn, InMatch
  <2> QED BY <1>1, <2>3, <2>4, OthersStay
<1> QED BY <1>5, <1>6

\* A pair leaves the queue together.
LEMMA PairDrops ==
  ASSUME Agreed, NEW a \in Conns, NEW b \in Conns, a # b, NEW m, StartMatch(a, b, m)
  PROVE  /\ Drops({a, b})
         /\ conns'[a].state = "packing" /\ conns'[b].state = "packing"
         /\ \A c \in Conns \ {a, b} : conns'[c] = conns[c]
<1>1. /\ conns'[a].state = "packing" /\ conns'[b].state = "packing"
      /\ \A c \in Conns \ {a, b} : conns'[c] = conns[c]
  BY DEF StartMatch, Agreed, TypeOK, ConnRec
<1>2. ahead' = Dequeued({a, b})
  BY DEF StartMatch
<1> QED BY <1>1, <1>2 DEF Drops, Queued, InState

\* What a step that is no QUEUE and starts no match leaves of the queue.  While
\* try_pair is at work, nothing.
Leaves == \E S : Drops(S) /\ NoStart

LEMMA CombatLeaves ==
  ASSUME Agreed, NEW m \in Matches, matches[m].active, NEW mt, StartCombat(m, mt),
         UNCHANGED ahead
  PROVE  Leaves
<1>1. ASSUME NEW c \in Conns
      PROVE  \/ conns'[c] = conns[c]
             \/ conns[c].state # "queued" /\ conns'[c].state # "queued"
  <2>1. CASE c \notin Players(m)
    BY <2>1 DEF StartCombat
  <2>2. CASE c \in Players(m)
    <3>1. conns[c].state \in InMatch /\ conns[c] \in ConnRec
      BY <2>2 DEF Agreed, TypeOK, MatchesAgree, Players
    <3>2. conns'[c] = [conns[c] EXCEPT !.state = "combat"]
      BY <2>2 DEF StartCombat
    <3> QED BY <3>1, <3>2 DEF ConnRec, InMatch
  <2> QED BY <2>1, <2>2
<1> QED BY <1>1, NobodyMoves DEF Leaves

LEMMA ReleaseLeaves ==
  ASSUME Agreed, NEW P, conns' = Released(P), UNCHANGED ahead
  PROVE  Leaves
<1>1. \A c \in Conns : \/ conns'[c] = conns[c]
                       \/ conns[c].state # "queued" /\ conns'[c].state # "queued"
  BY ReleasedStay
<1> QED BY <1>1, NobodyMoves DEF Leaves

LEMMA StillLeaves ==
  ASSUME Agreed, UNCHANGED <<conns, ahead>>
  PROVE  Leaves
BY NobodyMoves DEF Leaves

\* try_pair runs from a QUEUE, or at the head of expire_timers.
PairPhase == pairing => phase \in {"io", "hello"}

LEMMA ClientsLeave ==
  ASSUME Agreed, Clients
  PROVE  /\ ~pairing /\ PairPhase'
         /\ (\E c \in Conns : Queue(c)) \/ Leaves
<1>1. CASE Accept
  <2>1. PICK c \in Conns :
          /\ FirstOf(c, InState("free"))
          /\ conns' = [conns EXCEPT ![c] = [FreeConn EXCEPT !.state = "connected"]]
    BY <1>1 DEF Accept
  <2>2. [FreeConn EXCEPT !.state = "connected"].state = "connected"
    BY DEF FreeConn
  <2>3. conns[c].state = "free" /\ conns'[c].state = "connected"
    BY <2>1, <2>2 DEF FirstOf, InState, Agreed, TypeOK
  <2>4. \A d \in Conns \ {c} : conns'[d] = conns[d]
    BY <2>1 DEF Agreed, TypeOK
  <2>5. UNCHANGED ahead /\ ~pairing /\ UNCHANGED loop
    BY <1>1 DEF Accept, InLoop
  <2> QED BY <2>3, <2>4, <2>5, NobodyMoves DEF Leaves, PairPhase, loop
<1>2. ASSUME NEW c \in Conns, NEW kind \in Clientele, Hello(c, kind)
      PROVE  ~pairing /\ PairPhase' /\ Leaves
  <2>1. /\ conns[c].state = "connected" /\ UNCHANGED ahead /\ ~pairing /\ UNCHANGED loop
        /\ conns' = [conns EXCEPT ![c].state = "ready", ![c].kind = kind]
    BY <1>2 DEF Hello, Heard, Read, InLoop
  <2>2. conns'[c].state = "ready" /\ \A d \in Conns \ {c} : conns'[d] = conns[d]
    BY <2>1 DEF Agreed, TypeOK, ConnRec
  <2> QED BY <2>1, <2>2, NobodyMoves DEF Leaves, PairPhase, loop
<1>3. ASSUME NEW c \in Conns, Queue(c)
      PROVE  ~pairing /\ PairPhase'
  BY <1>3 DEF Queue, Heard, Read, InLoop, PairPhase
<1>4. ASSUME NEW c \in Conns, Ready(c)
      PROVE  ~pairing /\ PairPhase' /\ Leaves
  <2> DEFINE m == conns[c].match
             mt == [matches[m] EXCEPT !.ready[conns[c].seat] = TRUE]
  <2>1. conns[c].state = "packing" /\ UNCHANGED ahead /\ ~pairing /\ UNCHANGED loop
    BY <1>4 DEF Ready, Heard, Read, InLoop
  <2>2. StartCombat(m, mt) \/ UNCHANGED conns
    BY <1>4 DEF Ready
  <2>3. m \in Matches /\ matches[m].active
    BY <2>1, PlayerFacts DEF InMatch
  <2>4. Leaves
    <3> HIDE DEF m, mt
    <3> QED BY <2>1, <2>2, <2>3, CombatLeaves, StillLeaves
  <2> QED BY <2>1, <2>4 DEF PairPhase, loop
<1>5. ASSUME NEW c \in Conns, NEW call \in Calls, RoundCall(c, call)
      PROVE  ~pairing /\ PairPhase' /\ Leaves
  BY <1>5, StillLeaves DEF RoundCall, Heard, Read, InLoop, PairPhase, loop
<1>6. ASSUME NEW c \in Conns, Leave(c)
      PROVE  ~pairing /\ PairPhase' /\ Leaves
  BY <1>6, QuitDrops DEF Leave, Heard, Read, InLoop, Leaves, PairPhase, loop
<1>7. ASSUME NEW c \in Conns, Refuse(c)
      PROVE  ~pairing /\ PairPhase' /\ Leaves
  BY <1>7, StillLeaves DEF Refuse, Heard, Read, InLoop, PairPhase, loop
<1>8. ASSUME NEW c \in Conns, Disconnect(c)
      PROVE  ~pairing /\ PairPhase' /\ Leaves
  BY <1>8, QuitDrops DEF Disconnect, Read, InLoop, Leaves, PairPhase, loop
<1> QED BY <1>1, <1>2, <1>3, <1>4, <1>5, <1>6, <1>7, <1>8 DEF Clients

LEMMA ServerLeaves ==
  ASSUME Agreed, PairPhase, Server
  PROVE  /\ PairPhase'
         /\ Pair \/ PairingDone \/ (~pairing /\ Leaves)
<1>1. CASE Pair \/ PairingDone
  BY <1>1 DEF Pair, PairingDone, PairPhase, loop
<1>2. CASE Sweep
  BY <1>2, QuitDrops DEF Sweep, Leaves, PairPhase
<1>3. CASE SweepOver
  BY <1>3, StillLeaves DEF SweepOver, PairPhase
<1>4. CASE ExpireHellos
  <2> DEFINE silent == InState("connected") \cap connDue
  <2>1. /\ conns' = [c \in Conns |-> IF c \in silent THEN FreeConn ELSE conns[c]]
        /\ UNCHANGED ahead /\ ~pairing /\ UNCHANGED pairing
    BY <1>4 DEF ExpireHellos
  <2>2. \A c \in silent : conns[c].state = "connected"
    BY DEF InState
  <2> HIDE DEF silent
  <2>3. ASSUME NEW c \in Conns
        PROVE  \/ conns'[c] = conns[c]
               \/ conns[c].state # "queued" /\ conns'[c].state # "queued"
    BY <2>1, <2>2 DEF FreeConn
  <2> QED BY <2>1, <2>3, NobodyMoves DEF Leaves, PairPhase
<1>5. ASSUME NEW m \in Matches, ExpireMatch(m)
      PROVE  ~pairing /\ PairPhase' /\ Leaves
  <2>1. ~pairing /\ UNCHANGED <<pairing, ahead>>
    BY <1>5 DEF ExpireMatch, PairPhase
  <2>2. \/ UNCHANGED conns
        \/ matches[m].active /\ StartCombat(m, matches[m])
        \/ matches[m].active /\ RunTick(m)
    BY <1>5 DEF ExpireMatch
  <2>3. RunTick(m) => UNCHANGED conns \/ conns' = Released(Players(m))
    BY DEF RunTick
  <2> QED BY <2>1, <2>2, <2>3, StillLeaves, CombatLeaves, ReleaseLeaves DEF PairPhase
<1>6. ASSUME NEW m \in Matches, StopMatch(m)
      PROVE  ~pairing /\ PairPhase' /\ Leaves
  <2>1. /\ ~pairing /\ UNCHANGED <<pairing, ahead>>
        /\ UNCHANGED conns \/ conns' = Released(Players(m))
    BY <1>6 DEF StopMatch, PairPhase
  <2> QED BY <2>1, StillLeaves, ReleaseLeaves DEF PairPhase
<1>7. CASE StopConn
  <2>1. ~pairing /\ UNCHANGED pairing
    BY <1>7 DEF StopConn, PairPhase
  <2>2. \/ \E c \in Conns : Quit(c, "free")
        \/ UNCHANGED <<conns, ahead>>
    BY <1>7 DEF StopConn
  <2> QED BY <2>1, <2>2, QuitDrops, StillLeaves DEF Leaves, PairPhase
<1> QED BY <1>1, <1>2, <1>3, <1>4, <1>5, <1>6, <1>7 DEF Server

\* Every step there is, by what it does to the queue.
LEMMA StepKinds ==
  ASSUME Agreed, PairPhase, [Next]_vars
  PROVE  /\ PairPhase'
         /\ \/ \E c \in Conns : Queue(c)
            \/ Pair
            \/ PairingDone
            \/ Leaves /\ (pairing => pairing' /\ UNCHANGED conns)
<1>1. CASE Clients
  BY <1>1, ClientsLeave
<1>2. CASE Server
  BY <1>2, ServerLeaves
<1>3. CASE ReadNext \/ ReadsOver \/ Stop
  BY <1>3, StillLeaves DEF ReadNext, ReadsOver, Stop, InLoop, PairPhase
<1>4. CASE Clock
  BY <1>4, StillLeaves DEF Clock, ConnTimer, MatchTimer, PairPhase, loop
<1>5. CASE UNCHANGED vars
  BY <1>5, StillLeaves DEF vars, PairPhase
<1> QED BY <1>1, <1>2, <1>3, <1>4, <1>5 DEF Next, Stopped

-----------------------------------------------------------------------------
(* The order of the queue is kept, and what follows from it.               *)

LEMMA DropsKeepOrder ==
  ASSUME QueueOrder, NEW S, Drops(S)
  PROVE  QueueOrder'
<1>1. Queued' = Queued \ S /\ ahead' = Dequeued(S)
  BY DEF Drops
<1>2. \A a, b : <<a, b>> \in ahead' <=> <<a, b>> \in ahead /\ a \notin S /\ b \notin S
  BY <1>1 DEF Dequeued
<1>3. ahead' \subseteq Queued' \X Queued'
  BY <1>1 DEF Dequeued, QueueOrder
<1> QED BY <1>1, <1>2, <1>3 DEF QueueOrder

LEMMA QueueKeepsOrder ==
  ASSUME Agreed, QueueOrder, NEW c \in Conns, Queue(c)
  PROVE  QueueOrder'
<1>1. /\ conns[c].state = "ready"
      /\ conns' = [conns EXCEPT ![c].state = "queued"]
      /\ ahead' = ahead \cup (Queued \X {c})
  BY DEF Queue, Queued
<1>2. conns'[c].state = "queued" /\ \A d \in Conns \ {c} : conns'[d] = conns[d]
  BY <1>1 DEF Agreed, TypeOK, ConnRec
<1>3. c \notin Queued /\ Queued' = Queued \cup {c}
  BY <1>1, <1>2 DEF Queued, InState
<1>4. \A a, b : <<a, b>> \in ahead' <=> <<a, b>> \in ahead \/ (a \in Queued /\ b = c)
  BY <1>1
<1>5. ahead' \subseteq Queued' \X Queued'
  BY <1>1, <1>3 DEF QueueOrder
<1>6. \A a, b : <<a, b>> \in ahead => a \in Queued /\ b \in Queued
  BY DEF QueueOrder
<1> QED BY <1>3, <1>4, <1>5, <1>6 DEF QueueOrder

QueueInv == Agreed /\ PairPhase /\ QueueOrder /\ HumansPairAtOnce

LEMMA QueueInit == Init => QueueInv
<1> SUFFICES ASSUME Init PROVE QueueInv
  OBVIOUS
<1>1. conns = [c \in Conns |-> FreeConn] /\ ahead = {} /\ pairing = FALSE
  BY DEF Init
<1>2. Queued = {} /\ QueuedOf("human") = {}
  BY <1>1 DEF Queued, QueuedOf, InState, FreeConn
<1>3. QueueOrder
  BY <1>1, <1>2 DEF QueueOrder
<1> QED BY <1>1, <1>2, <1>3, InitAgreed DEF QueueInv, PairPhase, HumansPairAtOnce

LEMMA QueueNext == QueueInv /\ [Next]_vars => QueueInv'
<1> SUFFICES ASSUME QueueInv, [Next]_vars PROVE QueueInv'
  OBVIOUS
<1> USE DEF QueueInv
<1>1. Agreed'
  BY NextAgreed
<1>2. CASE \E c \in Conns : Queue(c)
  <2>1. QueueOrder' /\ PairPhase'
    BY <1>2, QueueKeepsOrder, StepKinds
  <2>2. pairing'
    BY <1>2 DEF Queue
  <2> QED BY <1>1, <2>1, <2>2 DEF HumansPairAtOnce
<1>3. CASE Pair
  <2>1. PICK a \in Conns, b \in Conns, m \in Matches : Picks(a, b) /\ StartMatch(a, b, m)
    BY <1>3 DEF Pair
  <2>2. Drops({a, b})
    BY <2>1, PickedAreQueued, PairDrops
  <2>3. QueueOrder' /\ PairPhase'
    BY <2>2, DropsKeepOrder, StepKinds
  <2>4. pairing'
    BY <1>3 DEF Pair, loop
  <2> QED BY <1>1, <2>3, <2>4 DEF HumansPairAtOnce
<1>4. CASE PairingDone
  <2>1. QueueOrder' /\ PairPhase'
    BY <1>4, StepKinds DEF PairingDone, QueueOrder, Queued, InState
  <2>2. ~ \E a, b \in Conns : Picks(a, b)
    BY <1>4, NeverShort DEF PairingDone, NoMatchShortage
  <2>3. \A x, y \in QueuedOf("human") : x = y
    BY <2>2, HumansArePicked
  <2>4. HumansPairAtOnce'
    BY <1>4, <2>3 DEF PairingDone, HumansPairAtOnce, QueuedOf, InState
  <2> QED BY <1>1, <2>1, <2>4
<1>5. CASE Leaves /\ (pairing => pairing' /\ UNCHANGED conns)
  <2>1. PICK S : Drops(S)
    BY <1>5 DEF Leaves
  <2>2. QueueOrder' /\ PairPhase'
    BY <2>1, DropsKeepOrder, StepKinds
  <2>3. QueuedOf("human")' \subseteq QueuedOf("human")
    BY <2>1 DEF Drops, QueuedOf, InState
  <2> QED BY <1>1, <1>5, <2>2, <2>3 DEF HumansPairAtOnce
<1> QED BY <1>2, <1>3, <1>4, <1>5, StepKinds

LEMMA QueueAlways == Spec => []QueueInv
BY QueueInit, QueueNext, PTL DEF Spec

\* start_match never gives up for want of a slot, whatever ended the matches
\* before: who may be paired is.
THEOREM TableNeverShort == Spec => []NoMatchShortage
<1>1. QueueInv => NoMatchShortage
  BY NeverShort DEF QueueInv
<1> QED BY <1>1, QueueAlways, PTL

\* Two humans never wait side by side once try_pair has run.
THEOREM NoHumanWaitsForAHuman == Spec => []HumansPairAtOnce
<1>1. QueueInv => HumansPairAtOnce
  BY DEF QueueInv
<1> QED BY <1>1, QueueAlways, PTL

-----------------------------------------------------------------------------
(* Who goes from the queue into a match, and whom it leaves.               *)

\* Nobody is paired but by try_pair.
LEMMA OnlyPairStarts ==
  ASSUME QueueInv, [Next]_vars, NEW c \in Conns,
         conns[c].state = "queued", conns'[c].state = "packing"
  PROVE  Pair
<1> USE DEF QueueInv
<1>1. ASSUME NEW d \in Conns, Queue(d)
      PROVE  FALSE
  <2>1. conns[d].state = "ready" /\ conns' = [conns EXCEPT ![d].state = "queued"]
    BY <1>1 DEF Queue
  <2> QED BY <2>1 DEF Agreed, TypeOK, ConnRec
<1>2. CASE PairingDone
  BY <1>2 DEF PairingDone
<1>3. CASE Leaves
  BY <1>3 DEF Leaves, NoStart
<1> QED BY <1>1, <1>2, <1>3, StepKinds

LEMMA PairFacts ==
  ASSUME QueueInv, Pair
  PROVE  \E a, b \in Conns :
           /\ Picks(a, b) /\ a # b
           /\ conns'[a].state = "packing" /\ conns'[b].state = "packing"
           /\ \A c \in Conns \ {a, b} : conns'[c] = conns[c]
<1>1. PICK a \in Conns, b \in Conns, m \in Matches : Picks(a, b) /\ StartMatch(a, b, m)
  BY DEF Pair
<1>2. a # b
  BY <1>1, PickedAreQueued
<1>3. /\ conns'[a].state = "packing" /\ conns'[b].state = "packing"
      /\ \A c \in Conns \ {a, b} : conns'[c] = conns[c]
  BY <1>1, <1>2, PairDrops DEF QueueInv
<1> QED BY <1>1, <1>2, <1>3

LEMMA NobodyOvertakes ==
  ASSUME QueueInv, [Next]_vars, NEW p \in ahead,
         conns[p[1]].kind = conns[p[2]].kind,
         conns[p[2]].state = "queued", conns'[p[2]].state = "packing"
  PROVE  conns'[p[1]].state # "queued"
<1> USE DEF QueueInv
<1> DEFINE e == p[1]
           l == p[2]
           humans == QueuedOf("human")
           bots == QueuedOf("bot")
<1>1. e \in Queued /\ l \in Queued /\ <<e, l>> \in ahead /\ e # l
  BY DEF QueueOrder
<1>2. <<l, e>> \notin ahead
  BY <1>1 DEF QueueOrder
<1>3. /\ e \in Conns /\ l \in Conns /\ conns[e].state = "queued"
      /\ (e \in humans /\ l \in humans) \/ (e \in bots /\ l \in bots)
      /\ humans \cap bots = {}
  BY <1>1 DEF Queued, InState, QueuedOf, Agreed, TypeOK, ConnRec, Kinds
<1>4. Pair
  BY <1>3, OnlyPairStarts
<1>5. PICK a \in Conns, b \in Conns :
        /\ Picks(a, b) /\ a # b
        /\ conns'[a].state = "packing" /\ conns'[b].state = "packing"
        /\ \A c \in Conns \ {a, b} : conns'[c] = conns[c]
  BY <1>4, PairFacts
<1>6. l \in {a, b}
  BY <1>3, <1>5
<1>7. \/ IsOldest(a, humans) /\ IsOldest(b, humans \ {a})
      \/ humans = {a} /\ IsOldest(b, bots)
      \/ humans = {} /\ IsOldest(a, bots) /\ IsOldest(b, bots \ {a})
  BY <1>5 DEF Picks
<1> HIDE DEF e, l, humans, bots
<1>8. e \in {a, b}
  BY <1>1, <1>2, <1>3, <1>6, <1>7 DEF IsOldest
<1>9. conns'[e].state = "packing"
  BY <1>5, <1>8
<1> QED BY <1>9 DEF e

LEMMA BotsAreKept ==
  ASSUME QueueInv, [Next]_vars, pairing,
         QueuedOf("bot") # {}, QueuedOf("bot")' = {}
  PROVE  \E c \in QueuedOf("human") : conns'[c].state = "packing"
<1> USE DEF QueueInv
<1> DEFINE humans == QueuedOf("human")
           bots == QueuedOf("bot")
<1>1. PICK x : x \in bots
  OBVIOUS
<1>2. x \in Conns /\ conns[x].state = "queued" /\ conns[x].kind = "bot"
  BY <1>1 DEF QueuedOf, InState
<1>3. conns'[x] # conns[x]
  BY <1>2 DEF QueuedOf, InState
<1>4. Pair
  <2>1. ~ \E c \in Conns : Queue(c)
    BY DEF Queue, Heard, Read, InLoop
  <2>2. ~PairingDone
    BY <1>3 DEF PairingDone
  <2> QED BY <1>3, <2>1, <2>2, StepKinds
<1>5. PICK a \in Conns, b \in Conns :
        /\ Picks(a, b) /\ a # b
        /\ conns'[a].state = "packing" /\ conns'[b].state = "packing"
        /\ \A c \in Conns \ {a, b} : conns'[c] = conns[c]
  BY <1>4, PairFacts
<1>6. CASE a \in humans
  BY <1>5, <1>6
<1>7. CASE a \notin humans
  <2>1. bots \ {a, b} # {}
    BY <1>5, <1>7 DEF Picks, IsOldest
  <2>2. PICK y : y \in bots /\ y \notin {a, b}
    BY <2>1
  <2>3. y \in Conns /\ conns[y].state = "queued" /\ conns[y].kind = "bot"
    BY <2>2 DEF QueuedOf, InState
  <2>4. conns'[y] = conns[y]
    BY <1>5, <2>2, <2>3
  <2> QED BY <2>3, <2>4 DEF QueuedOf, InState
<1> QED BY <1>6, <1>7

\* First come, first served among players of a kind, in a queue of any length.
THEOREM FirstComeFirstServed == Spec => NoOvertaking
<1>1. QueueInv /\ [Next]_vars =>
        [\A p \in ahead :
           /\ conns[p[1]].kind = conns[p[2]].kind
           /\ conns[p[2]].state = "queued" /\ conns'[p[2]].state = "packing"
           => conns'[p[1]].state # "queued"]_vars
  BY NobodyOvertakes
<1> QED BY <1>1, QueueAlways, PTL DEF Spec, NoOvertaking

\* Pairing never takes the last waiting bots but for a human.
THEOREM BotsWaitForHumans == Spec => BotKeptForHumans
<1>1. QueueInv /\ [Next]_vars =>
        [pairing /\ QueuedOf("bot") # {} /\ QueuedOf("bot")' = {} =>
           \E c \in QueuedOf("human") : conns'[c].state = "packing"]_vars
  BY BotsAreKept
<1> QED BY <1>1, QueueAlways, PTL DEF Spec, BotKeptForHumans

-----------------------------------------------------------------------------
(* What one slot of the match table is, whatever it went through.          *)

Wrecked(mt) == \E s \in Seats : mt.hull[s] = 0

AtBoundary(mt) ==
  mt.started /\ mt.elapsed \in 1 .. TimeoutTicks - 1 /\ mt.elapsed % RoundTicks = 0

Sound(mt) ==
  mt.active =>
    /\ ~mt.started =>
         (\E s \in Seats : ~mt.ready[s]) /\ ~mt.break /\ ~Wrecked(mt)
    /\ mt.break =>
         (\E s \in Seats : mt.call[s] = NoCall) /\ AtBoundary(mt) /\ ~Wrecked(mt)
    /\ Wrecked(mt) => AtBoundary(mt)

AllSound == \A m \in Matches : Sound(matches[m])

LEMMA SoundSaysSo ==
  AllSound => NoIdleWait /\ DeadShipsEndMatches
<1>1. AllSound => NoIdleWait
  BY DEF AllSound, Sound, NoIdleWait
<1>2. AllSound => DeadShipsEndMatches
  BY DEF AllSound, Sound, DeadShipsEndMatches, Wrecked, AtBoundary
<1> QED BY <1>1, <1>2

LEMMA OneSlotChanges ==
  ASSUME TypeOK, AllSound, NEW m \in Matches, NEW new, Sound(new),
         matches' = [matches EXCEPT ![m] = new]
  PROVE  AllSound'
<1>1. \A n \in Matches : Sound(matches'[n])
  BY DEF AllSound, TypeOK
<1> QED BY <1>1 DEF AllSound, Sound, Wrecked, AtBoundary

LEMMA BlankIsSound == Sound(BlankMatch)
BY DEF Sound, BlankMatch

LEMMA PackingIsSound ==
  ASSUME NEW seated
  PROVE  Sound([BlankMatch EXCEPT !.active = TRUE, !.conn = seated])
<1> DEFINE new == [BlankMatch EXCEPT !.active = TRUE, !.conn = seated]
<1>1. /\ new.ready = [s \in Seats |-> FALSE] /\ ~new.break
      /\ new.hull = [s \in Seats |-> FullHull] /\ ~new.started
  BY DEF BlankMatch
<1> HIDE DEF new
<1>2. ~Wrecked(new)
  BY <1>1, HullAssumption DEF Wrecked
<1>3. \E s \in Seats : ~new.ready[s]
  BY <1>1, SlotFacts
<1>4. Sound(new)
  BY <1>1, <1>2, <1>3 DEF Sound
<1> QED BY <1>4 DEF new

\* One more READY, but not the last one.
LEMMA ReadyIsSound ==
  ASSUME NEW mt \in MatchRec, Sound(mt), ~mt.started,
         NEW ready \in [Seats -> BOOLEAN], \E s \in Seats : ~ready[s]
  PROVE  Sound([mt EXCEPT !.ready = ready])
<1> DEFINE new == [mt EXCEPT !.ready = ready]
<1>1. /\ new.ready = ready /\ new.break = mt.break /\ new.hull = mt.hull
      /\ new.started = mt.started /\ new.active = mt.active
      /\ new.call = mt.call /\ new.elapsed = mt.elapsed
  BY DEF MatchRec
<1> HIDE DEF new
<1>2. Sound(new)
  BY <1>1 DEF Sound, Wrecked, AtBoundary
<1> QED BY <1>2 DEF new

LEMMA CombatIsSound ==
  ASSUME NEW mt \in MatchRec, Sound(mt), ~mt.started, mt.active,
         NEW ready \in [Seats -> BOOLEAN]
  PROVE  Sound(InCombat([mt EXCEPT !.ready = ready]))
<1> DEFINE new == InCombat([mt EXCEPT !.ready = ready])
<1>1. /\ new.break = mt.break /\ new.hull = [s \in Seats |-> FullHull] /\ new.started
  BY DEF MatchRec, InCombat
<1>2. ~mt.break
  BY DEF Sound
<1> HIDE DEF new
<1>3. ~Wrecked(new)
  BY <1>1, HullAssumption DEF Wrecked
<1>4. Sound(new)
  BY <1>1, <1>2, <1>3 DEF Sound
<1> QED BY <1>4 DEF new

\* One more ROUND_CALL, but not the last one.
LEMMA CallIsSound ==
  ASSUME NEW mt \in MatchRec, Sound(mt), NEW call \in [Seats -> Calls \cup {NoCall}],
         \E s \in Seats : call[s] = NoCall
  PROVE  Sound([mt EXCEPT !.call = call])
<1> DEFINE new == [mt EXCEPT !.call = call]
<1>1. /\ new.ready = mt.ready /\ new.break = mt.break /\ new.hull = mt.hull
      /\ new.started = mt.started /\ new.active = mt.active
      /\ new.call = call /\ new.elapsed = mt.elapsed
  BY DEF MatchRec
<1> HIDE DEF new
<1>2. Sound(new)
  BY <1>1 DEF Sound, Wrecked, AtBoundary
<1> QED BY <1>2 DEF new

\* The end of a break, whatever the calls in it cost.
LEMMA ResolvedIsSound ==
  ASSUME NEW mt \in MatchRec, Sound(mt), mt.active, mt.break,
         NEW call \in [Seats -> Calls \cup {NoCall}], NEW h \in [Seats -> Levels]
  PROVE  Sound([[mt EXCEPT !.call = call] EXCEPT !.break = FALSE, !.hull = h])
<1> DEFINE new == [[mt EXCEPT !.call = call] EXCEPT !.break = FALSE, !.hull = h]
<1>1. /\ ~new.break /\ new.started = mt.started /\ new.elapsed = mt.elapsed
  BY DEF MatchRec
<1>2. AtBoundary(mt)
  BY DEF Sound
<1> HIDE DEF new
<1>3. AtBoundary(new)
  BY <1>1, <1>2 DEF AtBoundary
<1>4. Sound(new)
  BY <1>1, <1>3 DEF Sound, AtBoundary
<1> QED BY <1>4 DEF new

\* A second that decides nothing, and the break that may follow it.
LEMMA TickedIsSound ==
  ASSUME NEW mt \in MatchRec, mt.started, ~mt.break, NEW h \in [Seats -> Levels],
         NEW t \in Nat, t > 0, t < TimeoutTicks, \A s \in Seats : h[s] # 0
  PROVE  /\ Sound([mt EXCEPT !.hull = h, !.elapsed = t])
         /\ t % RoundTicks = 0 => Sound(Broken([mt EXCEPT !.hull = h, !.elapsed = t]))
<1> DEFINE ticked == [mt EXCEPT !.hull = h, !.elapsed = t]
           broken == Broken(ticked)
<1>1. ticked.hull = h /\ ~ticked.break /\ ticked.started
  BY DEF MatchRec
<1>2. /\ broken.hull = h /\ broken.started /\ broken.elapsed = t
      /\ broken.call = [s \in Seats |-> NoCall]
  BY DEF MatchRec, Broken
<1> HIDE DEF ticked, broken
<1>3. ~Wrecked(ticked) /\ ~Wrecked(broken)
  BY <1>1, <1>2 DEF Wrecked
<1>4. Sound(ticked)
  BY <1>1, <1>3 DEF Sound
<1>5. ASSUME t % RoundTicks = 0
      PROVE  Sound(broken)
  <2>1. AtBoundary(broken)
    BY <1>2, <1>5, SizesAssumption DEF AtBoundary
  <2>2. \E s \in Seats : broken.call[s] = NoCall
    BY <1>2, SlotFacts
  <2> QED BY <1>2, <1>3, <2>1, <2>2 DEF Sound
<1>6. Sound(ticked) /\ (t % RoundTicks = 0 => Sound(broken))
  BY <1>4, <1>5
<1> QED BY <1>6 DEF ticked, broken

-----------------------------------------------------------------------------
(* What end_match says is what the two hulls say.                          *)

\* run_tick names the reasons it ends a match for; the others say nothing of
\* the ships.
Justified(mt, why) ==
  /\ why = "hull" => Wrecked(mt)
  /\ why = "timeout" => ~Wrecked(mt) /\ ~(mt.elapsed < TimeoutTicks)

LEMMA ToldByHulls ==
  ASSUME NEW mt, mt.hull \in [Seats -> Levels], NEW even \in Evens, NEW why,
         Justified(mt, why)
  PROVE  LET h == mt.hull
             r == SeatResults(MatchResult(mt, even))
         IN /\ \/ r[0] = "tie" /\ r[1] = "tie" /\ (h[0] = 0 <=> h[1] = 0)
               \/ r[0] = "win" /\ r[1] = "loss" /\ h[0] # 0
               \/ r[0] = "loss" /\ r[1] = "win" /\ h[1] # 0
            /\ h[0] = 0 /\ h[1] = 0 => r[0] = "tie"
            /\ why = "hull" => h[0] = 0 \/ h[1] = 0
            /\ why = "timeout" => /\ h[0] # 0 /\ h[1] # 0
                                  /\ r[0] = "loss" => h[0] <= h[1]
                                  /\ r[1] = "loss" => h[1] <= h[0]
<1> DEFINE h == mt.hull
           w == MatchResult(mt, even)
           r == SeatResults(w)
<1>1. /\ h[0] \in Nat /\ h[1] \in Nat
      /\ why = "hull" => h[0] = 0 \/ h[1] = 0
      /\ why = "timeout" => h[0] # 0 /\ h[1] # 0 /\ ~(mt.elapsed < TimeoutTicks)
  BY SlotFacts DEF Justified, Wrecked, Levels
<1>2. /\ w = "tie" => r[0] = "tie" /\ r[1] = "tie"
      /\ w = "self_win" => r[0] = "win" /\ r[1] = "loss"
      /\ w \notin {"tie", "self_win"} => r[0] = "loss" /\ r[1] = "win"
  BY SlotFacts DEF SeatResults
<1>3. /\ h[0] = 0 /\ h[1] = 0 => w = "tie"
      /\ h[0] # 0 /\ h[1] = 0 => w = "self_win"
      /\ h[0] = 0 /\ h[1] # 0 => w = "enemy_win"
      /\ h[0] # 0 /\ h[1] # 0 =>
           \/ mt.elapsed < TimeoutTicks /\ w = "ongoing"
           \/ h[0] > h[1] /\ w = "self_win"
           \/ h[0] < h[1] /\ w = "enemy_win"
           \/ ~(h[0] > h[1]) /\ ~(h[0] < h[1]) /\ w = even
  BY DEF MatchResult
<1>4. even \in {"tie", "self_win", "enemy_win"}
  BY DEF Evens
<1> HIDE DEF h, w, r
<1>5. /\ \/ r[0] = "tie" /\ r[1] = "tie" /\ (h[0] = 0 <=> h[1] = 0)
         \/ r[0] = "win" /\ r[1] = "loss" /\ h[0] # 0
         \/ r[0] = "loss" /\ r[1] = "win" /\ h[1] # 0
      /\ h[0] = 0 /\ h[1] = 0 => r[0] = "tie"
  BY <1>1, <1>2, <1>3, <1>4
<1>6. why = "timeout" => /\ r[0] = "loss" => h[0] <= h[1]
                         /\ r[1] = "loss" => h[1] <= h[0]
  BY <1>1, <1>2, <1>3, <1>4
<1> QED BY <1>1, <1>5, <1>6 DEF h, w, r

LEMMA EndTellsTrue ==
  ASSUME NEW m, NEW mt, mt.hull \in [Seats -> Levels], NEW why, Justified(mt, why),
         EndMatch(m, mt, why)
  PROVE  VerdictIsShips'
<1>1. PICK even \in Evens :
        lastEnd' = [hull |-> mt.hull, reason |-> why,
                    result |-> SeatResults(MatchResult(mt, even))]
  BY DEF EndMatch
<1> DEFINE h == lastEnd'.hull
           r == lastEnd'.result
<1>2. /\ lastEnd'.reason = why /\ h = mt.hull
      /\ r = SeatResults(MatchResult(mt, even))
  BY <1>1
<1>3. /\ \/ r[0] = "tie" /\ r[1] = "tie" /\ (h[0] = 0 <=> h[1] = 0)
         \/ r[0] = "win" /\ r[1] = "loss" /\ h[0] # 0
         \/ r[0] = "loss" /\ r[1] = "win" /\ h[1] # 0
      /\ h[0] = 0 /\ h[1] = 0 => r[0] = "tie"
      /\ lastEnd'.reason = "hull" => h[0] = 0 \/ h[1] = 0
      /\ lastEnd'.reason = "timeout" => /\ h[0] # 0 /\ h[1] # 0
                                        /\ r[0] = "loss" => h[0] <= h[1]
                                        /\ r[1] = "loss" => h[1] <= h[0]
  BY <1>2, ToldByHulls
<1> HIDE DEF h, r
<1> DEFINE dead == {s \in Seats : h[s] = 0}
<1>4. \A s \in Seats : r[s] = "win" => s \notin dead /\ r[1 - s] = "loss"
  BY <1>3, SlotFacts
<1>5. dead = Seats <=> (r[0] = "tie" /\ dead # {})
  BY <1>3, SlotFacts
<1>6. lastEnd'.reason = "hull" => dead # {}
  BY <1>3, SlotFacts
<1>7. lastEnd'.reason = "timeout" =>
        dead = {} /\ \A s \in Seats : r[s] = "loss" => h[s] <= h[1 - s]
  BY <1>3, SlotFacts
<1> QED BY <1>4, <1>5, <1>6, <1>7 DEF VerdictIsShips, h, r

-----------------------------------------------------------------------------
(* Every step changes one slot at most, and either ends its match or       *)
(* leaves it sound.                                                        *)

Quiet == UNCHANGED matches /\ lastEnd' \in {lastEnd, NoEnd}

Goes ==
  \E m \in Matches : \E new :
    /\ matches' = [matches EXCEPT ![m] = new] /\ Sound(new)
    /\ lastEnd' \in {lastEnd, NoEnd}

Ends ==
  \E m \in Matches : \E mt, why :
    /\ EndMatch(m, mt, why)
    /\ mt.hull \in [Seats -> Levels] /\ Justified(mt, why)

Life == AllSound /\ VerdictIsShips

LEMMA LifeGoesOn ==
  ASSUME TypeOK, Life, Quiet \/ Goes \/ Ends
  PROVE  Life'
<1> USE DEF Life
<1>1. lastEnd' \in {lastEnd, NoEnd} => VerdictIsShips'
  BY DEF VerdictIsShips
<1>2. CASE Quiet
  BY <1>1, <1>2 DEF Quiet, AllSound, Sound, Wrecked, AtBoundary
<1>3. CASE Goes
  BY <1>1, <1>3, OneSlotChanges DEF Goes
<1>4. CASE Ends
  <2>0. PICK m \in Matches : \E mt, why :
          /\ EndMatch(m, mt, why)
          /\ mt.hull \in [Seats -> Levels] /\ Justified(mt, why)
    BY <1>4 DEF Ends
  <2>1. PICK mt, why :
          /\ EndMatch(m, mt, why)
          /\ mt.hull \in [Seats -> Levels] /\ Justified(mt, why)
    BY <2>0
  <2>2. matches' = [matches EXCEPT ![m] = BlankMatch]
    BY <2>1 DEF EndMatch
  <2> QED BY <2>1, <2>2, BlankIsSound, OneSlotChanges, EndTellsTrue
<1> QED BY <1>2, <1>3, <1>4

LEMMA QuitEnds ==
  ASSUME TypeOK, NEW c \in Conns, NEW to, Quit(c, to), conns[c].match \in Matches \/ ~Plays(c)
  PROVE  Quiet \/ Ends
<1>1. CASE ~Plays(c)
  BY <1>1 DEF Quit, Quiet
<1>2. CASE Plays(c)
  <2> DEFINE m == conns[c].match
  <2>1. m \in Matches /\ EndMatch(m, matches[m], "forfeit")
    BY <1>2 DEF Quit
  <2>2. matches[m].hull \in [Seats -> Levels] /\ Justified(matches[m], "forfeit")
    BY <2>1, HullTypes DEF Justified
  <2> QED BY <2>1, <2>2 DEF Ends
<1> QED BY <1>1, <1>2

LEMMA CombatGoes ==
  ASSUME TypeOK, AllSound, NEW m \in Matches, matches[m].active, ~matches[m].started,
         NEW ready \in [Seats -> BOOLEAN],
         StartCombat(m, [matches[m] EXCEPT !.ready = ready]),
         lastEnd' \in {lastEnd, NoEnd}
  PROVE  Goes
<1> DEFINE new == InCombat([matches[m] EXCEPT !.ready = ready])
<1>1. matches[m] \in MatchRec /\ Sound(matches[m])
  BY DEF TypeOK, AllSound
<1>2. Sound(new)
  BY <1>1, CombatIsSound
<1>3. matches' = [matches EXCEPT ![m] = new]
  BY DEF StartCombat
<1> HIDE DEF new
<1> QED BY <1>2, <1>3 DEF Goes

LEMMA ResolveGoes ==
  ASSUME TypeOK, AllSound, NEW m \in Matches, matches[m].active, matches[m].break,
         NEW call \in [Seats -> Calls \cup {NoCall}],
         ResolveBreak(m, [matches[m] EXCEPT !.call = call]),
         lastEnd' \in {lastEnd, NoEnd}
  PROVE  Goes
<1> DEFINE mt == [matches[m] EXCEPT !.call = call]
<1>1. matches[m] \in MatchRec /\ Sound(matches[m])
  BY DEF TypeOK, AllSound
<1>2. PICK h \in [Seats -> Levels] :
        matches' = [matches EXCEPT ![m] = [mt EXCEPT !.break = FALSE, !.hull = h]]
  BY DEF ResolveBreak, HullsAfterBreak
<1> DEFINE new == [mt EXCEPT !.break = FALSE, !.hull = h]
<1>3. Sound(new)
  BY <1>1, ResolvedIsSound
<1>4. matches' = [matches EXCEPT ![m] = new]
  BY <1>2
<1> HIDE DEF new
<1> QED BY <1>3, <1>4 DEF Goes

LEMMA TickGoesOrEnds ==
  ASSUME TypeOK, NEW m \in Matches, matches[m].started, ~matches[m].break, RunTick(m)
  PROVE  Goes \/ Ends
<1>1. PICK h \in HullsAfterTick(matches[m].hull) :
        LET t      == matches[m].elapsed + 1
            ticked == [matches[m] EXCEPT !.hull = h, !.elapsed = t]
            dead   == \E s \in Seats : h[s] = 0
        IN IF MatchResult(ticked, "tie") # "ongoing"
           THEN EndMatch(m, ticked, IF dead THEN "hull" ELSE "timeout")
           ELSE /\ matches' = [matches EXCEPT ![m] =
                     IF t % RoundTicks = 0 /\ t < TimeoutTicks
                     THEN Broken(ticked) ELSE ticked]
                /\ lastEnd' = NoEnd
  BY DEF RunTick
<1> DEFINE t == matches[m].elapsed + 1
           ticked == [matches[m] EXCEPT !.hull = h, !.elapsed = t]
           why == IF \E s \in Seats : h[s] = 0 THEN "hull" ELSE "timeout"
           next == IF t % RoundTicks = 0 /\ t < TimeoutTicks
                   THEN Broken(ticked) ELSE ticked
<1>2. h \in [Seats -> Levels] /\ matches[m] \in MatchRec
  BY DEF HullsAfterTick, TypeOK
<1>3. /\ ticked.hull = h /\ ticked.elapsed = t /\ t \in Nat /\ t > 0
      /\ ticked.hull \in [Seats -> Levels]
  BY <1>2 DEF MatchRec
<1>4. CASE MatchResult(ticked, "tie") # "ongoing"
  <2>1. EndMatch(m, ticked, why)
    BY <1>1, <1>4
  <2> HIDE DEF ticked, t
  <2>2. h[0] # 0 /\ h[1] # 0 => ~(ticked.elapsed < TimeoutTicks)
    BY <1>3, <1>4 DEF MatchResult
  <2>3. Wrecked(ticked) <=> \E s \in Seats : h[s] = 0
    BY <1>3 DEF Wrecked
  <2>4. Justified(ticked, why)
    BY <2>2, <2>3, SlotFacts DEF Justified
  <2> HIDE DEF why
  <2> QED BY <1>3, <2>1, <2>4 DEF Ends
<1>5. CASE MatchResult(ticked, "tie") = "ongoing"
  <2>1. matches' = [matches EXCEPT ![m] = next] /\ lastEnd' = NoEnd
    BY <1>1, <1>5
  <2>2. t < TimeoutTicks /\ h[0] # 0 /\ h[1] # 0
    <3> HIDE DEF ticked
    <3> QED BY <1>3, <1>5 DEF MatchResult
  <2>3. \A s \in Seats : h[s] # 0
    BY <2>2, SlotFacts
  <2>4. Sound(ticked) /\ (t % RoundTicks = 0 => Sound(Broken(ticked)))
    <3> HIDE DEF t
    <3> QED BY <1>2, <1>3, <2>2, <2>3, TickedIsSound
  <2>5. Sound(next)
    BY <2>4
  <2> HIDE DEF next
  <2> QED BY <2>1, <2>5 DEF Goes
<1> QED BY <1>4, <1>5

LEMMA ClientSteps ==
  ASSUME Agreed, AllSound, Clients
  PROVE  Quiet \/ Goes \/ Ends
<1>1. CASE Accept
  BY <1>1 DEF Accept, Quiet
<1>2. ASSUME NEW c \in Conns, NEW kind \in Clientele, Hello(c, kind)
      PROVE  Quiet
  BY <1>2 DEF Hello, Quiet
<1>3. ASSUME NEW c \in Conns, Queue(c)
      PROVE  Quiet
  BY <1>3 DEF Queue, Quiet
<1>4. ASSUME NEW c \in Conns, Ready(c)
      PROVE  Goes
  <2> DEFINE m == conns[c].match
             ready == [matches[m].ready EXCEPT ![conns[c].seat] = TRUE]
             mt == [matches[m] EXCEPT !.ready = ready]
  <2>1. conns[c].state = "packing" /\ UNCHANGED lastEnd
    BY <1>4 DEF Ready, Heard, Read
  <2>2. /\ m \in Matches /\ matches[m].active /\ ~matches[m].started
        /\ conns[c].seat \in Seats
    BY <2>1, PlayerFacts DEF InMatch, Agreed, MatchesAgree
  <2>3. /\ matches[m] \in MatchRec /\ ready \in [Seats -> BOOLEAN]
        /\ Sound(matches[m])
    BY <2>2 DEF Agreed, TypeOK, MatchRec, AllSound
  <2>4. IF PackingOver(mt, m)
        THEN StartCombat(m, mt)
        ELSE matches' = [matches EXCEPT ![m] = mt]
    BY <1>4 DEF Ready
  <2>5. mt.started = matches[m].started /\ mt.ready = ready
    BY <2>3 DEF MatchRec
  <2>6. CASE PackingOver(mt, m)
    <3>1. StartCombat(m, mt)
      BY <2>4, <2>6
    <3> HIDE DEF m, ready
    <3> QED BY <2>1, <2>2, <2>3, <3>1, CombatGoes DEF Agreed
  <2>7. CASE ~PackingOver(mt, m)
    <3>1. \E s \in Seats : ~ready[s]
      <4> HIDE DEF m, ready, mt
      <4> QED BY <2>2, <2>5, <2>7 DEF PackingOver
    <3>2. Sound(mt)
      <4> HIDE DEF m, ready
      <4> QED BY <2>2, <2>3, <3>1, ReadyIsSound
    <3>3. matches' = [matches EXCEPT ![m] = mt]
      BY <2>4, <2>7
    <3> HIDE DEF mt, m
    <3> QED BY <2>1, <2>2, <3>2, <3>3 DEF Goes
  <2> QED BY <2>6, <2>7
<1>5. ASSUME NEW c \in Conns, NEW call \in Calls, RoundCall(c, call)
      PROVE  Goes
  <2> DEFINE m == conns[c].match
             calls == Called(matches[m], conns[c].seat, call).call
             mt == [matches[m] EXCEPT !.call = calls]
  <2>1. /\ conns[c].state = "combat" /\ UNCHANGED lastEnd
        /\ matches[m].active /\ matches[m].break
    BY <1>5 DEF RoundCall, Heard, Read
  <2>2. m \in Matches /\ conns[c].seat \in Seats
    BY <2>1, PlayerFacts DEF InMatch
  <2>3. matches[m] \in MatchRec /\ Sound(matches[m])
    BY <2>2 DEF Agreed, TypeOK, AllSound
  <2>4. /\ Called(matches[m], conns[c].seat, call) = mt
        /\ calls \in [Seats -> Calls \cup {NoCall}]
        /\ mt.call = calls
    BY <2>2, <2>3 DEF Called, MatchRec
  <2>5. IF \A s \in Seats : mt.call[s] # NoCall
        THEN ResolveBreak(m, mt)
        ELSE matches' = [matches EXCEPT ![m] = mt]
    BY <1>5, <2>4 DEF RoundCall
  <2> HIDE DEF m, calls
  <2>6. CASE \A s \in Seats : mt.call[s] # NoCall
    BY <2>1, <2>2, <2>4, <2>5, <2>6, ResolveGoes DEF Agreed
  <2>7. CASE ~ \A s \in Seats : mt.call[s] # NoCall
    <3>1. \E s \in Seats : calls[s] = NoCall
      BY <2>4, <2>7
    <3>2. Sound(mt)
      BY <2>3, <2>4, <3>1, CallIsSound
    <3>3. matches' = [matches EXCEPT ![m] = mt]
      BY <2>5, <2>7
    <3> HIDE DEF mt
    <3> QED BY <2>1, <2>2, <3>2, <3>3 DEF Goes
  <2> QED BY <2>6, <2>7
<1>6. ASSUME NEW c \in Conns, Leave(c) \/ Disconnect(c)
      PROVE  Quiet \/ Ends
  <2>1. conns[c].match \in Matches \/ ~Plays(c)
    BY PlayerFacts DEF Plays
  <2> QED BY <1>6, <2>1, QuitEnds DEF Leave, Disconnect, Agreed
<1>7. ASSUME NEW c \in Conns, Refuse(c)
      PROVE  Quiet
  BY <1>7 DEF Refuse, Quiet
<1> QED BY <1>1, <1>2, <1>3, <1>4, <1>5, <1>6, <1>7 DEF Clients

LEMMA ServerSteps ==
  ASSUME Agreed, AllSound, Server
  PROVE  Quiet \/ Goes \/ Ends
<1>0. ASSUME NEW c \in Conns, Quit(c, "free")
      PROVE  Quiet \/ Ends
  BY <1>0, PlayerFacts, QuitEnds DEF Plays, Agreed
<1>1. CASE Pair
  <2>1. PICK a \in Conns, b \in Conns, m \in Matches : StartMatch(a, b, m)
    BY <1>1 DEF Pair
  <2> DEFINE seated == [s \in Seats |-> IF s = 0 THEN a ELSE b]
             new == [BlankMatch EXCEPT !.active = TRUE, !.conn = seated]
  <2>2. matches' = [matches EXCEPT ![m] = new]
    BY <2>1 DEF StartMatch
  <2>3. Sound(new)
    <3> HIDE DEF seated
    <3> QED BY PackingIsSound
  <2>4. UNCHANGED lastEnd
    BY <1>1 DEF Pair
  <2> HIDE DEF new
  <2> QED BY <2>2, <2>3, <2>4 DEF Goes
<1>2. CASE PairingDone \/ SweepOver \/ ExpireHellos
  BY <1>2 DEF PairingDone, SweepOver, ExpireHellos, Quiet
<1>3. CASE Sweep
  BY <1>0, <1>3 DEF Sweep
<1>4. ASSUME NEW m \in Matches, ExpireMatch(m)
      PROVE  Quiet \/ Goes \/ Ends
  <2> DEFINE mt == matches[m]
  <2>0. /\ mt \in MatchRec
        /\ mt.ready \in [Seats -> BOOLEAN] /\ mt = [mt EXCEPT !.ready = mt.ready]
        /\ mt.call \in [Seats -> Calls \cup {NoCall}] /\ mt = [mt EXCEPT !.call = mt.call]
    BY DEF Agreed, TypeOK, MatchRec
  <2>1. \/ lastEnd' = NoEnd /\ UNCHANGED matches
        \/ mt.active /\ ~mt.started /\ StartCombat(m, mt) /\ lastEnd' = NoEnd
        \/ mt.active /\ mt.break /\ ResolveBreak(m, mt) /\ lastEnd' = NoEnd
        \/ mt.started /\ ~mt.break /\ RunTick(m)
    BY <1>4 DEF ExpireMatch, PackingOver
  <2>2. CASE lastEnd' = NoEnd /\ UNCHANGED matches
    BY <2>2 DEF Quiet
  <2>3. CASE mt.active /\ ~mt.started /\ StartCombat(m, mt) /\ lastEnd' = NoEnd
    BY <2>0, <2>3, CombatGoes DEF Agreed
  <2>4. CASE mt.active /\ mt.break /\ ResolveBreak(m, mt) /\ lastEnd' = NoEnd
    BY <2>0, <2>4, ResolveGoes DEF Agreed
  <2>5. CASE mt.started /\ ~mt.break /\ RunTick(m)
    BY <2>5, TickGoesOrEnds DEF Agreed
  <2> QED BY <2>1, <2>2, <2>3, <2>4, <2>5
<1>5. ASSUME NEW m \in Matches, StopMatch(m)
      PROVE  Quiet \/ Ends
  <2>1. \/ EndMatch(m, matches[m], "server")
        \/ lastEnd' = NoEnd /\ UNCHANGED matches
    BY <1>5 DEF StopMatch
  <2>2. matches[m].hull \in [Seats -> Levels] /\ Justified(matches[m], "server")
    BY HullTypes DEF Justified, Agreed
  <2> QED BY <2>1, <2>2 DEF Quiet, Ends
<1>6. CASE StopConn
  BY <1>0, <1>6 DEF StopConn, Quiet
<1> QED BY <1>1, <1>2, <1>3, <1>4, <1>5, <1>6 DEF Server

LEMMA LifeSteps ==
  ASSUME Agreed, AllSound, [Next]_vars
  PROVE  Quiet \/ Goes \/ Ends
<1>1. CASE Clients
  BY <1>1, ClientSteps
<1>2. CASE Server
  BY <1>2, ServerSteps
<1>3. CASE ReadNext \/ ReadsOver \/ Stop
  BY <1>3 DEF ReadNext, ReadsOver, Stop, Quiet
<1>4. CASE Clock
  BY <1>4 DEF Clock, ConnTimer, MatchTimer, Quiet
<1>5. CASE UNCHANGED vars
  BY <1>5 DEF vars, Quiet
<1> QED BY <1>1, <1>2, <1>3, <1>4, <1>5 DEF Next, Stopped

-----------------------------------------------------------------------------
(* The shutdown: the matches are ended first, in slot order, so that the   *)
(* connections closed after them forfeit nothing.                          *)

Stopping == phase \in {"stopping", "stopped"}

EndedBelow ==
  phase = "stopping" => \A m \in Matches : m < at => ~matches[m].active

StopSafe == EndedBelow /\ ShutdownForfeitsNothing

\* What still happens once the loop has been left.
LEMMA StoppingSteps ==
  ASSUME Agreed, PairPhase, [Next]_vars, Stopping
  PROVE  \/ \E m \in Matches : StopMatch(m)
         \/ StopConn
         \/ UNCHANGED vars
<1>1. ~pairing /\ phase \notin {"io", "sweep", "hello", "matches"}
  BY DEF PairPhase, Stopping
<1>2. ~Clients /\ ~ReadNext /\ ~ReadsOver /\ ~Stop
  BY <1>1 DEF Clients, Accept, Hello, Queue, Ready, RoundCall, Leave, Refuse, Disconnect,
              Heard, Read, InLoop, ReadNext, ReadsOver, Stop
<1>3. ~Clock
  BY DEF Stopping, Clock, ConnTimer, MatchTimer
<1>4. ~Pair /\ ~PairingDone /\ ~Sweep /\ ~SweepOver /\ ~ExpireHellos
  BY <1>1 DEF Pair, PairingDone, Sweep, SweepOver, ExpireHellos
<1>5. \A m \in Matches : ~ExpireMatch(m)
  BY <1>1 DEF ExpireMatch
<1> QED BY <1>2, <1>3, <1>4, <1>5 DEF Next, Server, Stopped

LEMMA StopIsSafe ==
  ASSUME Agreed, PairPhase, StopSafe, [Next]_vars
  PROVE  StopSafe'
<1> USE DEF StopSafe
<1>1. CASE ~Stopping
  <2>1. CASE Stop
    <3>1. phase' = "stopping" /\ at' = 1 /\ lastEnd' = NoEnd
      BY <2>1 DEF Stop
    <3>2. \A m \in Matches : ~(m < 1)
      BY DEF Matches
    <3> QED BY <3>1, <3>2 DEF EndedBelow, ShutdownForfeitsNothing
  <2>2. CASE ~Stop
    <3>1. CASE Clients
      BY <1>1, <3>1 DEF Clients, Accept, Hello, Queue, Ready, RoundCall, Leave, Refuse,
                       Disconnect, loop, Stopping, EndedBelow, ShutdownForfeitsNothing
    <3>2. CASE Clock
      BY <1>1, <3>2 DEF Clock, ConnTimer, MatchTimer, loop, Stopping, EndedBelow,
                       ShutdownForfeitsNothing
    <3>3. CASE Pair \/ PairingDone \/ Sweep \/ SweepOver \/ ExpireHellos
               \/ ReadNext \/ ReadsOver
      BY <1>1, <3>3 DEF Pair, PairingDone, Sweep, SweepOver, ExpireHellos, ReadNext,
                       ReadsOver, loop, Stopping, EndedBelow, ShutdownForfeitsNothing
    <3>4. ASSUME NEW m \in Matches, ExpireMatch(m)
          PROVE  StopSafe'
      <4>1. phase = "matches" /\ phase' \in {"io", phase}
        BY <3>4 DEF ExpireMatch
      <4> QED BY <4>1 DEF EndedBelow, ShutdownForfeitsNothing
    <3>5. ~StopConn /\ \A m \in Matches : ~StopMatch(m)
      BY <1>1 DEF StopConn, StopMatch, Stopping
    <3>6. CASE UNCHANGED vars
      BY <1>1, <3>6 DEF vars, Stopping, EndedBelow, ShutdownForfeitsNothing
    <3> QED BY <2>2, <3>1, <3>2, <3>3, <3>4, <3>5, <3>6 DEF Next, Server, Stopped
  <2> QED BY <2>1, <2>2
<1>2. CASE Stopping
  <2>1. ASSUME NEW m \in Matches, StopMatch(m)
        PROVE  StopSafe'
    <3>1. phase = "stopping" /\ at = m /\ at' = m + 1 /\ phase' = phase
      BY <2>1 DEF StopMatch
    <3>2. /\ ~matches'[m].active
          /\ \A n \in Matches \ {m} : matches'[n] = matches[n]
          /\ lastEnd' = NoEnd \/ lastEnd'.reason = "server"
      <4>1. CASE m \in FreeMatches
        BY <2>1, <4>1 DEF StopMatch, FreeMatches
      <4>2. CASE m \notin FreeMatches
        <5>1. EndMatch(m, matches[m], "server")
          BY <2>1, <4>2 DEF StopMatch
        <5> QED BY <5>1, BlankTypes DEF EndMatch, Agreed, TypeOK
      <4> QED BY <4>1, <4>2
    <3>3. \A n \in Matches : n < m + 1 => n = m \/ n < m
      BY DEF Matches
    <3>4. EndedBelow'
      BY <3>1, <3>2, <3>3 DEF EndedBelow
    <3> QED BY <3>2, <3>4 DEF ShutdownForfeitsNothing
  <2>2. CASE StopConn
    <3>1. phase = "stopping" /\ UNCHANGED at
      BY <2>2 DEF StopConn
    <3>2. \A m \in Matches : ~matches[m].active
      <4>1. \A m \in Matches : m < at
        BY <2>2, SizesAssumption DEF StopConn, Matches, Agreed, TypeOK
      <4> QED BY <3>1, <4>1 DEF EndedBelow
    <3>3. UNCHANGED <<matches, lastEnd>>
      <4>1. ASSUME NEW c \in Conns, Quit(c, "free")
            PROVE  UNCHANGED <<matches, lastEnd>>
        <5>1. ~Plays(c)
          BY <3>2, PlayerFacts DEF Plays
        <5> QED BY <4>1, <5>1 DEF Quit
      <4> QED BY <2>2, <4>1 DEF StopConn
    <3> QED BY <3>1, <3>2, <3>3 DEF EndedBelow, ShutdownForfeitsNothing
  <2>3. CASE UNCHANGED vars
    BY <2>3 DEF vars, EndedBelow, ShutdownForfeitsNothing
  <2> QED BY <1>2, <2>1, <2>2, <2>3, StoppingSteps
<1> QED BY <1>1, <1>2

-----------------------------------------------------------------------------
(* The theorems.                                                            *)

EndsInv == QueueInv /\ Life /\ StopSafe

LEMMA EndsInit == Init => EndsInv
<1> SUFFICES ASSUME Init PROVE EndsInv
  OBVIOUS
<1>1. AllSound
  BY BlankIsSound DEF Init, AllSound
<1>2. VerdictIsShips
  BY DEF Init, VerdictIsShips
<1>3. StopSafe
  BY DEF Init, StopSafe, EndedBelow, ShutdownForfeitsNothing
<1> QED BY <1>1, <1>2, <1>3, QueueInit DEF EndsInv, Life

LEMMA EndsNext == EndsInv /\ [Next]_vars => EndsInv'
<1> SUFFICES ASSUME EndsInv, [Next]_vars PROVE EndsInv'
  OBVIOUS
<1>1. /\ QueueInv /\ Agreed /\ TypeOK /\ PairPhase
      /\ Life /\ AllSound /\ StopSafe
  BY DEF EndsInv, QueueInv, Agreed, Life
<1>2. QueueInv'
  BY <1>1, QueueNext
<1>3. Life'
  BY <1>1, LifeSteps, LifeGoesOn
<1>4. StopSafe'
  BY <1>1, StopIsSafe
<1> QED BY <1>2, <1>3, <1>4 DEF EndsInv

LEMMA EndsAlways == Spec => []EndsInv
BY EndsInit, EndsNext, PTL DEF Spec

\* Packing and breaks go on only for somebody who has not answered yet.
THEOREM NobodyWaitsAlone == Spec => []NoIdleWait
<1>1. EndsInv => NoIdleWait
  BY SoundSaysSo DEF EndsInv, Life
<1> QED BY <1>1, EndsAlways, PTL

\* A match ends with the second its ship is destroyed, the verdict is what the
\* hulls say, and the shutdown leaves nobody a match to forfeit.
THEOREM EndsAlwaysJust == Spec => []EndsAreJust
<1>1. EndsInv => EndsAreJust
  BY SoundSaysSo DEF EndsInv, Life, StopSafe, EndsAreJust
<1> QED BY <1>1, EndsAlways, PTL
===============================================================================
