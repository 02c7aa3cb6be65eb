--------------------------- MODULE Dw2Worker_proofs ---------------------------
(***************************************************************************)
(* Proofs about the worker thread and the authentication states, for any   *)
(* number of connections, any ring and any number of sessions: the types,  *)
(* that a client gets the identity of its own token, that neither thread   *)
(* sleeps over what the other has left for it, and that every report that  *)
(* is owed is made once, in order and under the right names.               *)
(***************************************************************************)
EXTENDS Dw2Worker, SequenceTheorems, TLAPS

\* The verifications somewhere between start_verify and verify_done.
InFlight ==
  {j \in VerifyJobs :
     \/ \E k \in DOMAIN jobs : jobs[k] = j
     \/ \E k \in DOMAIN results : results[k].job = j
     \/ worker = "working" /\ held = j
     \/ worker = "answering" /\ held.job = j}

\* A verification that comes back to the session that asked for it carries that
\* session's token, and such a session has asked already.
Faithful(j) ==
  /\ j.gen <= sessions
  /\ conns[j.conn].gen = j.gen =>
       conns[j.conn].state # "needauth" /\ conns[j.conn].sent = j.token

NoneYet ==
  \A c \in Conns :
    conns[c].state \in Unverified \cup {"free"} => conns[c].player = Nobody

\* A session that has begun has a number.
Numbered == \A c \in Conns : conns[c].state = "needauth" => conns[c].gen # 0

\* A match is played by its two connections, and they by no other.
Seated ==
  \A b \in bouts : \A s \in {0, 1} :
    /\ conns[b.seat[s]].state = "playing"
    /\ \A d \in bouts \ {b} : \A r \in {0, 1} : d.seat[r] # b.seat[s]

\* No connection is of a session yet to begin.
Begun == \A c \in Conns : conns[c].gen <= sessions

Sound ==
  /\ WorkerTypeOK
  /\ Numbered
  /\ Begun
  /\ Seated
  /\ \A j \in InFlight : Faithful(j)
  /\ NoneYet
  /\ OwnIdentity

-----------------------------------------------------------------------------
(* Types.                                                                  *)

LEMMA StateNames ==
  /\ Unverified \subseteq ConnStates
  /\ FreeConn \in ConnRec
BY WorkerAssumption DEF Unverified, ConnStates, FreeConn, ConnRec, Players

\* What is taken from a sequence belongs to it.
LEMMA HeadTail ==
  ASSUME NEW S, NEW q \in Seq(S), q # <<>>
  PROVE  /\ Head(q) \in S
         /\ Tail(q) \in Seq(S)
         /\ Len(Tail(q)) = Len(q) - 1
         /\ Head(q) = q[1] /\ 1 \in DOMAIN q
         /\ \A k \in DOMAIN Tail(q) : k + 1 \in DOMAIN q /\ Tail(q)[k] = q[k + 1]
OBVIOUS

LEMMA Appended ==
  ASSUME NEW S, NEW q \in Seq(S), NEW x \in S
  PROVE  /\ Append(q, x) \in Seq(S)
         /\ Len(Append(q, x)) = Len(q) + 1
         /\ \A k \in DOMAIN Append(q, x) :
              Append(q, x)[k] = x \/ (k \in DOMAIN q /\ Append(q, x)[k] = q[k])
OBVIOUS

LEMMA EnqueueTypes ==
  ASSUME WorkerTypeOK, NEW j \in Jobs, HasRoom, Enqueue(j), held' = held
  PROVE  /\ jobs' \in Seq(Jobs) /\ Len(jobs') <= Ring
         /\ worker' \in {"idle", "waiting", "working", "answering", "waking", "gone", "starved"}
         /\ worker' = "working" => held' \in Jobs
         /\ worker' = "answering" => held' \in Results
BY Appended, WorkerAssumption DEF WorkerTypeOK, HasRoom, Enqueue, Signalled

LEMMA RestedTypes ==
  ASSUME NEW b, NEW t \in [Conns -> ConnRec]
  PROVE  Rested(b, t) \in [Conns -> ConnRec]
BY DEF Rested, ConnRec, ConnStates

LEMMA FreedTypes ==
  ASSUME NEW c \in Conns, NEW t \in [Conns -> ConnRec]
  PROVE  Freed(c, t) \in [Conns -> ConnRec]
BY StateNames DEF Freed

LEMMA EndBoutTypes ==
  ASSUME WorkerTypeOK, NEW b \in bouts, EndBout(b, conns), held' = held
  PROVE  /\ bouts' \subseteq Bouts
         /\ owed' \in Seq(Reports)
         /\ jobs' \in Seq(Jobs) /\ Len(jobs') <= Ring
         /\ worker' \in {"idle", "waiting", "working", "answering", "waking", "gone", "starved"}
         /\ worker' = "working" => held' \in Jobs
         /\ worker' = "answering" => held' \in Results
<1> DEFINE who   == [s \in {0, 1} |-> conns[b.seat[s]].player]
           known == \A s \in {0, 1} : who[s] # Nobody
           mine  == [id |-> b.id, who |-> b.who]
           job   == [type |-> "report", report |-> [id |-> b.id, who |-> who]]
<1>1. b \in Bouts /\ bouts' \subseteq Bouts
  BY DEF WorkerTypeOK, EndBout
<1>2. owed' \in Seq(Reports)
  <2>1. CASE HasRoom /\ \A s \in {0, 1} : b.who[s] # Nobody
    <3>1. mine \in Reports
      BY <1>1, <2>1 DEF Bouts, Reports, Players
    <3> QED BY <3>1, <2>1, Appended DEF EndBout, WorkerTypeOK
  <2>2. CASE ~(HasRoom /\ \A s \in {0, 1} : b.who[s] # Nobody)
    BY <2>2 DEF EndBout, WorkerTypeOK
  <2> QED BY <2>1, <2>2
<1>3. CASE HasRoom /\ known
  <2>1. who \in [{0, 1} -> Tokens]
    <3>1. \A s \in {0, 1} : who[s] \in Players
      BY <1>1 DEF WorkerTypeOK, Bouts, ConnRec
    <3> QED BY <3>1, <1>3 DEF Players
  <2>2. job \in Jobs
    BY <2>1, <1>1 DEF Bouts, Jobs, ReportJobs, Reports
  <2>3. Enqueue(job)
    BY <1>3 DEF EndBout
  <2> QED BY <1>1, <1>2, <1>3, <2>2, <2>3, EnqueueTypes
<1>4. CASE ~(HasRoom /\ known)
  BY <1>1, <1>2, <1>4 DEF EndBout, WorkerTypeOK
<1> QED BY <1>3, <1>4

LEMMA CloseTypes ==
  ASSUME WorkerTypeOK, NEW c \in Conns, Close(c),
         UNCHANGED <<sessions, dealt, results, stop, pipe, held, reported, after>>,
         phase' \in Phases
  PROVE  WorkerTypeOK'
<1>1. CASE BoutOf(c) # {}
  <2>1. PICK b \in bouts : EndBout(b, conns) /\ conns' = Freed(c, Rested(b, conns))
    BY <1>1 DEF Close, BoutOf
  <2>2. conns' \in [Conns -> ConnRec]
    BY <2>1, RestedTypes, FreedTypes DEF WorkerTypeOK
  <2> QED BY <2>1, <2>2, EndBoutTypes DEF Close, WorkerTypeOK
<1>2. CASE BoutOf(c) = {}
  <2>1. conns' \in [Conns -> ConnRec]
    BY <1>2, FreedTypes DEF Close, WorkerTypeOK
  <2> QED BY <1>2, <2>1 DEF Close, WorkerTypeOK
<1> QED BY <1>1, <1>2

LEMMA StartVerifyTypes ==
  ASSUME WorkerTypeOK, NEW c \in Conns, NEW g \in 1 .. MaxSessions, NEW t \in Tokens,
         StartVerify(c, g, t), held' = held
  PROVE  /\ conns' \in [Conns -> ConnRec] /\ closing' \subseteq Conns
         /\ jobs' \in Seq(Jobs) /\ Len(jobs') <= Ring
         /\ worker' \in {"idle", "waiting", "working", "answering", "waking", "gone", "starved"}
         /\ worker' = "working" => held' \in Jobs
         /\ worker' = "answering" => held' \in Results
<1> DEFINE j == [type |-> "verify", conn |-> c, gen |-> g, token |-> t]
<1>1. conns' \in [Conns -> ConnRec]
  <2>1. g \in 0 .. MaxSessions
    OBVIOUS
  <2>2. [conns[c] EXCEPT !.state = "verifying", !.gen = g, !.sent = t] \in ConnRec
    BY <2>1 DEF WorkerTypeOK, ConnRec, ConnStates, Players
  <2> QED BY <2>2 DEF StartVerify, WorkerTypeOK
<1>2. j \in Jobs
  BY DEF Jobs, VerifyJobs
<1>3. CASE HasRoom /\ Enqueue(j) /\ closing' = closing
  BY <1>1, <1>2, <1>3, EnqueueTypes DEF WorkerTypeOK
<1>4. CASE closing' = closing \cup {c} /\ UNCHANGED <<jobs, worker>>
  BY <1>1, <1>4 DEF WorkerTypeOK
<1> QED BY <1>3, <1>4 DEF StartVerify

LEMMA TypeInit == Init => WorkerTypeOK
<1> SUFFICES ASSUME Init PROVE WorkerTypeOK
  OBVIOUS
<1>1. 0 \in 0 .. MaxSessions /\ 0 \in 0 .. MaxBouts /\ 0 <= Ring
  BY WorkerAssumption
<1>2. /\ conns \in [Conns -> ConnRec] /\ closing \subseteq Conns /\ bouts \subseteq Bouts
      /\ sessions \in 0 .. MaxSessions /\ dealt \in 0 .. MaxBouts
  BY <1>1, StateNames DEF Init
<1>3. /\ jobs \in Seq(Jobs) /\ results \in Seq(Results)
      /\ Len(jobs) <= Ring /\ Len(results) <= Ring
      /\ owed \in Seq(Reports) /\ reported \in Seq(Reports)
  BY <1>1 DEF Init
<1> QED BY <1>2, <1>3 DEF Init, WorkerTypeOK, Phases

LEMMA WorkerTypes == WorkerTypeOK /\ (Worker \/ WakeUp) => WorkerTypeOK'
<1> SUFFICES ASSUME WorkerTypeOK, Worker \/ WakeUp PROVE WorkerTypeOK'
  OBVIOUS
<1>1. CASE Take
  <2>1. CASE jobs = <<>>
    BY <1>1, <2>1 DEF Take, WorkerTypeOK, loop, table
  <2>2. CASE jobs # <<>>
    <3>1. Head(jobs) \in Jobs /\ Tail(jobs) \in Seq(Jobs) /\ Len(Tail(jobs)) <= Ring
      BY <2>2, HeadTail, WorkerAssumption DEF WorkerTypeOK
    <3> QED BY <1>1, <2>2, <3>1 DEF Take, WorkerTypeOK, loop, table
  <2> QED BY <2>1, <2>2
<1>2. CASE Verify
  <2>1. held \in VerifyJobs
    BY <1>2 DEF Verify, WorkerTypeOK, Jobs, VerifyJobs, ReportJobs
  <2>2. held' \in Results
    BY <1>2, <2>1 DEF Verify, Results
  <2> QED BY <1>2, <2>2 DEF Verify, WorkerTypeOK, loop, table
<1>3. CASE Report
  <2>1. held.report \in Reports
    BY <1>3 DEF Report, WorkerTypeOK, Jobs, VerifyJobs, ReportJobs
  <2>2. reported' \in Seq(Reports)
    BY <1>3, <2>1, Appended DEF Report, WorkerTypeOK
  <2> QED BY <1>3, <2>2 DEF Report, WorkerTypeOK, loop, table
<1>4. CASE Answer
  <2>1. results' \in Seq(Results) /\ Len(results') <= Ring
    BY <1>4, Appended, WorkerAssumption DEF Answer, WorkerTypeOK
  <2> QED BY <1>4, <2>1 DEF Answer, WorkerTypeOK, loop, table
<1>5. CASE Wake
  BY <1>5 DEF Wake, WorkerTypeOK, loop, table
<1>6. CASE WakeUp
  BY <1>6 DEF WakeUp, WorkerTypeOK, loop, table
<1> QED BY <1>1, <1>2, <1>3, <1>4, <1>5, <1>6 DEF Worker

LEMMA ClientTypes == WorkerTypeOK /\ Numbered /\ Clients => WorkerTypeOK'
<1> SUFFICES ASSUME WorkerTypeOK, Numbered, Clients PROVE WorkerTypeOK'
  OBVIOUS
<1>1. CASE Accept
  <2>1. conns' \in [Conns -> ConnRec]
    BY <1>1, StateNames DEF Accept, WorkerTypeOK, ConnRec, ConnStates, FreeConn
  <2> QED BY <1>1, <2>1 DEF Accept, WorkerTypeOK, loop, thread
<1>2. ASSUME NEW c \in Conns, Hello(c) PROVE WorkerTypeOK'
  <2>1. sessions + 1 \in 1 .. MaxSessions /\ sessions' = sessions + 1
    BY <1>2, WorkerAssumption DEF Hello, WorkerTypeOK
  <2>2. CASE \E t \in Tokens : StartVerify(c, sessions + 1, t)
    BY <1>2, <2>1, <2>2, StartVerifyTypes DEF Hello, WorkerTypeOK, loop
  <2>3. CASE /\ conns' = [conns EXCEPT ![c].state = "needauth", ![c].gen = sessions + 1]
             /\ UNCHANGED <<closing, jobs, worker>>
    <3>1. [conns[c] EXCEPT !.state = "needauth", !.gen = sessions + 1] \in ConnRec
      <4>1. sessions + 1 \in 0 .. MaxSessions
        BY <2>1
      <4> QED BY <4>1 DEF WorkerTypeOK, ConnRec, ConnStates
    <3>2. conns' = [conns EXCEPT ![c] =
                      [conns[c] EXCEPT !.state = "needauth", !.gen = sessions + 1]]
      BY <2>3 DEF WorkerTypeOK, ConnRec
    <3>3. conns' \in [Conns -> ConnRec]
      BY <3>1, <3>2 DEF WorkerTypeOK
    <3> QED BY <1>2, <2>1, <2>3, <3>3 DEF Hello, WorkerTypeOK, loop
  <2> QED BY <1>2, <2>2, <2>3 DEF Hello
<1>3. ASSUME NEW c \in Conns, Auth(c) PROVE WorkerTypeOK'
  <2>1. conns[c].gen \in 1 .. MaxSessions
    BY <1>3, WorkerAssumption DEF Auth, WorkerTypeOK, ConnRec, Numbered
  <2>2. PICK t \in Tokens : StartVerify(c, conns[c].gen, t)
    BY <1>3 DEF Auth
  <2> QED BY <1>3, <2>1, <2>2, StartVerifyTypes DEF Auth, WorkerTypeOK, loop
<1>4. ASSUME NEW c \in Conns, Refuse(c) PROVE WorkerTypeOK'
  BY <1>4 DEF Refuse, WorkerTypeOK, loop, thread
<1>5. ASSUME NEW c \in Conns, Leave(c) PROVE WorkerTypeOK'
  <2>1. PICK b \in bouts : EndBout(b, conns) /\ conns' = Rested(b, conns)
    BY <1>5 DEF Leave, BoutOf
  <2>2. conns' \in [Conns -> ConnRec]
    BY <2>1, RestedTypes DEF WorkerTypeOK
  <2>3. held' = held
    BY <1>5 DEF Leave
  <2> QED BY <1>5, <2>1, <2>2, <2>3, EndBoutTypes DEF Leave, WorkerTypeOK, loop
<1>6. ASSUME NEW c \in Conns, Disconnect(c) PROVE WorkerTypeOK'
  BY <1>6, CloseTypes DEF Disconnect, WorkerTypeOK, loop
<1> QED BY <1>1, <1>2, <1>3, <1>4, <1>5, <1>6 DEF Clients

LEMMA LoopTypes ==
  WorkerTypeOK /\ (Loop \/ Deal \/ ExpireBout \/ Stop \/ \E c \in Conns : ExpireHello(c))
    => WorkerTypeOK'
<1> SUFFICES ASSUME WorkerTypeOK,
                    Loop \/ Deal \/ ExpireBout \/ Stop \/ \E c \in Conns : ExpireHello(c)
             PROVE  WorkerTypeOK'
  OBVIOUS
<1>1. CASE Poll \/ Drain \/ PopOver \/ ReadsOver \/ ExpireOver \/ Join
  BY <1>1 DEF Poll, Drain, PopOver, ReadsOver, ExpireOver, Join, WorkerTypeOK, Phases,
              table, thread
<1>2. CASE Pop
  <2>1. Head(results) \in Results /\ results' \in Seq(Results) /\ Len(results') <= Ring
    BY <1>2, HeadTail, WorkerAssumption DEF Pop, WorkerTypeOK
  <2>2. conns' \in [Conns -> ConnRec] /\ closing' \subseteq Conns
    <3> DEFINE c == Head(results).job.conn
               t == Head(results).job.token
    <3>1. c \in Conns /\ t \in Players
      BY <2>1 DEF Results, VerifyJobs, Players
    <3>2. /\ [conns[c] EXCEPT !.state = "ready"] \in ConnRec
          /\ [conns[c] EXCEPT !.state = "ready", !.player = t] \in ConnRec
      BY <3>1 DEF WorkerTypeOK, ConnRec, ConnStates
    <3>3. \/ UNCHANGED conns
          \/ conns' = [conns EXCEPT ![c] = [conns[c] EXCEPT !.state = "ready", !.player = t]]
          \/ conns' = [conns EXCEPT ![c] = [conns[c] EXCEPT !.state = "ready"]]
      BY <1>2, <3>1 DEF Pop, VerifyDone, WorkerTypeOK, ConnRec
    <3>4. closing' \subseteq Conns
      BY <1>2, <3>1 DEF Pop, VerifyDone, WorkerTypeOK
    <3> QED BY <3>1, <3>2, <3>3, <3>4 DEF WorkerTypeOK
  <2> QED BY <1>2, <2>1, <2>2 DEF Pop, WorkerTypeOK, loop, thread
<1>3. CASE Sweep
  <2>1. CASE \E c \in Marked : Close(c) /\ UNCHANGED phase
    BY <1>3, <2>1, CloseTypes DEF Sweep, Marked, WorkerTypeOK
  <2>2. CASE phase' = "expire" /\ UNCHANGED <<conns, closing, bouts, jobs, worker, owed>>
    BY <1>3, <2>2 DEF Sweep, WorkerTypeOK, Phases
  <2> QED BY <1>3, <2>1, <2>2 DEF Sweep
<1>4. CASE Deal
  <2>1. PICK a \in Conns, b \in Conns :
          /\ bouts' = bouts \cup
               {[id   |-> dealt + 1,
                 seat |-> [s \in {0, 1} |-> IF s = 0 THEN a ELSE b],
                 who  |-> [s \in {0, 1} |-> conns[IF s = 0 THEN a ELSE b].player]]}
          /\ conns' = [conns EXCEPT ![a].state = "playing", ![b].state = "playing"]
    BY <1>4 DEF Deal
  <2>2. dealt' \in 0 .. MaxBouts /\ dealt + 1 \in 1 .. MaxBouts
    BY <1>4, WorkerAssumption DEF Deal, WorkerTypeOK
  <2> DEFINE seat == [s \in {0, 1} |-> IF s = 0 THEN a ELSE b]
             who  == [s \in {0, 1} |-> conns[IF s = 0 THEN a ELSE b].player]
  <2>3. conns \in [Conns -> ConnRec] /\ \A c \in Conns : conns[c].player \in Players
    BY DEF WorkerTypeOK, ConnRec
  <2>5. conns' \in [Conns -> ConnRec]
    BY <2>1, <2>3 DEF ConnRec, ConnStates
  <2>6. seat \in [{0, 1} -> Conns]
    OBVIOUS
  <2>7. who \in [{0, 1} -> Players]
    BY <2>3
  <2>8. bouts' = bouts \cup {[id |-> dealt + 1, seat |-> seat, who |-> who]}
    BY <2>1
  <2> HIDE DEF seat, who
  <2>4. [id |-> dealt + 1, seat |-> seat, who |-> who] \in Bouts
    BY <2>2, <2>6, <2>7 DEF Bouts
  <2>9. bouts' \subseteq Bouts
    BY <2>4, <2>8 DEF WorkerTypeOK
  <2> QED BY <1>4, <2>2, <2>5, <2>9 DEF Deal, WorkerTypeOK, loop, thread
<1>5. CASE ExpireBout
  <2>1. PICK b \in bouts : EndBout(b, conns) /\ conns' = Rested(b, conns)
    BY <1>5 DEF ExpireBout
  <2>2. conns' \in [Conns -> ConnRec]
    BY <2>1, RestedTypes DEF WorkerTypeOK
  <2>3. held' = held
    BY <1>5 DEF ExpireBout
  <2> QED BY <1>5, <2>1, <2>2, <2>3, EndBoutTypes DEF ExpireBout, WorkerTypeOK, loop
<1>6. CASE Stop
  <2>1. conns' \in [Conns -> ConnRec]
    BY <1>6, StateNames DEF Stop
  <2>2. worker' \in {"idle", "waiting", "working", "answering", "waking", "gone", "starved"}
    BY <1>6 DEF Stop, StopSignal, Signalled, WorkerTypeOK
  <2> QED BY <1>6, <2>1, <2>2 DEF Stop, StopSignal, Signalled, WorkerTypeOK, Phases
<1>7. ASSUME NEW c \in Conns, ExpireHello(c) PROVE WorkerTypeOK'
  BY <1>7, CloseTypes DEF ExpireHello, WorkerTypeOK, loop
<1> QED BY <1>1, <1>2, <1>3, <1>4, <1>5, <1>6, <1>7 DEF Loop

-----------------------------------------------------------------------------
(* Identities.  Most steps leave a connection's session alone: they touch   *)
(* nothing of it, clear its slot, or move a verified player in and out of a *)
(* match.                                                                   *)

Calm(c) ==
  \/ conns'[c] = conns[c]
  \/ conns'[c] = FreeConn
  \/ conns'[c] = [FreeConn EXCEPT !.state = "connected"]
  \/ /\ conns[c].state \in {"ready", "playing"}
     /\ \E st \in {"ready", "playing"} : conns'[c] = [conns[c] EXCEPT !.state = st]

LEMMA CalmFacts ==
  ASSUME NEW c \in Conns, conns[c] \in ConnRec, Calm(c)
  PROVE  /\ \/ conns'[c].gen = 0
            \/ /\ conns'[c].gen = conns[c].gen
               /\ conns'[c].sent = conns[c].sent
               /\ conns'[c].state = "needauth" => conns[c].state = "needauth"
         /\ \/ conns'[c].player = Nobody /\ conns'[c].state \in {"free", "connected"}
            \/ conns'[c] = conns[c]
            \/ /\ conns[c].state \in {"ready", "playing"}
               /\ conns'[c].state \in {"ready", "playing"}
               /\ conns'[c].gen = conns[c].gen
               /\ conns'[c].player = conns[c].player
               /\ conns'[c].sent = conns[c].sent
         /\ conns'[c].state \in Unverified \cup {"free"} =>
              conns'[c].player = Nobody \/ conns'[c] = conns[c]
<1>1. CASE conns'[c] = conns[c]
  BY <1>1
<1>2. CASE conns'[c] = FreeConn \/ conns'[c] = [FreeConn EXCEPT !.state = "connected"]
  <2>1. /\ conns'[c].player = Nobody /\ conns'[c].gen = 0
        /\ conns'[c].state \in {"free", "connected"}
    BY <1>2 DEF FreeConn
  <2> QED BY <2>1
<1>3. ASSUME conns[c].state \in {"ready", "playing"}, NEW st \in {"ready", "playing"},
             conns'[c] = [conns[c] EXCEPT !.state = st]
      PROVE  /\ conns'[c].state = st /\ conns'[c].gen = conns[c].gen
             /\ conns'[c].sent = conns[c].sent /\ conns'[c].player = conns[c].player
  BY <1>3 DEF ConnRec
<1>4. CASE conns[c].state \in {"ready", "playing"} /\ \E st \in {"ready", "playing"} :
             conns'[c] = [conns[c] EXCEPT !.state = st]
  BY <1>3, <1>4 DEF Unverified
<1> QED BY <1>1, <1>2, <1>4 DEF Calm

LEMMA CalmSound ==
  ASSUME Sound, WorkerTypeOK', Seated', sessions' = sessions,
         InFlight' \subseteq InFlight, \A c \in Conns : Calm(c)
  PROVE  Sound'
<1>1. \A c \in Conns : conns[c] \in ConnRec
  BY DEF Sound, WorkerTypeOK
<1>2. ASSUME NEW j \in InFlight PROVE Faithful(j)'
  <2>1. j.conn \in Conns /\ j.gen # 0
    BY WorkerAssumption DEF InFlight, VerifyJobs
  <2>2. Faithful(j)
    BY DEF Sound
  <2>3. \/ conns'[j.conn].gen = 0
        \/ /\ conns'[j.conn].gen = conns[j.conn].gen
           /\ conns'[j.conn].sent = conns[j.conn].sent
           /\ conns'[j.conn].state = "needauth" => conns[j.conn].state = "needauth"
    BY <1>1, <2>1, CalmFacts
  <2> QED BY <2>1, <2>2, <2>3 DEF Faithful
<1>3. Numbered' /\ Begun'
  <2>1. sessions \in Nat /\ \A c \in Conns : conns[c].gen \in Nat
    BY <1>1, WorkerAssumption DEF Sound, WorkerTypeOK, ConnRec
  <2> QED BY <1>1, <2>1, CalmFacts DEF Sound, Numbered, Begun
<1>4. NoneYet'
  BY <1>1, CalmFacts DEF Sound, NoneYet
<1>5. OwnIdentity'
  BY <1>1, CalmFacts DEF Sound, OwnIdentity
<1> QED BY <1>2, <1>3, <1>4, <1>5 DEF Sound

LEMMA SameFlight ==
  ASSUME UNCHANGED <<jobs, results, worker, held>>
  PROVE  InFlight' = InFlight
BY DEF InFlight

\* A match's report is no verification.
LEMMA ReportFlight ==
  ASSUME WorkerTypeOK, NEW b \in bouts, EndBout(b, conns), UNCHANGED <<results, held>>
  PROVE  InFlight' \subseteq InFlight
<1> SUFFICES ASSUME NEW j \in VerifyJobs, j \in InFlight' PROVE j \in InFlight
  BY DEF InFlight
<1>1. worker' = worker \/ (worker' = "idle" /\ worker = "waiting")
  BY DEF EndBout, Enqueue, Signalled
<1>2. ASSUME NEW k \in DOMAIN jobs', jobs'[k] = j
      PROVE  \E i \in DOMAIN jobs : jobs[i] = j
  <2>1. CASE jobs' = jobs
    BY <1>2, <2>1
  <2>2. CASE \E r : jobs' = Append(jobs, [type |-> "report", report |-> r])
    <3>1. PICK r : jobs' = Append(jobs, [type |-> "report", report |-> r])
      BY <2>2
    <3>2. jobs'[k] # [type |-> "report", report |-> r]
      BY <1>2 DEF VerifyJobs
    <3>3. jobs \in Seq(Jobs)
      BY DEF WorkerTypeOK
    <3>4. k \in DOMAIN jobs /\ jobs'[k] = jobs[k]
      BY <1>2, <3>1, <3>2, <3>3
    <3> QED BY <1>2, <3>4
  <2> QED BY <2>1, <2>2 DEF EndBout, Enqueue
<1> QED BY <1>1, <1>2 DEF InFlight

\* The end of a match puts its seated players back, and touches nobody else.
LEMMA RestedEither ==
  ASSUME Sound, NEW b \in bouts, NEW d \in Conns
  PROVE  \/ Rested(b, conns)[d] = conns[d]
         \/ /\ conns[d].state = "playing"
            /\ Rested(b, conns)[d] = [conns[d] EXCEPT !.state = "ready"]
<1>1. CASE \E s \in {0, 1} : b.seat[s] = d
  <2>1. conns[d].state = "playing"
    BY <1>1 DEF Sound, Seated
  <2> QED BY <2>1, <1>1 DEF Rested
<1>2. CASE ~\E s \in {0, 1} : b.seat[s] = d
  BY <1>2 DEF Rested
<1> QED BY <1>1, <1>2

LEMMA EndSound ==
  ASSUME Sound, WorkerTypeOK', NEW b \in bouts, EndBout(b, conns),
         conns' = Rested(b, conns), UNCHANGED <<sessions, results, held>>
  PROVE  Sound'
<1>1. WorkerTypeOK /\ \A c \in Conns : conns[c] \in ConnRec
  BY DEF Sound, WorkerTypeOK
<1>2. ASSUME NEW c \in Conns PROVE Calm(c)
  <2>1. \/ conns'[c] = conns[c]
        \/ conns[c].state = "playing" /\ conns'[c] = [conns[c] EXCEPT !.state = "ready"]
    BY RestedEither
  <2> QED BY <2>1 DEF Calm
<1>3. Seated'
  <2>1. bouts' = bouts \ {b}
    BY DEF EndBout
  <2>2. ASSUME NEW d \in bouts', NEW s \in {0, 1} PROVE conns'[d.seat[s]] = conns[d.seat[s]]
    <3>1. d \in bouts /\ d # b /\ d.seat[s] \in Conns
      BY <2>1, <1>1 DEF WorkerTypeOK, Bouts
    <3>2. \A r \in {0, 1} : b.seat[r] # d.seat[s]
      BY <3>1 DEF Sound, Seated
    <3> QED BY <3>1, <3>2 DEF Rested
  <2> QED BY <2>1, <2>2 DEF Sound, Seated
<1>4. InFlight' \subseteq InFlight
  BY <1>1, ReportFlight
<1> QED BY <1>2, <1>3, <1>4, CalmSound

LEMMA CloseSound ==
  ASSUME Sound, WorkerTypeOK', NEW c \in Conns, Close(c), UNCHANGED <<sessions, results, held>>
  PROVE  Sound'
<1>1. WorkerTypeOK /\ \A d \in Conns : conns[d] \in ConnRec
  BY DEF Sound, WorkerTypeOK
<1>2. CASE BoutOf(c) # {}
  <2>1. PICK b \in BoutOf(c) : EndBout(b, conns) /\ conns' = Freed(c, Rested(b, conns))
    BY <1>2 DEF Close
  <2>2. b \in bouts /\ \E s \in {0, 1} : b.seat[s] = c
    BY <2>1 DEF BoutOf
  <2>3. \A d \in Conns : conns'[d] = IF d = c THEN FreeConn ELSE Rested(b, conns)[d]
    BY <2>1 DEF Freed, Rested
  <2>4. ASSUME NEW d \in Conns PROVE Calm(d)
    <3>1. CASE d = c
      BY <2>3, <3>1 DEF Calm
    <3>2. CASE d # c
      <4>1. conns'[d] = Rested(b, conns)[d]
        BY <2>3, <3>2
      <4>2. \/ conns'[d] = conns[d]
            \/ conns[d].state = "playing" /\ conns'[d] = [conns[d] EXCEPT !.state = "ready"]
        BY <2>2, <4>1, RestedEither
      <4> QED BY <4>2 DEF Calm
    <3> QED BY <3>1, <3>2
  <2>5. Seated'
    <3>1. bouts' = bouts \ {b}
      BY <2>1 DEF EndBout
    <3>2. ASSUME NEW d \in bouts', NEW s \in {0, 1} PROVE conns'[d.seat[s]] = conns[d.seat[s]]
      <4>1. d \in bouts /\ d # b /\ d.seat[s] \in Conns
        BY <3>1, <1>1 DEF WorkerTypeOK, Bouts
      <4>2. \A r \in {0, 1} : b.seat[r] # d.seat[s]
        BY <4>1, <2>2 DEF Sound, Seated
      <4>3. d.seat[s] # c
        BY <4>2, <2>2
      <4>4. conns'[d.seat[s]] = Rested(b, conns)[d.seat[s]]
        BY <4>1, <4>3, <2>3
      <4> QED BY <4>1, <4>2, <4>4 DEF Rested
    <3> QED BY <3>1, <3>2 DEF Sound, Seated
  <2>6. InFlight' \subseteq InFlight
    BY <1>1, <2>1, <2>2, ReportFlight
  <2> QED BY <2>4, <2>5, <2>6, CalmSound
<1>3. CASE BoutOf(c) = {}
  <2>1. UNCHANGED <<bouts, jobs, worker>> /\ \A d \in Conns :
          conns'[d] = IF d = c THEN FreeConn ELSE conns[d]
    BY <1>1, <1>3 DEF Close, Freed, WorkerTypeOK
  <2>2. \A b \in bouts : \A s \in {0, 1} : b.seat[s] \in Conns /\ b.seat[s] # c
    BY <1>1, <1>3 DEF BoutOf, WorkerTypeOK, Bouts
  <2>3. Seated'
    BY <2>1, <2>2 DEF Sound, Seated
  <2>4. InFlight' \subseteq InFlight
    BY <2>1, SameFlight
  <2> QED BY <2>1, <2>3, <2>4, CalmSound DEF Calm
<1> QED BY <1>2, <1>3

-----------------------------------------------------------------------------
(* The steps that begin and end a verification.                            *)

LEMMA StartSound ==
  ASSUME Sound, WorkerTypeOK', NEW c \in Conns, NEW g \in Nat \ {0}, NEW t \in Tokens,
         StartVerify(c, g, t),
         conns[c].state \in {"connected", "needauth"},
         sessions' >= sessions, g <= sessions',
         \A j \in InFlight : j.conn = c => j.gen # g,
         UNCHANGED <<bouts, results, held>>
  PROVE  Sound'
<1> DEFINE new == [type |-> "verify", conn |-> c, gen |-> g, token |-> t]
<1>1. WorkerTypeOK /\ \A d \in Conns : conns[d] \in ConnRec
  BY DEF Sound, WorkerTypeOK
<1>2. \A d \in Conns : d # c => conns'[d] = conns[d]
  BY <1>1 DEF StartVerify, WorkerTypeOK
<1>3. /\ conns'[c].state = "verifying" /\ conns'[c].gen = g
      /\ conns'[c].sent = t /\ conns'[c].player = conns[c].player
  BY <1>1 DEF StartVerify, WorkerTypeOK, ConnRec
<1>4. ASSUME NEW j \in InFlight' PROVE j \in InFlight \/ j = new
  <2>1. worker' = worker \/ (worker' = "idle" /\ worker = "waiting")
    BY DEF StartVerify, Enqueue, Signalled
  <2>2. ASSUME NEW k \in DOMAIN jobs', jobs'[k] = j
        PROVE  j = new \/ \E i \in DOMAIN jobs : jobs[i] = j
    <3>1. jobs' = jobs \/ jobs' = Append(jobs, new)
      BY DEF StartVerify, Enqueue
    <3>2. jobs \in Seq(Jobs)
      BY <1>1 DEF WorkerTypeOK
    <3> QED BY <2>2, <3>1, <3>2
  <2>3. j \in VerifyJobs
    BY DEF InFlight
  <2> QED BY <2>1, <2>2, <2>3 DEF InFlight
<1>5. ASSUME NEW j \in InFlight' PROVE Faithful(j)'
  <2>1. CASE j = new
    BY <1>3, <2>1 DEF Faithful
  <2>2. CASE j \in InFlight
    <3>1. Faithful(j) /\ j.conn \in Conns /\ j.gen \in Nat /\ sessions \in Nat /\ sessions' \in Nat
      BY <1>1, <2>2, WorkerAssumption DEF Sound, InFlight, VerifyJobs, WorkerTypeOK
    <3>2. CASE j.conn = c
      BY <1>3, <2>2, <3>1, <3>2 DEF Faithful
    <3>3. CASE j.conn # c
      BY <1>2, <3>1, <3>3 DEF Faithful
    <3> QED BY <3>2, <3>3
  <2> QED BY <1>4, <2>1, <2>2
<1>6. conns[c].player = Nobody
  BY DEF Sound, NoneYet, Unverified
<1>7. Numbered' /\ NoneYet' /\ OwnIdentity' /\ Begun'
  <2>1. /\ sessions \in Nat /\ sessions' \in Nat
        /\ \A d \in Conns : conns[d].gen \in Nat
    BY <1>1, WorkerAssumption DEF WorkerTypeOK, ConnRec
  <2>2. Begun'
    BY <1>2, <1>3, <2>1 DEF Sound, Begun
  <2> QED BY <1>2, <1>3, <1>6, <2>2 DEF Sound, Numbered, NoneYet, OwnIdentity
<1>8. Seated'
  <2>1. \A b \in bouts : \A s \in {0, 1} : b.seat[s] \in Conns /\ b.seat[s] # c
    BY <1>1 DEF Sound, Seated, WorkerTypeOK, Bouts
  <2> QED BY <1>2, <2>1 DEF Sound, Seated
<1> QED BY <1>5, <1>7, <1>8 DEF Sound

LEMMA PopSound ==
  ASSUME Sound, WorkerTypeOK', Pop
  PROVE  Sound'
<1> DEFINE r == Head(results)
           c == r.job.conn
<1>1. WorkerTypeOK /\ (\A d \in Conns : conns[d] \in ConnRec)
  BY DEF Sound, WorkerTypeOK
<1>2. /\ r \in Results /\ r = results[1] /\ 1 \in DOMAIN results
      /\ \A k \in DOMAIN Tail(results) :
           k + 1 \in DOMAIN results /\ Tail(results)[k] = results[k + 1]
  BY <1>1, HeadTail DEF Pop, WorkerTypeOK
<1>3. c \in Conns /\ r.job \in InFlight
  BY <1>2 DEF Results, VerifyJobs, InFlight
<1>4. UNCHANGED <<bouts, sessions, jobs, worker, held>> /\ results' = Tail(results)
  BY DEF Pop, thread
<1>5. InFlight' \subseteq InFlight
  BY <1>2, <1>4 DEF InFlight
<1>6. CASE ~Current(r.job) \/ UNCHANGED conns
  <2>1. UNCHANGED conns
    BY <1>6 DEF Pop, VerifyDone
  <2>2. Seated'
    BY <1>4, <2>1 DEF Sound, Seated
  <2> QED BY <1>4, <1>5, <2>1, <2>2, CalmSound DEF Calm
<1>7. CASE Current(r.job) /\ conns' # conns
  <2>1. /\ \A d \in Conns : d # c => conns'[d] = conns[d]
        /\ conns'[c].state = "ready" /\ conns'[c].gen = conns[c].gen
        /\ conns'[c].sent = conns[c].sent
        /\ \/ conns'[c].player = r.job.token
           \/ conns'[c].player = conns[c].player /\ FailOpen
    <3>1. \/ conns' = [conns EXCEPT ![c].state = "ready", ![c].player = r.job.token]
          \/ conns' = [conns EXCEPT ![c].state = "ready"] /\ FailOpen
      BY <1>7 DEF Pop, VerifyDone
    <3>2. CASE conns' = [conns EXCEPT ![c].state = "ready", ![c].player = r.job.token]
      BY <1>1, <1>3, <3>2 DEF WorkerTypeOK, ConnRec
    <3>3. CASE conns' = [conns EXCEPT ![c].state = "ready"] /\ FailOpen
      BY <1>1, <1>3, <3>3 DEF WorkerTypeOK, ConnRec
    <3> QED BY <3>1, <3>2, <3>3
  <2>2. conns[c].sent = r.job.token /\ conns[c].state = "verifying" /\ conns[c].player = Nobody
    BY <1>3, <1>7 DEF Current, Sound, Faithful, NoneYet, Unverified
  <2>3. r.job.token # Nobody
    BY <1>2, WorkerAssumption DEF Results, VerifyJobs
  <2>4. ASSUME NEW j \in InFlight' PROVE Faithful(j)'
    <3>1. Faithful(j) /\ j.conn \in Conns
      BY <1>5 DEF Sound, InFlight, VerifyJobs
    <3> QED BY <1>4, <2>1, <2>2, <3>1 DEF Faithful
  <2>5. Numbered' /\ NoneYet' /\ OwnIdentity' /\ Begun'
    BY <1>4, <2>1, <2>2, <2>3 DEF Sound, Numbered, NoneYet, OwnIdentity, Unverified, Begun
  <2>6. Seated'
    <3>1. \A b \in bouts : \A s \in {0, 1} : b.seat[s] \in Conns /\ b.seat[s] # c
      BY <1>1, <2>2 DEF Sound, Seated, WorkerTypeOK, Bouts
    <3> QED BY <1>4, <2>1, <3>1 DEF Sound, Seated
  <2> QED BY <2>4, <2>5, <2>6 DEF Sound
<1> QED BY <1>6, <1>7

LEMMA WorkerSound ==
  ASSUME Sound, WorkerTypeOK', Worker \/ WakeUp
  PROVE  Sound'
<1>1. WorkerTypeOK
  BY DEF Sound
<1>2. UNCHANGED <<conns, bouts, sessions>>
  BY DEF Worker, WakeUp, Take, Verify, Report, Answer, Wake, table
<1>3. InFlight' \subseteq InFlight
  <2>1. CASE Take
    <3>1. jobs # <<>> => /\ Head(jobs) = jobs[1] /\ 1 \in DOMAIN jobs
                         /\ \A k \in DOMAIN Tail(jobs) :
                              k + 1 \in DOMAIN jobs /\ Tail(jobs)[k] = jobs[k + 1]
      BY <1>1, HeadTail DEF WorkerTypeOK
    <3> QED BY <2>1, <3>1 DEF Take, InFlight
  <2>2. CASE Verify
    BY <2>2 DEF Verify, InFlight
  <2>3. CASE Report \/ Wake \/ WakeUp
    BY <2>3 DEF Report, Wake, WakeUp, InFlight
  <2>4. CASE Answer
    <3>1. \A k \in DOMAIN results' : results'[k] = held \/ (k \in DOMAIN results /\ results'[k] = results[k])
      BY <1>1, <2>4, Appended DEF Answer, WorkerTypeOK
    <3> QED BY <2>4, <3>1 DEF Answer, InFlight
  <2> QED BY <2>1, <2>2, <2>3, <2>4 DEF Worker
<1>4. Seated'
  BY <1>2 DEF Sound, Seated
<1> QED BY <1>2, <1>3, <1>4, CalmSound DEF Calm

LEMMA DealSound ==
  ASSUME Sound, WorkerTypeOK', Deal
  PROVE  Sound'
<1>1. WorkerTypeOK /\ \A d \in Conns : conns[d] \in ConnRec
  BY DEF Sound, WorkerTypeOK
<1>2. PICK a \in Conns, b \in Conns, n \in bouts' :
        /\ a # b /\ conns[a].state = "ready" /\ conns[b].state = "ready"
        /\ n.seat = [s \in {0, 1} |-> IF s = 0 THEN a ELSE b]
        /\ bouts' = bouts \cup {n}
        /\ conns' = [conns EXCEPT ![a].state = "playing", ![b].state = "playing"]
  BY DEF Deal
<1>3. UNCHANGED <<sessions, jobs, results, worker, held>>
  BY DEF Deal, thread
<1>4. \A c \in Conns : conns'[c] = IF c \in {a, b}
                                  THEN [conns[c] EXCEPT !.state = "playing"] ELSE conns[c]
  BY <1>1, <1>2 DEF WorkerTypeOK
<1>5. \A c \in Conns : Calm(c)
  BY <1>1, <1>2, <1>4 DEF Calm
<1>6. Seated'
  <2>1. n.seat[0] = a /\ n.seat[1] = b
    BY <1>2
  <2>2. conns'[a].state = "playing" /\ conns'[b].state = "playing"
    BY <1>1, <1>4 DEF ConnRec
  <2>3. ASSUME NEW d \in bouts, NEW s \in {0, 1}
        PROVE  /\ d.seat[s] \in Conns \ {a, b}
               /\ conns'[d.seat[s]].state = "playing"
    <3>1. d.seat[s] \in Conns /\ conns[d.seat[s]].state = "playing"
      BY <1>1, <2>3 DEF Sound, Seated, WorkerTypeOK, Bouts
    <3> QED BY <1>2, <1>4, <3>1
  <2>4. n \notin bouts
    BY <2>1, <2>3
  <2>5. ASSUME NEW d \in bouts', NEW s \in {0, 1}
        PROVE  /\ conns'[d.seat[s]].state = "playing"
               /\ \A e \in bouts' \ {d} : \A r \in {0, 1} : e.seat[r] # d.seat[s]
    <3>1. CASE d = n
      <4>1. d.seat[s] = a \/ d.seat[s] = b
        BY <2>1, <3>1
      <4>2. conns'[d.seat[s]].state = "playing"
        BY <2>2, <4>1
      <4>3. \A e \in bouts : \A r \in {0, 1} : e.seat[r] # d.seat[s]
        BY <2>3, <4>1
      <4>4. bouts' \ {d} \subseteq bouts
        BY <1>2, <3>1
      <4> QED BY <4>2, <4>3, <4>4
    <3>2. CASE d \in bouts
      <4>1. conns'[d.seat[s]].state = "playing" /\ d.seat[s] \in Conns \ {a, b}
        BY <2>3, <2>5, <3>2
      <4>2. \A r \in {0, 1} : n.seat[r] # d.seat[s]
        BY <2>1, <4>1
      <4>3. \A e \in bouts \ {d} : \A r \in {0, 1} : e.seat[r] # d.seat[s]
        BY <2>5, <3>2 DEF Sound, Seated
      <4> QED BY <1>2, <4>1, <4>2, <4>3
    <3> QED BY <1>2, <3>1, <3>2
  <2> QED BY <2>5 DEF Seated
<1> QED BY <1>3, <1>5, <1>6, SameFlight, CalmSound

LEMMA ClientSound ==
  ASSUME Sound, WorkerTypeOK', Clients
  PROVE  Sound'
<1>1. WorkerTypeOK /\ \A d \in Conns : conns[d] \in ConnRec
  BY DEF Sound, WorkerTypeOK
<1>2. CASE Accept
  <2>1. PICK c \in Conns :
          /\ conns[c].state = "free"
          /\ conns' = [conns EXCEPT ![c] = [FreeConn EXCEPT !.state = "connected"]]
    BY <1>2 DEF Accept
  <2>2. \A b \in bouts : \A s \in {0, 1} : b.seat[s] \in Conns /\ b.seat[s] # c
    BY <1>1, <2>1 DEF Sound, Seated, WorkerTypeOK, Bouts
  <2>3. Seated'
    BY <1>1, <1>2, <2>1, <2>2 DEF Accept, Sound, Seated, WorkerTypeOK
  <2>4. \A d \in Conns : Calm(d)
    BY <1>1, <2>1 DEF Calm, WorkerTypeOK
  <2> QED BY <1>2, <2>3, <2>4, SameFlight, CalmSound DEF Accept, thread
<1>3. ASSUME NEW c \in Conns, Hello(c) PROVE Sound'
  <2>1. /\ sessions' = sessions + 1 /\ sessions \in Nat
        /\ conns[c].state = "connected" /\ UNCHANGED <<bouts, results, held>>
    BY <1>1, <1>3, WorkerAssumption DEF Hello, WorkerTypeOK
  <2>2. ASSUME NEW t \in Tokens, StartVerify(c, sessions + 1, t) PROVE Sound'
    <3>1. \A j \in InFlight : j.gen # sessions + 1
      BY <2>1, WorkerAssumption DEF Sound, Faithful, InFlight, VerifyJobs
    <3> QED BY <2>1, <2>2, <3>1, StartSound
  <2>3. CASE /\ conns' = [conns EXCEPT ![c].state = "needauth", ![c].gen = sessions + 1]
             /\ UNCHANGED <<closing, jobs, worker>>
    <3>1. /\ \A d \in Conns : d # c => conns'[d] = conns[d]
          /\ conns'[c].state = "needauth" /\ conns'[c].gen = sessions + 1
          /\ conns'[c].player = conns[c].player
      BY <1>1, <2>3 DEF WorkerTypeOK, ConnRec
    <3>2. conns[c].player = Nobody
      BY <2>1 DEF Sound, NoneYet, Unverified
    <3>3. ASSUME NEW j \in InFlight' PROVE Faithful(j)'
      <4>1. j \in InFlight
        BY <2>1, <2>3, SameFlight
      <4>2. Faithful(j) /\ j.conn \in Conns /\ j.gen \in Nat
        BY <4>1, WorkerAssumption DEF Sound, InFlight, VerifyJobs
      <4> QED BY <2>1, <3>1, <4>2 DEF Faithful
    <3>4. Numbered' /\ NoneYet' /\ OwnIdentity' /\ Begun'
      <4>1. \A d \in Conns : conns[d].gen \in Nat
        BY <1>1 DEF ConnRec
      <4>2. Begun'
        BY <2>1, <3>1, <4>1 DEF Sound, Begun
      <4> QED BY <2>1, <3>1, <3>2, <4>2 DEF Sound, Numbered, NoneYet, OwnIdentity
    <3>5. Seated'
      <4>1. \A b \in bouts : \A s \in {0, 1} : b.seat[s] \in Conns /\ b.seat[s] # c
        BY <1>1, <2>1 DEF Sound, Seated, WorkerTypeOK, Bouts
      <4> QED BY <2>1, <3>1, <4>1 DEF Sound, Seated
    <3> QED BY <3>3, <3>4, <3>5 DEF Sound
  <2> QED BY <1>3, <2>2, <2>3 DEF Hello
<1>4. ASSUME NEW c \in Conns, Auth(c) PROVE Sound'
  <2>1. PICK t \in Tokens : StartVerify(c, conns[c].gen, t)
    BY <1>4 DEF Auth
  <2>2. /\ conns[c].state = "needauth" /\ sessions' = sessions
        /\ UNCHANGED <<bouts, results, held>>
    BY <1>4 DEF Auth
  <2>3. sessions \in Nat /\ conns[c].gen \in Nat \ {0}
    BY <1>1, <2>2, WorkerAssumption DEF Sound, Numbered, WorkerTypeOK, ConnRec
  <2>4. \A j \in InFlight : j.conn = c => j.gen # conns[c].gen
    BY <2>2 DEF Sound, Faithful
  <2>5. conns[c].gen <= sessions
    BY DEF Sound, Begun
  <2> QED BY <2>1, <2>2, <2>3, <2>4, <2>5, StartSound
<1>5. ASSUME NEW c \in Conns, Refuse(c) PROVE Sound'
  <2>1. UNCHANGED <<conns, bouts, sessions, jobs, results, worker, held>>
    BY <1>5 DEF Refuse, thread
  <2>2. Seated'
    BY <2>1 DEF Sound, Seated
  <2> QED BY <2>1, <2>2, SameFlight, CalmSound DEF Calm
<1>6. ASSUME NEW c \in Conns, Leave(c) PROVE Sound'
  BY <1>6, EndSound DEF Leave, BoutOf
<1>7. ASSUME NEW c \in Conns, Disconnect(c) PROVE Sound'
  BY <1>7, CloseSound DEF Disconnect
<1> QED BY <1>2, <1>3, <1>4, <1>5, <1>6, <1>7 DEF Clients

LEMMA LoopSound ==
  ASSUME Sound, WorkerTypeOK',
         Loop \/ Deal \/ ExpireBout \/ Stop \/ \E c \in Conns : ExpireHello(c)
  PROVE  Sound'
<1>1. CASE Poll \/ Drain \/ PopOver \/ ReadsOver \/ ExpireOver \/ Join
  <2>1. UNCHANGED <<conns, bouts, sessions, jobs, results, worker, held>>
    BY <1>1 DEF Poll, Drain, PopOver, ReadsOver, ExpireOver, Join, table, thread
  <2>2. Seated'
    BY <2>1 DEF Sound, Seated
  <2> QED BY <2>1, <2>2, SameFlight, CalmSound DEF Calm
<1>2. CASE Sweep
  <2>1. CASE \E c \in Marked : Close(c) /\ UNCHANGED phase
    BY <1>2, <2>1, CloseSound DEF Sweep, Marked, Sound, WorkerTypeOK
  <2>2. CASE UNCHANGED <<conns, closing, bouts, jobs, worker, owed>>
    <3>1. UNCHANGED <<conns, bouts, sessions, jobs, results, worker, held>>
      BY <1>2, <2>2 DEF Sweep
    <3>2. Seated'
      BY <3>1 DEF Sound, Seated
    <3> QED BY <3>1, <3>2, SameFlight, CalmSound DEF Calm
  <2> QED BY <1>2, <2>1, <2>2 DEF Sweep
<1>3. CASE ExpireBout
  BY <1>3, EndSound DEF ExpireBout
<1>4. CASE Stop
  <2>1. InFlight' = InFlight
    BY <1>4 DEF Stop, StopSignal, Signalled, InFlight
  <2>2. Seated'
    BY <1>4 DEF Stop, Seated
  <2> QED BY <1>4, <2>1, <2>2, CalmSound DEF Stop, Calm
<1>5. ASSUME NEW c \in Conns, ExpireHello(c) PROVE Sound'
  BY <1>5, CloseSound DEF ExpireHello
<1> QED BY <1>1, <1>2, <1>3, <1>4, <1>5, DealSound, PopSound DEF Loop

-----------------------------------------------------------------------------
(* The theorems.                                                           *)

LEMMA SoundInit == Init => Sound
<1> SUFFICES ASSUME Init PROVE Sound
  OBVIOUS
<1>1. InFlight = {}
  BY DEF Init, InFlight
<1>2. \A c \in Conns : conns[c].state = "free" /\ conns[c].player = Nobody /\ conns[c].gen = 0
  BY DEF Init, FreeConn
<1>3. Numbered /\ NoneYet /\ OwnIdentity /\ Seated /\ Begun
  BY <1>2, WorkerAssumption DEF Init, Numbered, NoneYet, OwnIdentity, Seated, Begun
<1> QED BY <1>1, <1>3, TypeInit DEF Sound

LEMMA SoundNext == Sound /\ [Next]_vars => Sound'
<1> SUFFICES ASSUME Sound, [Next]_vars PROVE Sound'
  OBVIOUS
<1>1. WorkerTypeOK /\ Numbered
  BY DEF Sound
<1>2. CASE Worker \/ WakeUp
  BY <1>1, <1>2, WorkerTypes, WorkerSound
<1>3. CASE Clients
  BY <1>1, <1>3, ClientTypes, ClientSound
<1>4. CASE Loop \/ Deal \/ ExpireBout \/ Stop \/ \E c \in Conns : ExpireHello(c)
  BY <1>1, <1>4, LoopTypes, LoopSound
<1>5. CASE UNCHANGED vars
  <2>1. WorkerTypeOK'
    BY <1>1, <1>5 DEF vars, WorkerTypeOK
  <2>2. UNCHANGED <<conns, bouts, sessions, jobs, results, worker, held>>
    BY <1>5 DEF vars
  <2>3. Seated'
    BY <2>2 DEF Sound, Seated
  <2> QED BY <2>1, <2>2, <2>3, SameFlight, CalmSound DEF Calm
<1> QED BY <1>2, <1>3, <1>4, <1>5 DEF Next, Stopped

\* Both threads' variables keep their types, whatever the other does.
THEOREM WorkerTypeCorrect == Spec => []WorkerTypeOK
<1>1. Sound => WorkerTypeOK
  BY DEF Sound
<1> QED BY <1>1, SoundInit, SoundNext, PTL DEF Spec

\* verify_done: an answer that comes back late, to a slot used anew, never gives
\* a client another's identity, and only --auth-fail-open lets one play without.
THEOREM IdentityIsOwn == Spec => []OwnIdentity
<1>1. Sound => OwnIdentity
  BY DEF Sound
<1> QED BY <1>1, SoundInit, SoundNext, PTL DEF Spec

\* The worker never waits on the condition variable over a job or over the stop
\* flag: whoever leaves it one signals in the same critical section.
THEOREM WorkerAwake == Spec => []NoLostWakeup
<1>1. Init => NoLostWakeup
  BY DEF Init, NoLostWakeup
<1>2. ASSUME NoLostWakeup, [Next]_vars PROVE NoLostWakeup'
  <2>1. CASE Worker \/ WakeUp
    BY <1>2, <2>1 DEF NoLostWakeup, Worker, WakeUp, Take, Verify, Report, Answer, Wake
  <2>2. ASSUME NEW b, NEW from, EndBout(b, from), stop' = stop PROVE NoLostWakeup'
    BY <1>2, <2>2 DEF NoLostWakeup, EndBout, Enqueue, Signalled
  <2>3. ASSUME NEW c, Close(c), stop' = stop PROVE NoLostWakeup'
    BY <1>2, <2>2, <2>3 DEF NoLostWakeup, Close
  <2>4. ASSUME NEW c, NEW g, NEW t, StartVerify(c, g, t), stop' = stop PROVE NoLostWakeup'
    BY <1>2, <2>4 DEF NoLostWakeup, StartVerify, Enqueue, Signalled
  <2>5. CASE Clients
    BY <1>2, <2>2, <2>3, <2>4, <2>5 DEF NoLostWakeup, Clients, Accept, Hello, Auth, Refuse,
                                        Leave, Disconnect, thread
  <2>6. CASE Poll \/ Drain \/ Pop \/ PopOver \/ ReadsOver \/ ExpireOver \/ Join \/ Deal
    BY <1>2, <2>6 DEF NoLostWakeup, Poll, Drain, Pop, PopOver, ReadsOver, ExpireOver, Join,
                      Deal, thread
  <2>7. CASE Sweep \/ ExpireBout \/ \E c \in Conns : ExpireHello(c)
    BY <1>2, <2>2, <2>3, <2>7 DEF NoLostWakeup, Sweep, ExpireBout, ExpireHello
  <2>8. CASE Stop
    BY <1>2, <2>8 DEF NoLostWakeup, Stop, StopSignal, Signalled
  <2>9. CASE UNCHANGED vars
    BY <1>2, <2>9 DEF NoLostWakeup, vars
  <2> QED BY <1>2, <2>1, <2>5, <2>6, <2>7, <2>8, <2>9 DEF Next, Loop, Stopped
<1> QED BY <1>1, <1>2, PTL DEF Spec

\* poll() never sleeps over a result: its byte is in the pipe, or on its way, or
\* the loop is fetching, wherever the two threads stand.
THEOREM ResultsSeen == Spec => []ResultsAreSeen
<1>1. Init => ResultsAreSeen
  BY DEF Init, ResultsAreSeen
<1>2. ASSUME ResultsAreSeen, [Next]_vars PROVE ResultsAreSeen'
  <2>1. CASE Worker \/ WakeUp
    BY <1>2, <2>1 DEF ResultsAreSeen, Worker, WakeUp, Take, Verify, Report, Answer, Wake, loop
  <2>2. ASSUME UNCHANGED <<results, pipe>>, worker' = worker \/ worker # "waking",
               phase' = phase \/ (phase \notin {"drain", "pop"} /\ phase # "join" /\ phase # "stopped")
                              \/ phase' \in {"join", "stopped"}
        PROVE  ResultsAreSeen'
    BY <1>2, <2>2 DEF ResultsAreSeen
  <2>3. ASSUME NEW b, NEW from, EndBout(b, from) PROVE worker' = worker \/ worker # "waking"
    BY <2>3 DEF EndBout, Enqueue, Signalled
  <2>4. ASSUME NEW c, Close(c) PROVE worker' = worker \/ worker # "waking"
    BY <2>3, <2>4 DEF Close
  <2>5. ASSUME NEW c, NEW g, NEW t, StartVerify(c, g, t)
        PROVE  worker' = worker \/ worker # "waking"
    BY <2>5 DEF StartVerify, Enqueue, Signalled
  <2>6. CASE Clients
    BY <2>2, <2>3, <2>4, <2>5, <2>6 DEF Clients, Accept, Hello, Auth, Refuse, Leave, Disconnect,
                                        loop, thread
  <2>7. CASE Poll \/ ReadsOver \/ ExpireOver \/ Join \/ Deal
    BY <2>2, <2>7 DEF Poll, ReadsOver, ExpireOver, Join, Deal, loop, table, thread
  <2>8. CASE Drain \/ Pop \/ PopOver
    BY <1>2, <2>8 DEF ResultsAreSeen, Drain, Pop, PopOver, loop
  <2>9. CASE Sweep \/ ExpireBout \/ \E c \in Conns : ExpireHello(c)
    BY <2>2, <2>3, <2>4, <2>9 DEF Sweep, ExpireBout, ExpireHello, loop
  <2>10. CASE Stop
    BY <2>10 DEF ResultsAreSeen, Stop
  <2>11. CASE UNCHANGED vars
    BY <1>2, <2>11 DEF ResultsAreSeen, vars
  <2> QED BY <1>2, <2>1, <2>6, <2>7, <2>8, <2>9, <2>10, <2>11 DEF Next, Loop, Stopped
<1> QED BY <1>1, <1>2, PTL DEF Spec

-----------------------------------------------------------------------------
(* Reports.                                                                *)

\* A match is played under the names its connections have.
Named == \A b \in bouts : \A s \in {0, 1} : conns[b.seat[s]].player = b.who[s]

\* The worker goes when the rings are empty and the loop is over, and the loop waits for
\* it to have gone.
Ended ==
  /\ stop => phase \in {"join", "stopped"}
  /\ worker = "gone" => jobs = <<>> /\ phase \in {"join", "stopped"}
  /\ phase = "stopped" => worker \in {"gone", "starved"}

\* What was reported, what the worker holds and what is queued is what was owed.
Ledger == Waiting(Len(Done)) /\ \A i \in DOMAIN Done : Done[i] = owed[i]

Booked == Sound /\ Named /\ Ended /\ Ledger

LEMMA DoneIs ==
  ASSUME WorkerTypeOK
  PROVE  /\ Held \in Seq(Reports) /\ Done \in Seq(Reports)
         /\ Len(Done) = Len(reported) + Len(Held)
<1>1. Held \in Seq(Reports)
  <2>1. CASE worker = "working" /\ held.type = "report"
    <3>1. held.report \in Reports
      BY <2>1 DEF WorkerTypeOK, Jobs, VerifyJobs, ReportJobs
    <3> QED BY <2>1, <3>1 DEF Held
  <2>2. CASE ~(worker = "working" /\ held.type = "report")
    BY <2>2 DEF Held
  <2> QED BY <2>1, <2>2
<1>2. reported \in Seq(Reports)
  BY DEF WorkerTypeOK
<1> HIDE DEF Held
<1> QED BY <1>1, <1>2 DEF Done

LEMMA HeldStill ==
  ASSUME worker' = worker \/ (worker = "waiting" /\ worker' = "idle"), held' = held
  PROVE  Held' = Held
BY DEF Held

LEMMA LedgerSame ==
  ASSUME Ledger, UNCHANGED <<jobs, owed, reported>>, Held' = Held
  PROVE  Ledger'
BY DEF Ledger, Waiting, Done

\* Another verification changes no place.
LEMMA LedgerVerify ==
  ASSUME WorkerTypeOK, Ledger, NEW j, ~IsReport(j), jobs' = Append(jobs, j),
         UNCHANGED <<owed, reported>>, Held' = Held
  PROVE  Ledger'
<1> DEFINE n == Len(jobs)
<1>1. jobs \in Seq(Jobs) /\ owed \in Seq(Reports) /\ n \in Nat /\ DOMAIN jobs = 1 .. n
  BY DEF WorkerTypeOK
<1>2. PICK place \in [0 .. n -> 0 .. Len(owed)] :
        /\ place[0] = Len(Done) /\ place[n] = Len(owed)
        /\ \A k \in DOMAIN jobs :
             IF IsReport(jobs[k])
             THEN place[k] = place[k - 1] + 1 /\ owed[place[k]] = jobs[k].report
             ELSE place[k] = place[k - 1]
  BY DEF Ledger, Waiting
<1> DEFINE new == [k \in 0 .. n + 1 |-> IF k <= n THEN place[k] ELSE Len(owed)]
<1>3. /\ new \in [0 .. n + 1 -> 0 .. Len(owed)] /\ new[n + 1] = Len(owed)
      /\ \A k \in 0 .. n : new[k] = place[k]
  BY <1>1
<1> HIDE DEF new
<1>4. /\ Len(jobs') = n + 1 /\ DOMAIN jobs' = 1 .. n + 1 /\ jobs'[n + 1] = j
      /\ \A k \in 1 .. n : jobs'[k] = jobs[k]
  BY <1>1
<1>5. ASSUME NEW k \in 1 .. n + 1
      PROVE  IF IsReport(jobs'[k])
             THEN new[k] = new[k - 1] + 1 /\ owed[new[k]] = jobs'[k].report
             ELSE new[k] = new[k - 1]
  <2>1. CASE k = n + 1
    <3>1. k - 1 = n /\ n \in 0 .. n
      BY <1>1, <2>1
    <3>2. new[k - 1] = Len(owed) /\ new[k] = Len(owed)
      BY <1>2, <1>3, <2>1, <3>1
    <3> QED BY <1>4, <2>1, <3>2
  <2>2. CASE k \in 1 .. n
    <3>1. k \in 0 .. n /\ k - 1 \in 0 .. n
      BY <1>1, <2>2
    <3>2. new[k] = place[k] /\ new[k - 1] = place[k - 1] /\ jobs'[k] = jobs[k]
      BY <1>3, <1>4, <2>2, <3>1
    <3> QED BY <1>1, <1>2, <2>2, <3>2
  <2>3. k = n + 1 \/ k \in 1 .. n
    BY <1>1
  <2> QED BY <2>1, <2>2, <2>3
<1>6. new[0] = Len(Done)
  BY <1>1, <1>2, <1>3
<1>7. Done' = Done /\ owed' = owed
  BY DEF Done
<1>8. Waiting(Len(Done))'
  BY <1>3, <1>4, <1>5, <1>6, <1>7 DEF Waiting
<1> QED BY <1>7, <1>8 DEF Ledger

\* A report is queued for what has come to be owed.
LEMMA LedgerReport ==
  ASSUME WorkerTypeOK, Ledger, NEW r \in Reports,
         jobs' = Append(jobs, [type |-> "report", report |-> r]),
         owed' = Append(owed, r), reported' = reported, Held' = Held
  PROVE  Ledger'
<1> DEFINE n == Len(jobs)
           m == Len(owed)
<1>1. jobs \in Seq(Jobs) /\ owed \in Seq(Reports) /\ n \in Nat /\ m \in Nat
      /\ DOMAIN jobs = 1 .. n
  BY DEF WorkerTypeOK
<1>2. PICK place \in [0 .. n -> 0 .. m] :
        /\ place[0] = Len(Done) /\ place[n] = m
        /\ \A k \in DOMAIN jobs :
             IF IsReport(jobs[k])
             THEN place[k] = place[k - 1] + 1 /\ owed[place[k]] = jobs[k].report
             ELSE place[k] = place[k - 1]
  BY DEF Ledger, Waiting
<1> DEFINE new == [k \in 0 .. n + 1 |-> IF k <= n THEN place[k] ELSE m + 1]
<1>3. /\ new \in [0 .. n + 1 -> 0 .. m + 1] /\ new[n + 1] = m + 1
      /\ \A k \in 0 .. n : new[k] = place[k]
  BY <1>1
<1> HIDE DEF new
<1>4. /\ Len(jobs') = n + 1 /\ DOMAIN jobs' = 1 .. n + 1
      /\ jobs'[n + 1] = [type |-> "report", report |-> r]
      /\ \A k \in 1 .. n : jobs'[k] = jobs[k]
  BY <1>1
<1>5. /\ Len(owed') = m + 1 /\ owed'[m + 1] = r
      /\ \A i \in 1 .. m : owed'[i] = owed[i]
  BY <1>1
<1>6. ASSUME NEW k \in 1 .. n + 1
      PROVE  IF IsReport(jobs'[k])
             THEN new[k] = new[k - 1] + 1 /\ owed'[new[k]] = jobs'[k].report
             ELSE new[k] = new[k - 1]
  <2>1. CASE k = n + 1
    <3>1. k - 1 = n /\ n \in 0 .. n
      BY <1>1, <2>1
    <3>2. new[k - 1] = m /\ new[k] = m + 1
      BY <1>2, <1>3, <2>1, <3>1
    <3>3. IsReport(jobs'[k]) /\ jobs'[k].report = r
      BY <1>4, <2>1 DEF IsReport
    <3> QED BY <1>5, <3>2, <3>3
  <2>2. CASE k \in 1 .. n
    <3>1. k \in 0 .. n /\ k - 1 \in 0 .. n
      BY <1>1, <2>2
    <3>2. new[k] = place[k] /\ new[k - 1] = place[k - 1] /\ jobs'[k] = jobs[k]
      BY <1>3, <1>4, <2>2, <3>1
    <3>3. CASE IsReport(jobs[k])
      <4>1. place[k] = place[k - 1] + 1 /\ owed[place[k]] = jobs[k].report
        BY <1>1, <1>2, <2>2, <3>3
      <4>2. place[k] \in 0 .. m /\ place[k - 1] \in 0 .. m
        BY <3>1
      <4>3. place[k] \in 1 .. m
        BY <1>1, <4>1, <4>2
      <4> QED BY <1>5, <3>2, <3>3, <4>1, <4>3
    <3>4. CASE ~IsReport(jobs[k])
      BY <1>1, <1>2, <2>2, <3>2, <3>4
    <3> QED BY <3>3, <3>4
  <2>3. k = n + 1 \/ k \in 1 .. n
    BY <1>1
  <2> QED BY <2>1, <2>2, <2>3
<1>7. new[0] = Len(Done)
  BY <1>1, <1>2, <1>3
<1>8. Done' = Done
  BY DEF Done
<1>9. Waiting(Len(Done))'
  <2>1. /\ new \in [0 .. Len(jobs') -> 0 .. Len(owed')]
        /\ new[0] = Len(Done') /\ new[Len(jobs')] = Len(owed')
    BY <1>3, <1>4, <1>5, <1>7, <1>8
  <2>2. \A k \in DOMAIN jobs' :
          IF IsReport(jobs'[k])
          THEN new[k] = new[k - 1] + 1 /\ owed'[new[k]] = jobs'[k].report
          ELSE new[k] = new[k - 1]
    BY <1>4, <1>6
  <2> QED BY <2>1, <2>2 DEF Waiting
<1>10. \A i \in DOMAIN Done : Done[i] = owed'[i]
  <2>1. Done \in Seq(Reports) /\ DOMAIN Done = 1 .. Len(Done) /\ Len(Done) \in Nat
    BY DoneIs
  <2>2. Len(Done) <= m
    <3>1. 0 \in 0 .. n
      BY <1>1
    <3>2. place[0] \in 0 .. m
      BY <3>1
    <3> QED BY <1>2, <3>2
  <2> QED BY <1>1, <1>5, <2>1, <2>2 DEF Ledger
<1> QED BY <1>8, <1>9, <1>10 DEF Ledger

\* The worker takes the next job: its report, if it is one, is the next that is owed.
LEMMA LedgerTake ==
  ASSUME WorkerTypeOK, Ledger, jobs # <<>>, worker = "idle", worker' = "working",
         held' = Head(jobs), jobs' = Tail(jobs), UNCHANGED <<owed, reported>>
  PROVE  Ledger'
<1> DEFINE n == Len(jobs)
           m == Len(owed)
           h == jobs[1]
<1>1. jobs \in Seq(Jobs) /\ owed \in Seq(Reports) /\ n \in Nat \ {0} /\ m \in Nat
      /\ DOMAIN jobs = 1 .. n /\ reported \in Seq(Reports) /\ h \in Jobs
  BY DEF WorkerTypeOK
<1>2. PICK place \in [0 .. n -> 0 .. m] :
        /\ place[0] = Len(Done) /\ place[n] = m
        /\ \A k \in DOMAIN jobs :
             IF IsReport(jobs[k])
             THEN place[k] = place[k - 1] + 1 /\ owed[place[k]] = jobs[k].report
             ELSE place[k] = place[k - 1]
  BY DEF Ledger, Waiting
<1> DEFINE new == [k \in 0 .. n - 1 |-> place[k + 1]]
<1>3. /\ new \in [0 .. n - 1 -> 0 .. m] /\ \A k \in 0 .. n - 1 : new[k] = place[k + 1]
  BY <1>1
<1> HIDE DEF new
<1>4. /\ held' = h /\ Len(jobs') = n - 1 /\ DOMAIN jobs' = 1 .. n - 1
      /\ \A k \in 1 .. n - 1 : jobs'[k] = jobs[k + 1]
  BY <1>1
<1>5. ASSUME NEW k \in 1 .. n - 1
      PROVE  IF IsReport(jobs'[k])
             THEN new[k] = new[k - 1] + 1 /\ owed[new[k]] = jobs'[k].report
             ELSE new[k] = new[k - 1]
  <2>1. k \in 0 .. n - 1 /\ k - 1 \in 0 .. n - 1 /\ (k - 1) + 1 = k /\ (k + 1) - 1 = k
        /\ k + 1 \in 1 .. n
    BY <1>1
  <2>2. new[k] = place[k + 1] /\ new[k - 1] = place[k] /\ jobs'[k] = jobs[k + 1]
    BY <1>3, <1>4, <2>1
  <2>3. IF IsReport(jobs[k + 1])
        THEN place[k + 1] = place[k] + 1 /\ owed[place[k + 1]] = jobs[k + 1].report
        ELSE place[k + 1] = place[k]
    BY <1>1, <1>2, <2>1
  <2> QED BY <2>2, <2>3
<1>6. new[n - 1] = m /\ new[0] = place[1]
  BY <1>1, <1>2, <1>3
<1>7. Held = <<>> /\ Done = reported
  <2>1. Held = <<>>
    BY DEF Held
  <2> QED BY <1>1, <2>1 DEF Done
<1>8. IF IsReport(h) THEN place[1] = Len(Done) + 1 /\ owed[place[1]] = h.report
                     ELSE place[1] = Len(Done)
  BY <1>1, <1>2
<1>9. CASE IsReport(h)
  <2>1. Held' = <<h.report>>
    BY <1>4, <1>9 DEF Held, IsReport
  <2>2. h.report \in Reports
    BY <1>1, <1>9 DEF IsReport, Jobs, VerifyJobs, ReportJobs
  <2> HIDE DEF h
  <2>3. /\ Done' = reported \o <<h.report>>
    BY <2>1 DEF Done
  <2>4. /\ Len(Done') = Len(reported) + 1 /\ DOMAIN Done' = 1 .. Len(reported) + 1
        /\ Done'[Len(reported) + 1] = h.report
        /\ \A i \in 1 .. Len(reported) : Done'[i] = reported[i]
    BY <1>1, <2>2, <2>3
  <2>5. place[1] = Len(reported) + 1 /\ owed[Len(reported) + 1] = h.report
    BY <1>7, <1>8, <1>9
  <2>6. \A i \in 1 .. Len(reported) : reported[i] = owed[i]
    BY <1>1, <1>7 DEF Ledger
  <2>7. ASSUME NEW i \in 1 .. Len(reported) + 1 PROVE Done'[i] = owed[i]
    <3>1. i \in 1 .. Len(reported) \/ i = Len(reported) + 1
      BY <1>1
    <3> QED BY <2>4, <2>5, <2>6, <3>1
  <2>8. Waiting(Len(Done))'
    <3>1. /\ new \in [0 .. Len(jobs') -> 0 .. Len(owed')]
          /\ new[0] = Len(Done') /\ new[Len(jobs')] = Len(owed')
      BY <1>3, <1>4, <1>6, <2>4, <2>5
    <3>2. \A k \in DOMAIN jobs' :
            IF IsReport(jobs'[k])
            THEN new[k] = new[k - 1] + 1 /\ owed'[new[k]] = jobs'[k].report
            ELSE new[k] = new[k - 1]
      BY <1>4, <1>5
    <3> QED BY <3>1, <3>2 DEF Waiting
  <2> QED BY <2>4, <2>7, <2>8 DEF Ledger
<1>10. CASE ~IsReport(h)
  <2>1. Held' = <<>>
    <3>1. held'.type # "report"
      BY <1>4, <1>10 DEF IsReport
    <3> QED BY <3>1 DEF Held
  <2>2. Done' = Done
    BY <1>7, <2>1 DEF Done
  <2>3. Waiting(Len(Done))'
    <3>1. /\ new \in [0 .. Len(jobs') -> 0 .. Len(owed')]
          /\ new[0] = Len(Done') /\ new[Len(jobs')] = Len(owed')
      BY <1>3, <1>4, <1>6, <1>8, <1>10, <2>2
    <3>2. \A k \in DOMAIN jobs' :
            IF IsReport(jobs'[k])
            THEN new[k] = new[k - 1] + 1 /\ owed'[new[k]] = jobs'[k].report
            ELSE new[k] = new[k - 1]
      BY <1>4, <1>5
    <3> QED BY <3>1, <3>2 DEF Waiting
  <2> QED BY <2>2, <2>3 DEF Ledger
<1> QED BY <1>9, <1>10

\* The worker has tried what it held.
LEMMA LedgerReported ==
  ASSUME WorkerTypeOK, Ledger, Report
  PROVE  Ledger'
<1>1. Held = <<held.report>> /\ Held' = <<>> /\ held.report \in Reports
      /\ reported \in Seq(Reports) /\ reported' = Append(reported, held.report)
  BY DEF Report, Held, WorkerTypeOK, Jobs, VerifyJobs, ReportJobs
<1>2. Done' = Done
  <2>1. Done' = reported' \o <<>> /\ Done = reported \o <<held.report>>
    BY <1>1 DEF Done
  <2>2. reported' \o <<>> = reported'
    BY <1>1
  <2>3. reported \o <<held.report>> = Append(reported, held.report)
    BY <1>1
  <2> QED BY <1>1, <2>1, <2>2, <2>3
<1>3. UNCHANGED <<jobs, owed>>
  BY DEF Report
<1> QED BY <1>2, <1>3 DEF Ledger, Waiting

\* end_match owes a report and queues one, the same, or neither.
LEMMA LedgerEnd ==
  ASSUME Sound, Named, Ledger, NEW b \in bouts, EndBout(b, conns), UNCHANGED <<held, reported>>
  PROVE  Ledger'
<1> DEFINE who == [s \in {0, 1} |-> conns[b.seat[s]].player]
<1>1. WorkerTypeOK /\ b \in Bouts
  BY DEF Sound, WorkerTypeOK
<1>2. b.who \in [{0, 1} -> Players] /\ b.id \in 1 .. MaxBouts
  BY <1>1 DEF Bouts
<1>3. who = b.who
  BY <1>2 DEF Named
<1>4. Held' = Held
  BY HeldStill DEF EndBout, Enqueue, Signalled
<1> DEFINE known == \A s \in {0, 1} : who[s] # Nobody
           mine  == [id |-> b.id, who |-> b.who]
<1>5. /\ owed' = IF HasRoom /\ known THEN Append(owed, mine) ELSE owed
      /\ IF HasRoom /\ known
         THEN Enqueue([type |-> "report", report |-> mine])
         ELSE UNCHANGED <<jobs, worker>>
  BY <1>3 DEF EndBout
<1>6. CASE HasRoom /\ known
  <2>1. b.who \in [{0, 1} -> Tokens]
    BY <1>2, <1>3, <1>6 DEF Players
  <2>2. mine \in Reports
    BY <1>2, <2>1 DEF Reports
  <2>3. jobs' = Append(jobs, [type |-> "report", report |-> mine]) /\ owed' = Append(owed, mine)
    BY <1>5, <1>6 DEF Enqueue
  <2> HIDE DEF mine
  <2> QED BY <1>1, <1>4, <2>2, <2>3, LedgerReport
<1>7. CASE ~(HasRoom /\ known)
  <2>1. UNCHANGED <<jobs, owed>>
    BY <1>5, <1>7
  <2> QED BY <1>4, <2>1, LedgerSame
<1> QED BY <1>6, <1>7

LEMMA LedgerClose ==
  ASSUME Sound, Named, Ledger, NEW c \in Conns, Close(c), UNCHANGED <<held, reported>>
  PROVE  Ledger'
<1>1. CASE BoutOf(c) # {}
  BY <1>1, LedgerEnd DEF Close, BoutOf
<1>2. CASE BoutOf(c) = {}
  <2>1. UNCHANGED <<owed, jobs, worker>>
    BY <1>2 DEF Close
  <2> QED BY <2>1, HeldStill, LedgerSame
<1> QED BY <1>1, <1>2

LEMMA LedgerStart ==
  ASSUME Sound, Ledger, NEW c, NEW g, NEW t, StartVerify(c, g, t),
         UNCHANGED <<held, reported, owed>>
  PROVE  Ledger'
<1> DEFINE j == [type |-> "verify", conn |-> c, gen |-> g, token |-> t]
<1>1. WorkerTypeOK /\ ~IsReport(j)
  BY DEF Sound, IsReport
<1>2. Held' = Held
  BY HeldStill DEF StartVerify, Enqueue, Signalled
<1>3. CASE jobs' = Append(jobs, j)
  <2> HIDE DEF j
  <2> QED BY <1>1, <1>2, <1>3, LedgerVerify
<1>4. CASE jobs' = jobs
  BY <1>2, <1>4, LedgerSame
<1> QED BY <1>3, <1>4 DEF StartVerify, Enqueue

LEMMA LedgerNext ==
  ASSUME Sound, Named, Ledger, [Next]_vars
  PROVE  Ledger'
<1>1. WorkerTypeOK
  BY DEF Sound
<1>2. CASE Worker \/ WakeUp
  <2>1. CASE Take
    <3>1. CASE jobs # <<>> /\ worker' = "working"
      BY <1>1, <2>1, <3>1, LedgerTake DEF Take, table
    <3>2. CASE ~(jobs # <<>> /\ worker' = "working")
      <4>1. UNCHANGED <<jobs, owed, reported>> /\ Held' = Held
        BY <2>1, <3>2 DEF Take, Held, table
      <4> QED BY <4>1, LedgerSame
    <3> QED BY <3>1, <3>2
  <2>2. CASE Verify
    <3>1. UNCHANGED <<jobs, owed, reported>> /\ Held' = Held
      BY <2>2 DEF Verify, Held
    <3> QED BY <3>1, LedgerSame
  <2>3. CASE Report
    BY <1>1, <2>3, LedgerReported
  <2>4. CASE Answer \/ Wake \/ WakeUp
    <3>1. UNCHANGED <<jobs, owed, reported>> /\ Held' = Held
      BY <2>4 DEF Answer, Wake, WakeUp, Held
    <3> QED BY <3>1, LedgerSame
  <2> QED BY <1>2, <2>1, <2>2, <2>3, <2>4 DEF Worker
<1>3. CASE Clients
  <2>1. CASE Accept \/ \E c \in Conns : Refuse(c)
    <3>1. UNCHANGED <<jobs, owed, reported, worker, held>>
      BY <2>1 DEF Accept, Refuse, thread
    <3> QED BY <3>1, HeldStill, LedgerSame
  <2>2. ASSUME NEW c \in Conns, Hello(c) PROVE Ledger'
    <3>1. CASE UNCHANGED <<jobs, worker>>
      BY <2>2, <3>1, HeldStill, LedgerSame DEF Hello
    <3>2. CASE \E t \in Tokens : StartVerify(c, sessions + 1, t)
      BY <2>2, <3>2, LedgerStart DEF Hello
    <3> QED BY <2>2, <3>1, <3>2 DEF Hello
  <2>3. ASSUME NEW c \in Conns, Auth(c) PROVE Ledger'
    BY <2>3, LedgerStart DEF Auth
  <2>4. ASSUME NEW c \in Conns, Leave(c) PROVE Ledger'
    BY <2>4, LedgerEnd DEF Leave, BoutOf
  <2>5. ASSUME NEW c \in Conns, Disconnect(c) PROVE Ledger'
    BY <2>5, LedgerClose DEF Disconnect
  <2> QED BY <1>3, <2>1, <2>2, <2>3, <2>4, <2>5 DEF Clients
<1>4. CASE Poll \/ Drain \/ Pop \/ PopOver \/ ReadsOver \/ ExpireOver \/ Join \/ Deal
  <2>1. UNCHANGED <<jobs, owed, reported, worker, held>>
    BY <1>4 DEF Poll, Drain, Pop, PopOver, ReadsOver, ExpireOver, Join, Deal, thread
  <2> QED BY <2>1, HeldStill, LedgerSame
<1>5. CASE Sweep
  <2>1. CASE \E c \in Marked : Close(c)
    BY <1>5, <2>1, LedgerClose DEF Sweep, Marked, Sound, WorkerTypeOK
  <2>2. CASE UNCHANGED <<jobs, worker, owed>>
    BY <1>5, <2>2, HeldStill, LedgerSame DEF Sweep
  <2> QED BY <1>5, <2>1, <2>2 DEF Sweep
<1>6. CASE ExpireBout
  BY <1>6, LedgerEnd DEF ExpireBout
<1>7. ASSUME NEW c \in Conns, ExpireHello(c) PROVE Ledger'
  BY <1>7, LedgerClose DEF ExpireHello
<1>8. CASE Stop
  <2>1. UNCHANGED <<jobs, owed, reported>> /\ Held' = Held
    BY <1>8, HeldStill DEF Stop, StopSignal, Signalled
  <2> QED BY <2>1, LedgerSame
<1>9. CASE UNCHANGED vars
  <2>1. UNCHANGED <<jobs, owed, reported, worker, held>>
    BY <1>9 DEF vars
  <2> QED BY <2>1, HeldStill, LedgerSame
<1> QED BY <1>2, <1>3, <1>4, <1>5, <1>6, <1>7, <1>8, <1>9 DEF Next, Loop, Stopped

\* Whoever plays after a step played or was ready before it, under the same name.
LEMMA PlayersStay ==
  ASSUME WorkerTypeOK, [Next]_vars, NEW c \in Conns, conns'[c].state = "playing"
  PROVE  conns'[c].player = conns[c].player
<1>1. conns \in [Conns -> ConnRec] /\ conns[c] \in ConnRec
  BY DEF WorkerTypeOK
<1>2. CASE conns' = conns
  BY <1>2
<1>3. ASSUME NEW b, conns' = Rested(b, conns) PROVE conns'[c].player = conns[c].player
  BY <1>1, <1>3 DEF Rested, ConnRec
<1>4. ASSUME NEW d, Close(d) PROVE conns'[c].player = conns[c].player
  <2>1. CASE \E b : conns' = Freed(d, Rested(b, conns))
    <3>1. PICK b : conns' = Freed(d, Rested(b, conns))
      BY <2>1
    <3>2. conns'[c] = FreeConn \/ conns'[c] = Rested(b, conns)[c]
      BY <3>1 DEF Freed, Rested
    <3> QED BY <1>1, <3>2 DEF Rested, FreeConn, ConnRec
  <2>2. CASE conns' = Freed(d, conns)
    BY <1>1, <2>2 DEF Freed, FreeConn
  <2> QED BY <1>4, <2>1, <2>2 DEF Close, BoutOf
<1>5. ASSUME NEW d, NEW g, NEW t, StartVerify(d, g, t)
      PROVE  conns'[c].player = conns[c].player
  BY <1>1, <1>5 DEF StartVerify, ConnRec
<1>6. CASE Accept
  BY <1>1, <1>6 DEF Accept, FreeConn
<1>7. ASSUME NEW d \in Conns, Hello(d) PROVE conns'[c].player = conns[c].player
  <2>1. CASE conns' = [conns EXCEPT ![d].state = "needauth", ![d].gen = sessions + 1]
    BY <1>1, <2>1 DEF ConnRec
  <2> QED BY <1>5, <1>7, <2>1 DEF Hello
<1>8. CASE Pop
  <2>1. ASSUME NEW d, NEW x, conns' = [conns EXCEPT ![d].state = "ready", ![d].player = x]
        PROVE  conns'[c].player = conns[c].player
    BY <1>1, <2>1 DEF ConnRec
  <2>2. ASSUME NEW d, conns' = [conns EXCEPT ![d].state = "ready"]
        PROVE  conns'[c].player = conns[c].player
    BY <1>1, <2>2 DEF ConnRec
  <2> QED BY <1>2, <1>8, <2>1, <2>2 DEF Pop, VerifyDone
<1>9. CASE Deal
  <2>1. PICK a \in Conns, b \in Conns :
          conns' = [conns EXCEPT ![a].state = "playing", ![b].state = "playing"]
    BY <1>9 DEF Deal
  <2> QED BY <1>1, <2>1 DEF ConnRec
<1>10. CASE Stop
  BY <1>10 DEF Stop, FreeConn
<1>11. CASE Worker \/ WakeUp \/ Poll \/ Drain \/ PopOver \/ ReadsOver \/ ExpireOver \/ Join
            \/ UNCHANGED vars
  <2>1. conns' = conns
    BY <1>11 DEF Worker, WakeUp, Take, Verify, Report, Answer, Wake, Poll, Drain, PopOver,
                 ReadsOver, ExpireOver, Join, table, vars
  <2> QED BY <2>1
<1>12. CASE Clients
  BY <1>2, <1>3, <1>4, <1>5, <1>6, <1>7, <1>12 DEF Clients, Auth, Refuse, Leave, Disconnect
<1>13. CASE Sweep \/ ExpireBout \/ \E d \in Conns : ExpireHello(d)
  BY <1>2, <1>3, <1>4, <1>13 DEF Sweep, ExpireBout, ExpireHello
<1> QED BY <1>8, <1>9, <1>10, <1>11, <1>12, <1>13 DEF Next, Loop, Stopped

LEMMA NamedNext ==
  ASSUME Sound, Sound', Named, [Next]_vars
  PROVE  Named'
<1>1. WorkerTypeOK
  BY DEF Sound
<1>2. ASSUME NEW b \in bouts, b \in bouts', NEW s \in {0, 1}
      PROVE  conns'[b.seat[s]].player = b.who[s]
  <2>1. b.seat[s] \in Conns
    BY <1>1 DEF WorkerTypeOK, Bouts
  <2>2. conns'[b.seat[s]].state = "playing"
    BY <1>2 DEF Sound, Seated
  <2>3. conns'[b.seat[s]].player = conns[b.seat[s]].player
    BY <1>1, <2>1, <2>2, PlayersStay
  <2> QED BY <2>3 DEF Named
<1>3. CASE Deal
  <2>1. PICK a \in Conns, b \in Conns :
          /\ bouts' = bouts \cup
               {[id   |-> dealt + 1,
                 seat |-> [s \in {0, 1} |-> IF s = 0 THEN a ELSE b],
                 who  |-> [s \in {0, 1} |-> conns[IF s = 0 THEN a ELSE b].player]]}
          /\ conns' = [conns EXCEPT ![a].state = "playing", ![b].state = "playing"]
    BY <1>3 DEF Deal
  <2>2. conns'[a].player = conns[a].player /\ conns'[b].player = conns[b].player
    BY <1>1, <2>1 DEF WorkerTypeOK, ConnRec
  <2>3. ASSUME NEW n \in bouts', n \notin bouts, NEW s \in {0, 1}
        PROVE  conns'[n.seat[s]].player = n.who[s]
    <3>1. /\ n.seat = [x \in {0, 1} |-> IF x = 0 THEN a ELSE b]
          /\ n.who = [x \in {0, 1} |-> conns[IF x = 0 THEN a ELSE b].player]
      BY <2>1, <2>3
    <3>2. CASE s = 0
      BY <2>2, <3>1, <3>2
    <3>3. CASE s = 1
      BY <2>2, <3>1, <3>3
    <3> QED BY <3>2, <3>3
  <2> QED BY <1>2, <2>3 DEF Named
<1>4. CASE ~Deal
  <2>1. ASSUME NEW b, NEW from, EndBout(b, from) PROVE bouts' \subseteq bouts
    BY <2>1 DEF EndBout
  <2>2. ASSUME NEW c, Close(c) PROVE bouts' \subseteq bouts
    BY <2>1, <2>2 DEF Close
  <2>3. ASSUME Clients PROVE bouts' \subseteq bouts
    BY <2>1, <2>2, <2>3 DEF Clients, Accept, Hello, Auth, Refuse, Leave, Disconnect
  <2>4. ASSUME Worker \/ WakeUp PROVE bouts' \subseteq bouts
    BY <2>4 DEF Worker, WakeUp, Take, Verify, Report, Answer, Wake, table
  <2>5. ASSUME Loop \/ Stop \/ UNCHANGED vars PROVE bouts' \subseteq bouts
    BY <2>2, <2>5 DEF Loop, Poll, Drain, Pop, PopOver, ReadsOver, Sweep, ExpireOver, Join,
                      Stop, table, vars
  <2>6. ASSUME ExpireBout \/ \E c \in Conns : ExpireHello(c) PROVE bouts' \subseteq bouts
    BY <2>1, <2>2, <2>6 DEF ExpireBout, ExpireHello
  <2>7. bouts' \subseteq bouts
    BY <1>4, <2>3, <2>4, <2>5, <2>6 DEF Next, Stopped
  <2> QED BY <1>2, <2>7 DEF Named
<1> QED BY <1>3, <1>4

LEMMA EndedNext ==
  ASSUME WorkerTypeOK, Ended, [Next]_vars
  PROVE  Ended'
<1>1. ASSUME phase' \in {"reads", "sweep", "expire", "drain", "pop", "poll"},
             phase \in {"reads", "sweep", "expire", "drain", "pop", "poll"},
             worker' = worker \/ (worker = "waiting" /\ worker' = "idle"), stop' = stop
      PROVE  Ended'
  BY <1>1 DEF Ended
<1>2. ASSUME NEW b, NEW from, EndBout(b, from)
      PROVE  worker' = worker \/ (worker = "waiting" /\ worker' = "idle")
  BY <1>2 DEF EndBout, Enqueue, Signalled
<1>3. ASSUME NEW c, Close(c)
      PROVE  worker' = worker \/ (worker = "waiting" /\ worker' = "idle")
  BY <1>2, <1>3 DEF Close
<1>4. ASSUME NEW c, NEW g, NEW t, StartVerify(c, g, t)
      PROVE  worker' = worker \/ (worker = "waiting" /\ worker' = "idle")
  BY <1>4 DEF StartVerify, Enqueue, Signalled
<1>5. CASE Worker \/ WakeUp
  BY <1>5 DEF Ended, Worker, WakeUp, Take, Verify, Report, Answer, Wake, loop
<1>6. CASE Clients
  <2>1. CASE Accept \/ \E c \in Conns : Refuse(c)
    BY <1>1, <2>1 DEF Accept, Refuse, Heard, loop, thread
  <2>2. ASSUME NEW c \in Conns, Hello(c) \/ Auth(c) PROVE Ended'
    BY <1>1, <1>4, <2>2 DEF Hello, Auth, Heard, loop
  <2>3. ASSUME NEW c \in Conns, Leave(c) \/ Disconnect(c) PROVE Ended'
    BY <1>1, <1>2, <1>3, <2>3 DEF Leave, Disconnect, Heard, loop
  <2> QED BY <1>6, <2>1, <2>2, <2>3 DEF Clients
<1>7. CASE Deal \/ ExpireBout \/ \E c \in Conns : ExpireHello(c)
  BY <1>1, <1>2, <1>3, <1>7 DEF Deal, ExpireBout, ExpireHello, loop, thread
<1>8. CASE Poll \/ Drain \/ Pop \/ ReadsOver \/ ExpireOver \/ Sweep
  BY <1>1, <1>3, <1>8 DEF Poll, Drain, Pop, ReadsOver, ExpireOver, Sweep, loop, thread
<1>9. CASE PopOver
  BY <1>9 DEF Ended, PopOver, thread, WorkerTypeOK
<1>10. CASE Join
  BY <1>10 DEF Ended, Join, thread
<1>11. CASE Stop
  BY <1>11 DEF Ended, Stop, StopSignal, Signalled
<1>12. CASE UNCHANGED vars
  BY <1>12 DEF Ended, vars
<1> QED BY <1>5, <1>6, <1>7, <1>8, <1>9, <1>10, <1>11, <1>12 DEF Next, Loop, Stopped

LEMMA BookedInit == Init => Booked
<1> SUFFICES ASSUME Init PROVE Booked
  OBVIOUS
<1>1. /\ jobs = <<>> /\ owed = <<>> /\ reported = <<>> /\ bouts = {} /\ stop = FALSE
      /\ worker = "idle" /\ phase = "poll"
  BY DEF Init
<1>2. Named /\ Ended
  BY <1>1 DEF Named, Ended
<1>3. Held = <<>> /\ Done = <<>>
  BY <1>1 DEF Held, Done
<1>4. Ledger
  <2> DEFINE place == [k \in 0 .. 0 |-> 0]
  <2>1. place \in [0 .. 0 -> 0 .. 0] /\ place[0] = 0 /\ Len(<<>>) = 0
    OBVIOUS
  <2> HIDE DEF place
  <2> QED BY <1>1, <1>3, <2>1 DEF Ledger, Waiting
<1> QED BY <1>2, <1>4, SoundInit DEF Booked

LEMMA BookedNext == Booked /\ [Next]_vars => Booked'
<1> SUFFICES ASSUME Booked, [Next]_vars PROVE Booked'
  OBVIOUS
<1>1. Sound /\ Named /\ Ended /\ Ledger
  BY DEF Booked
<1>2. Sound'
  BY <1>1, SoundNext
<1>3. Named'
  BY <1>1, <1>2, NamedNext
<1>4. Ended'
  BY <1>1, EndedNext DEF Sound
<1>5. Ledger'
  BY <1>1, LedgerNext
<1> QED BY <1>2, <1>3, <1>4, <1>5 DEF Booked

LEMMA BookedAccounts == Booked => ReportsAccounted
<1> SUFFICES ASSUME Booked PROVE ReportsAccounted
  OBVIOUS
<1>1. WorkerTypeOK /\ Ended /\ Ledger
  BY DEF Booked, Sound
<1>2. ASSUME phase = "stopped", worker # "starved"
      PROVE  reported = owed
  <2>1. worker = "gone" /\ jobs = <<>>
    BY <1>1, <1>2 DEF Ended
  <2>2. Held = <<>> /\ reported \in Seq(Reports) /\ owed \in Seq(Reports)
    BY <1>1, <2>1 DEF Held, WorkerTypeOK
  <2>3. Done = reported
    BY <2>2 DEF Done
  <2>4. Len(reported) = Len(owed)
    BY <1>1, <2>1, <2>3 DEF Ledger, Waiting
  <2>5. \A i \in 1 .. Len(reported) : reported[i] = owed[i]
    BY <1>1, <2>2, <2>3 DEF Ledger
  <2> QED BY <2>2, <2>4, <2>5, SeqEqual
<1> QED BY <1>1, <1>2 DEF ReportsAccounted, Ledger

\* end_match and the worker: every match of two verified players that found room in the
\* ring is reported once, in the order the matches ended, under the names they began
\* with; and when the server has stopped none is left, unless memory ran out.
THEOREM ReportsAllAccounted == Spec => []ReportsAccounted
<1> QED BY BookedInit, BookedNext, BookedAccounts, PTL DEF Spec

=============================================================================
