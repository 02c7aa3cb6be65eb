------------------------------ MODULE Dw2Worker ------------------------------
(***************************************************************************)
(* The match server with IDUNA, apps/server/main.c: the worker thread that *)
(* verifies tokens and reports results, the two rings, the condition       *)
(* variable and the wake pipe it shares with the poll loop, and what the   *)
(* loop does of it: HELLO, AUTH, verify_done, the reports of end_match,    *)
(* the hello timeout and the shutdown.                                     *)
(*                                                                         *)
(* The mutex is held over short pieces that never block, each one step.    *)
(* The queue and the match are those of Dw2Server; here two ready          *)
(* connections are dealt a bout, which ends.                               *)
(***************************************************************************)
EXTENDS Integers, Sequences, FiniteSets

CONSTANTS
  MaxConns,     \* MAX_CONNS
  Ring,         \* JQ: the room in each of the two rings
  Tokens,       \* the tokens clients hold; each is somebody's identity
  Nobody,       \* an empty player_id
  FailOpen,     \* --auth-fail-open
  Starves,      \* whether the worker's malloc may fail
  MaxSessions,  \* a bound of the model on next_session
  MaxBouts      \* a bound of the model on next_match

ASSUME WorkerAssumption ==
  /\ MaxConns \in Nat \ {0} /\ Ring \in Nat \ {0}
  /\ MaxSessions \in Nat /\ MaxBouts \in Nat
  /\ Nobody \notin Tokens
  /\ FailOpen \in BOOLEAN /\ Starves \in BOOLEAN

VARIABLES
  \* the poll loop
  phase,     \* where its iteration stands
  after,     \* where drain_results returns to
  conns,     \* state, session_id, player_id; and the token the client sent
  closing,   \* close_after_flush
  bouts,     \* the matches being played
  sessions,  \* HELLOs so far: next_session - 1
  dealt,     \* matches so far: next_match - 1
  \* shared with the worker, under the mutex
  jobs,      \* jq, oldest first
  results,   \* rq, oldest first
  stop,      \* worker_stop
  pipe,      \* there is a byte in the wake pipe
  \* the worker
  worker,    \* where it stands
  held,      \* the job it took, and the answer to it
  \* history
  owed,      \* reports end_match had to make and found room for
  reported   \* reports the worker has tried to make

vars == <<phase, after, conns, closing, bouts, sessions, dealt,
          jobs, results, stop, pipe, worker, held, owed, reported>>
loop   == <<phase, after>>
table  == <<conns, closing, bouts, sessions, dealt>>
thread == <<worker, held, reported>>

Conns   == 1 .. MaxConns
Players == Tokens \cup {Nobody}
Answers == {"ok", "otherkind", "rejected", "unreachable"}

Phases  == {"poll", "drain", "pop", "reads", "sweep", "expire", "join", "stopped"}
ConnStates == {"free", "connected", "needauth", "verifying", "ready", "playing"}
Unverified == {"connected", "needauth", "verifying"}

FreeConn == [state |-> "free", gen |-> 0, player |-> Nobody, sent |-> Nobody]
ConnRec  == [state : ConnStates, gen : 0 .. MaxSessions, player : Players, sent : Players]

Reports  == [id : 1 .. MaxBouts, who : [{0, 1} -> Tokens]]
Bouts    == [id : 1 .. MaxBouts, seat : [{0, 1} -> Conns], who : [{0, 1} -> Players]]
VerifyJobs == [type : {"verify"}, conn : Conns, gen : 1 .. MaxSessions, token : Tokens]
ReportJobs == [type : {"report"}, report : Reports]
Jobs     == VerifyJobs \cup ReportJobs
Results  == [job : VerifyJobs, rc : Answers]
NoJob    == [type |-> "none"]

WorkerTypeOK ==
  /\ phase \in Phases /\ after \in {"reads", "poll"}
  /\ conns \in [Conns -> ConnRec]
  /\ closing \subseteq Conns
  /\ bouts \subseteq Bouts
  /\ sessions \in 0 .. MaxSessions /\ dealt \in 0 .. MaxBouts
  /\ jobs \in Seq(Jobs) /\ results \in Seq(Results)
  /\ Len(jobs) <= Ring /\ Len(results) <= Ring
  /\ stop \in BOOLEAN /\ pipe \in BOOLEAN
  /\ worker \in {"idle", "waiting", "working", "answering", "waking", "gone", "starved"}
  /\ worker = "working" => held \in Jobs
  /\ worker = "answering" => held \in Results
  /\ owed \in Seq(Reports) /\ reported \in Seq(Reports)

Init ==
  /\ phase = "poll" /\ after = "poll"
  /\ conns = [c \in Conns |-> FreeConn]
  /\ closing = {} /\ bouts = {} /\ sessions = 0 /\ dealt = 0
  /\ jobs = <<>> /\ results = <<>> /\ stop = FALSE /\ pipe = FALSE
  /\ worker = "idle" /\ held = NoJob
  /\ owed = <<>> /\ reported = <<>>

-----------------------------------------------------------------------------
(* The rings and the condition variable.                                   *)

\* Mutant: nobody is told of a new job.
Unsignalled == worker

\* pthread_cond_signal: a waiting worker wakes up and looks again.
Signalled == IF worker = "waiting" THEN "idle" ELSE worker

HasRoom == Len(jobs) < Ring

\* enqueue_job, when there is room.
Enqueue(j) ==
  /\ jobs' = Append(jobs, j)
  /\ worker' = Signalled

-----------------------------------------------------------------------------
(* The worker.                                                             *)

\* worker_main, under the mutex: the next job, or none and the stop flag, or
\* pthread_cond_wait.
Take ==
  /\ worker = "idle"
  /\ IF jobs = <<>>
     THEN /\ worker' = IF stop THEN "gone" ELSE "waiting"
          /\ UNCHANGED <<jobs, held>>
     ELSE \/ /\ worker' = "working" /\ held' = Head(jobs) /\ jobs' = Tail(jobs)
          \/ /\ Starves
             /\ worker' = "starved"
             /\ UNCHANGED <<jobs, held>>
  /\ UNCHANGED <<loop, table, results, stop, pipe, owed, reported>>

\* A condition variable may wake its waiter for no reason.
WakeUp ==
  /\ worker = "waiting" /\ worker' = "idle"
  /\ UNCHANGED <<loop, table, jobs, results, stop, pipe, held, owed, reported>>

\* dwi2_verify: IDUNA knows the token, says it is of the other kind of client,
\* rejects it, or does not answer in time.
Verify ==
  /\ worker = "working" /\ held.type = "verify"
  /\ \E rc \in Answers : held' = [job |-> held, rc |-> rc]
  /\ worker' = "answering"
  /\ UNCHANGED <<loop, table, jobs, results, stop, pipe, owed, reported>>

\* dwi2_report: tried once, and once more after a new login if IDUNA no longer
\* knows the server; a failure is logged and forgotten.
Report ==
  /\ worker = "working" /\ held.type = "report"
  /\ reported' = Append(reported, held.report)
  /\ worker' = "idle" /\ held' = NoJob
  /\ UNCHANGED <<loop, table, jobs, results, stop, pipe, owed>>

\* Mutant: no byte is written to the pipe.
AnswerUnseen ==
  /\ worker = "answering"
  /\ results' = IF Len(results) < Ring THEN Append(results, held) ELSE results
  /\ worker' = "idle" /\ held' = NoJob
  /\ UNCHANGED <<loop, table, jobs, stop, pipe, owed, reported>>

\* The result is dropped when there is no room for it.
Answer ==
  /\ worker = "answering"
  /\ results' = IF Len(results) < Ring THEN Append(results, held) ELSE results
  /\ worker' = "waking" /\ held' = NoJob
  /\ UNCHANGED <<loop, table, jobs, stop, pipe, owed, reported>>

\* After the mutex: a byte for poll().
Wake ==
  /\ worker = "waking"
  /\ pipe' = TRUE /\ worker' = "idle"
  /\ UNCHANGED <<loop, table, jobs, results, stop, held, owed, reported>>

-----------------------------------------------------------------------------
(* drain_results: empty the pipe, then one result after another.           *)

\* poll() returns; the pipe comes before the connections.
Poll ==
  /\ phase = "poll"
  /\ phase' = IF pipe THEN "drain" ELSE "reads"
  /\ after' = "reads"
  /\ UNCHANGED <<table, jobs, results, stop, pipe, thread, owed>>

Drain ==
  /\ phase = "drain"
  /\ pipe' = FALSE /\ phase' = "pop"
  /\ UNCHANGED <<after, table, jobs, results, stop, thread, owed>>

\* Mutant: any session of the slot that waits will do.
CurrentSlot(job) == conns[job.conn].state = "verifying"

\* verify_done: only for the session that asked, and only while it waits.
Current(job) ==
  conns[job.conn].state = "verifying" /\ conns[job.conn].gen = job.gen

\* verify_done
VerifyDone(r) ==
  LET c == r.job.conn
  IN IF ~Current(r.job) THEN UNCHANGED <<conns, closing>>
     ELSE \/ /\ r.rc = "ok"
             /\ conns' = [conns EXCEPT ![c].state = "ready", ![c].player = r.job.token]
             /\ UNCHANGED closing
          \/ /\ r.rc = "unreachable" /\ FailOpen
             /\ conns' = [conns EXCEPT ![c].state = "ready"]
             /\ UNCHANGED closing
          \/ /\ r.rc = "otherkind" \/ r.rc = "rejected" \/ (r.rc = "unreachable" /\ ~FailOpen)
             /\ closing' = closing \cup {c}
             /\ UNCHANGED conns

Pop ==
  /\ phase = "pop" /\ results # <<>>
  /\ results' = Tail(results)
  /\ VerifyDone(Head(results))
  /\ UNCHANGED <<loop, bouts, sessions, dealt, jobs, stop, pipe, thread, owed>>

PopOver ==
  /\ phase = "pop" /\ results = <<>>
  /\ phase' = after
  /\ UNCHANGED <<after, table, jobs, results, stop, pipe, thread, owed>>

-----------------------------------------------------------------------------
(* The handlers.                                                           *)

Heard(c) == phase = "reads" /\ c \notin closing

\* accept_conns comes before drain_results, if poll() asks for both.
Accept ==
  /\ phase = "reads" \/ (phase = "drain" /\ after = "reads")
  /\ \E c \in Conns :
       /\ conns[c].state = "free"
       /\ \A d \in 1 .. c - 1 : conns[d].state # "free"
       /\ conns' = [conns EXCEPT ![c] = [FreeConn EXCEPT !.state = "connected"]]
       /\ closing' = closing \ {c}
  /\ UNCHANGED <<loop, bouts, sessions, dealt, jobs, results, stop, pipe, thread, owed>>

\* start_verify: with the ring full the connection is refused where it stands.
StartVerify(c, gen, token) ==
  /\ conns' = [conns EXCEPT ![c] =
       [@ EXCEPT !.state = "verifying", !.gen = gen, !.sent = token]]
  /\ \/ /\ HasRoom
        /\ Enqueue([type |-> "verify", conn |-> c, gen |-> gen, token |-> token])
        /\ UNCHANGED closing
     \/ /\ ~HasRoom
        /\ closing' = closing \cup {c}
        /\ UNCHANGED <<jobs, worker>>

\* HELLO: every one is a new session; its token, if it has one, is verified.
Hello(c) ==
  /\ Heard(c) /\ conns[c].state = "connected"
  /\ sessions < MaxSessions
  /\ sessions' = sessions + 1
  /\ \/ \E t \in Tokens : StartVerify(c, sessions + 1, t)
     \/ /\ conns' = [conns EXCEPT ![c].state = "needauth", ![c].gen = sessions + 1]
        /\ UNCHANGED <<closing, jobs, worker>>
  /\ UNCHANGED <<loop, bouts, dealt, results, stop, pipe, held, reported, owed>>

Auth(c) ==
  /\ Heard(c) /\ conns[c].state = "needauth"
  /\ \E t \in Tokens : StartVerify(c, conns[c].gen, t)
  /\ UNCHANGED <<loop, bouts, sessions, dealt, results, stop, pipe, held, reported, owed>>

\* send_error, or a send that fails.
Refuse(c) ==
  /\ Heard(c) /\ conns[c].state # "free"
  /\ closing' = closing \cup {c}
  /\ UNCHANGED <<loop, conns, bouts, sessions, dealt, jobs, results, stop, pipe, thread, owed>>

\* start_match, for two who queued.
Deal ==
  /\ phase \in {"reads", "expire"} /\ dealt < MaxBouts
  /\ \E a, b \in Conns :
       /\ a # b /\ conns[a].state = "ready" /\ conns[b].state = "ready"
       /\ bouts' = bouts \cup
            {[id   |-> dealt + 1,
              seat |-> [s \in {0, 1} |-> IF s = 0 THEN a ELSE b],
              who  |-> [s \in {0, 1} |-> conns[IF s = 0 THEN a ELSE b].player]]}
       /\ conns' = [conns EXCEPT ![a].state = "playing", ![b].state = "playing"]
  /\ dealt' = dealt + 1
  /\ UNCHANGED <<loop, closing, sessions, jobs, results, stop, pipe, thread, owed>>

BoutOf(c) == {b \in bouts : \E s \in {0, 1} : b.seat[s] = c}

\* end_match, for any reason but the server's: a match of two known players
\* is reported, by what their connections say, if the ring has room.  `from`
\* is the connection table it is called with and `to` the one it leaves.
EndBout(b, from) ==
  LET who   == [s \in {0, 1} |-> from[b.seat[s]].player]
      known == \A s \in {0, 1} : who[s] # Nobody
  IN /\ bouts' = bouts \ {b}
     /\ owed' = IF HasRoom /\ \A s \in {0, 1} : b.who[s] # Nobody
                THEN Append(owed, [id |-> b.id, who |-> b.who]) ELSE owed
     /\ IF HasRoom /\ known
        THEN Enqueue([type |-> "report", report |-> [id |-> b.id, who |-> who]])
        ELSE UNCHANGED <<jobs, worker>>

Rested(b, table0) ==
  [c \in Conns |-> IF \E s \in {0, 1} : b.seat[s] = c
                   THEN [table0[c] EXCEPT !.state = "ready"] ELSE table0[c]]

\* leave_match_or_queue
Leave(c) ==
  /\ Heard(c)
  /\ \E b \in BoutOf(c) : EndBout(b, conns) /\ conns' = Rested(b, conns)
  /\ UNCHANGED <<loop, closing, sessions, dealt, results, stop, pipe, held, reported>>

Freed(c, table0) == [table0 EXCEPT ![c] = FreeConn]

\* Mutant: the slot is cleared before its match is ended.
CloseBlanked(c) ==
  /\ IF BoutOf(c) # {}
     THEN \E b \in BoutOf(c) : EndBout(b, Freed(c, conns)) /\ conns' = Freed(c, Rested(b, conns))
     ELSE conns' = Freed(c, conns) /\ UNCHANGED <<bouts, owed, jobs, worker>>
  /\ closing' = closing \ {c}

\* conn_close: the match is ended while the player is still known.
Close(c) ==
  /\ IF BoutOf(c) # {}
     THEN \E b \in BoutOf(c) : EndBout(b, conns) /\ conns' = Freed(c, Rested(b, conns))
     ELSE conns' = Freed(c, conns) /\ UNCHANGED <<bouts, owed, jobs, worker>>
  /\ closing' = closing \ {c}

Disconnect(c) ==
  /\ phase = "reads" /\ conns[c].state # "free"
  /\ Close(c)
  /\ UNCHANGED <<loop, sessions, dealt, results, stop, pipe, held, reported>>

ReadsOver ==
  /\ phase = "reads" /\ phase' = "sweep"
  /\ UNCHANGED <<after, table, jobs, results, stop, pipe, thread, owed>>

-----------------------------------------------------------------------------
(* The rest of the iteration.                                              *)

Marked == {c \in closing : conns[c].state # "free"}

Sweep ==
  /\ phase = "sweep"
  /\ \/ \E c \in Marked : Close(c) /\ UNCHANGED phase
     \/ Marked = {} /\ phase' = "expire" /\ UNCHANGED <<conns, closing, bouts, jobs, worker, owed>>
  /\ UNCHANGED <<after, sessions, dealt, results, stop, pipe, held, reported>>

\* Mutant: the hello timeout does not cover a verification.
SilentUnverified(c) == conns[c].state \in {"connected", "needauth"}

Silent(c) == conns[c].state \in Unverified

\* expire_timers: the hello timeout runs until IDUNA has answered.
ExpireHello(c) ==
  /\ phase = "expire" /\ Silent(c)
  /\ Close(c)
  /\ UNCHANGED <<loop, sessions, dealt, results, stop, pipe, held, reported>>

\* expire_timers: a match reaches its end.
ExpireBout ==
  /\ phase = "expire"
  /\ \E b \in bouts : EndBout(b, conns) /\ conns' = Rested(b, conns)
  /\ UNCHANGED <<loop, closing, sessions, dealt, results, stop, pipe, held, reported>>

\* The iteration ends with another drain_results.
ExpireOver ==
  /\ phase = "expire" /\ phase' = "drain" /\ after' = "poll"
  /\ UNCHANGED <<table, jobs, results, stop, pipe, thread, owed>>

-----------------------------------------------------------------------------
(* The shutdown.                                                           *)

StopSignal == worker' = Signalled

\* The loop ends: matches end for a reason that is not reported, connections
\* close, and stop_worker raises the flag.
Stop ==
  /\ phase = "poll" /\ phase' = "join"
  /\ bouts' = {} /\ closing' = {} /\ conns' = [c \in Conns |-> FreeConn]
  /\ stop' = TRUE /\ StopSignal
  /\ UNCHANGED <<after, sessions, dealt, jobs, results, pipe, held, reported, owed>>

\* pthread_join
Join ==
  /\ phase = "join" /\ worker \in {"gone", "starved"} /\ phase' = "stopped"
  /\ UNCHANGED <<after, table, jobs, results, stop, pipe, thread, owed>>

Stopped == phase = "stopped" /\ UNCHANGED vars

Worker == Take \/ Verify \/ Report \/ Answer \/ Wake

Clients ==
  \/ Accept
  \/ \E c \in Conns : Hello(c) \/ Auth(c) \/ Refuse(c) \/ Leave(c) \/ Disconnect(c)

Loop ==
  \/ Poll \/ Drain \/ Pop \/ PopOver
  \/ ReadsOver \/ Sweep \/ ExpireOver \/ Join

Next ==
  \/ Worker \/ WakeUp
  \/ Clients \/ Deal \/ ExpireBout \/ \E c \in Conns : ExpireHello(c)
  \/ Loop \/ Stop \/ Stopped

Spec == Init /\ [][Next]_vars

\* Both threads are scheduled, and a hello timeout that keeps running out is
\* acted on.  No client has to do anything.
FairSpec ==
  /\ Spec
  /\ WF_vars(Worker) /\ WF_vars(Loop)
  /\ \A c \in Conns : SF_vars(ExpireHello(c))

-----------------------------------------------------------------------------
(* Properties.                                                             *)

\* Whatever slot an answer comes back to, and whoever has it by then, a
\* connection has the identity of the token it sent itself; and nobody gets
\* to play without one, unless the server fails open.
OwnIdentity ==
  \A c \in Conns :
    /\ conns[c].player # Nobody => conns[c].player = conns[c].sent
    /\ conns[c].state \in {"ready", "playing"} => conns[c].player # Nobody \/ FailOpen

\* The worker never sleeps over a job or over the stop flag.
NoLostWakeup == worker = "waiting" => jobs = <<>> /\ ~stop

\* A result that waits has a byte in the pipe, or one about to be written, or
\* the loop is just fetching: poll() never sleeps over it.
ResultsAreSeen ==
  results # <<>> /\ phase \notin {"join", "stopped"} =>
    pipe \/ worker = "waking" \/ phase \in {"drain", "pop"}

Held == IF worker = "working" /\ held.type = "report" THEN <<held.report>> ELSE <<>>

IsReport(j) == j.type = "report"

\* The reports among the jobs, place by place, are those of owed after the first `done`.
Waiting(done) ==
  \E place \in [0 .. Len(jobs) -> 0 .. Len(owed)] :
    /\ place[0] = done /\ place[Len(jobs)] = Len(owed)
    /\ \A k \in DOMAIN jobs :
         IF IsReport(jobs[k])
         THEN place[k] = place[k - 1] + 1 /\ owed[place[k]] = jobs[k].report
         ELSE place[k] = place[k - 1]

Done == reported \o Held

\* Every match of two verified players that found room in the ring is reported
\* once, in the order the matches ended, under the names they began with,
\* even when a player is closed in the middle; and a server that has stopped has
\* tried them all, unless the worker could not go on for want of memory.
ReportsAccounted ==
  /\ Waiting(Len(Done))
  /\ \A i \in DOMAIN Done : Done[i] = owed[i]
  /\ phase = "stopped" /\ worker # "starved" => reported = owed

\* Nothing waits for the worker in vain: nobody is kept in verification for ever by
\* a result that was dropped or a worker that is gone, and the pthread_join of a
\* server that is told to stop returns.
WaitsEnd ==
  /\ \A c \in Conns : conns[c].state = "verifying" ~> conns[c].state # "verifying"
  /\ stop ~> phase = "stopped"

=============================================================================
