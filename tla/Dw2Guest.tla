------------------------------ MODULE Dw2Guest ------------------------------
(***************************************************************************)
(* The guest account of the game client, apps/client/main.c with           *)
(* --iduna-url and --guest-file: a run reads the file, logs in with what   *)
(* it holds or registers a new guest, keeps that in the file, and plays.   *)
(* A run may be killed at any point.  IDUNA is external: it creates the    *)
(* account before its reply leaves, and may refuse or fail.                *)
(***************************************************************************)
EXTENDS Dw2Http

CONSTANT MaxGuests    \* a bound of the model on the accounts IDUNA creates

VARIABLES
  file,     \* the guest file: Absent, also when it is empty, or [pid, secret]
  pc,       \* where the run stands; "off" between runs
  loaded,   \* whether the file told who the guest is
  me,       \* pid, secret and token in the run's buffers
  rc, status,  \* what the IDUNA call returned
  reply,    \* IDUNA's reply, or Absent
  guests,   \* the accounts so far: 1 .. guests, each with its secret
  first     \* history: who the first run that played played as

vars == <<file, pc, loaded, me, rc, status, reply, guests, first>>

Empty == [pid |-> Absent, secret |-> Absent, token |-> Absent]
Secret(pid) == pid    \* and so is the token: one of each to every account

Init ==
  /\ file = Absent /\ pc = "off" /\ loaded = FALSE /\ me = Empty
  /\ rc = 0 /\ status = 0 /\ reply = Absent
  /\ guests = 0 /\ first = Absent

Launch ==
  /\ pc = "off" /\ pc' = "ask"
  /\ loaded' = (file # Absent)
  /\ me' = IF file = Absent THEN Empty
           ELSE [Empty EXCEPT !.pid = file.pid, !.secret = file.secret]
  /\ rc' = 0 /\ status' = 0 /\ reply' = Absent
  /\ UNCHANGED <<file, guests, first>>

\* IDUNA registers a guest, or logs one in, or neither.
Granted(code, body) == [status |-> code, body |-> body]
Register ==
  /\ pc = "ask" /\ reply = Absent /\ ~loaded /\ guests < MaxGuests
  /\ guests' = guests + 1
  /\ reply' = Granted(201, [player_id |-> guests', guest_secret |-> Secret(guests'),
                            token |-> Secret(guests')])
  /\ UNCHANGED <<file, pc, loaded, me, rc, status, first>>
Login ==
  /\ pc = "ask" /\ reply = Absent /\ loaded
  /\ me.pid \in 1 .. guests /\ me.secret = Secret(me.pid)
  /\ reply' = Granted(200, [token |-> Secret(me.pid)])
  /\ UNCHANGED <<file, pc, loaded, me, rc, status, guests, first>>
Refuse ==
  /\ pc = "ask" /\ reply = Absent
  /\ \E code \in {401, 503} : reply' = Granted(code, <<>>)
  /\ UNCHANGED <<file, pc, loaded, me, rc, status, guests, first>>

\* dwi2_guest_register and dwi2_guest_login.
Needed == IF loaded THEN {"token"} ELSE {"player_id", "guest_secret", "token"}
Found_NoSecret(r) ==    \* mutant: a registration without its secret will do
  (Needed \ {"guest_secret"}) \subseteq (DOMAIN r.whole \ r.torn)
Found(r) == \A key \in Needed : dw2_json_str(r, key)
ResultOf(r) ==
  IF r.rc # 0 THEN -1
  ELSE IF r.status # (IF loaded THEN 200 ELSE 201) THEN -2
  ELSE IF Found(r) THEN 0 ELSE -1

\* The call returns; a run whose call failed ends with a message.
Hear ==
  /\ pc = "ask"
  /\ \E r \in IF reply = Absent THEN {Failed} ELSE dw2_http(reply) :
       /\ rc' = ResultOf(r) /\ status' = r.status
       /\ me' = [pid    |-> IF loaded THEN me.pid ELSE Left(r, "player_id", me.pid),
                 secret |-> IF loaded THEN me.secret ELSE Left(r, "guest_secret", me.secret),
                 token  |-> Left(r, "token", me.token)]
       /\ pc' = IF rc' # 0 THEN "off" ELSE IF loaded THEN "play" ELSE "save"
  /\ UNCHANGED <<file, loaded, reply, guests>>
  /\ first' = IF pc' = "play" /\ first = Absent THEN me'.pid ELSE first

\* A new guest is kept in the file, unless it cannot be opened or written.
Save ==
  /\ pc = "save" /\ pc' = "play"
  /\ \E kept \in BOOLEAN :
       file' = IF kept THEN [pid |-> me.pid, secret |-> me.secret] ELSE file
  /\ first' = IF first = Absent THEN me.pid ELSE first
  /\ UNCHANGED <<loaded, me, rc, status, reply, guests>>

\* It is opened, which empties it, and written in another step.
Kill ==
  /\ pc # "off" /\ pc' = "off"
  /\ file' \in IF pc = "save" THEN {file, Absent} ELSE {file}
  /\ UNCHANGED <<loaded, me, rc, status, reply, guests, first>>

Next == Launch \/ Register \/ Login \/ Refuse \/ Hear \/ Save \/ Kill

Spec == Init /\ [][Next]_vars

------------------------------------------------------------------------------
(* What the guest may rely on. *)

\* The type invariant.
GuestTypeOK ==
  /\ pc \in {"off", "ask", "save", "play"} /\ rc \in {0, -1, -2}
  /\ guests \in 0 .. MaxGuests
  /\ first \in {Absent} \cup 1 .. guests

(***************************************************************************)
(* dwi2_guest_register before the file is written: whatever is kept lets   *)
(* the next run in.  A secret kept in part would lock the guest out until  *)
(* the file is deleted.                                                    *)
(***************************************************************************)
KeptLetsIn == file # Absent => file.pid \in 1 .. guests /\ file.secret = Secret(file.pid)

(***************************************************************************)
(* "!loaded" before the file is written: once the file tells who the guest *)
(* is, no run, refused, failed or killed at any point, loses or changes    *)
(* it, and every run that plays does so as that guest.                     *)
(***************************************************************************)
KeptForGood ==
  [][file # Absent => file' = file /\ (pc' = "play" /\ loaded' => me'.pid = file.pid)]_vars

\* A run that plays has the whole token of the account it names itself by.
PlaysWithOwnToken == pc = "play" => me.token = Secret(me.pid) /\ me.pid \in 1 .. guests

(***************************************************************************)
(* apps/client/main.c: "relaunching resumes the same guest identity        *)
(* instead of minting a new one every time".                               *)
(***************************************************************************)
ResumesGuest == [][pc' = "play" /\ pc # "play" /\ first # Absent => me'.pid = first]_vars

\* core/iduna.h: "-1 network/config error (out_status set 0)".
FailureHasNoStatus == rc = -1 => status = 0
=============================================================================
