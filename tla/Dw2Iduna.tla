------------------------------ MODULE Dw2Iduna ------------------------------
(***************************************************************************)
(* The server's IDUNA client, core/iduna.c: the agent's secret, its cached *)
(* token, the report of a match with its one retry, and the verification   *)
(* of a player's token.  Dw2Worker is the thread that calls it, and takes  *)
(* only the results from here.                                             *)
(*                                                                         *)
(* IDUNA itself is external: it accepts the tokens of the present era,     *)
(* may refuse or fail any request, before or after it has done what was    *)
(* asked, and may handle a request whose caller has given up.              *)
(***************************************************************************)
EXTENDS Dw2Http, Sequences

CONSTANTS
  Matches,    \* the matches reported
  Players,    \* the player tokens IDUNA knows; each is also its player_id
  Strangers,  \* tokens it does not know
  Files,      \* agent secret files: sequences of lines [key, val]
  Right,      \* the agent's secret
  MaxEra      \* a bound of the model on how often tokens expire

VARIABLES
  secret,    \* agent_secret
  token,     \* the cached token: none, cut, or the era it was issued in
  pc, job, attempt,     \* where the call stands, what it is about
  asked,     \* the request waited for
  reply,     \* IDUNA's reply to it, or Absent
  returned,  \* dwi2_report's results
  verified,  \* the last dwi2_verify: the token, the result and the identity
  era, late, recorded,  \* IDUNA: the era, requests given up, posts accepted
  trouble    \* history: something failed during this call

vars == <<secret, token, pc, job, attempt, asked, reply, returned, verified, era, late, recorded, trouble>>
iduna == <<era, late, recorded>>

None == 0

(***************************************************************************)
(* dwi2_configure: of the lines that name this agent the last one counts;  *)
(* without one, the first line of a file of one line, if it has no '='.    *)
(* A line is [key |-> "own"], another agent's, or a raw value.             *)
(***************************************************************************)
Own(file) == {n \in DOMAIN file : file[n].key = "own"}
Raw(file) == Len(file) = 1 /\ file[1].key = "raw"
dwi2_configure(file) ==
  IF Own(file) # {} THEN file[CHOOSE n \in Own(file) : \A o \in Own(file) : o <= n].val
  ELSE IF Raw(file) THEN file[1].val ELSE Absent

Nothing == [kind |-> "none", bearer |-> None, what |-> Absent]
Nobody  == [token |-> Absent, rc |-> 0, player_id |-> Absent, display_name |-> Absent]

\* The process goes on only with a secret: apps/server/main.c.
Init ==
  /\ secret \in {dwi2_configure(f) : f \in Files} \ {Absent}
  /\ token = None /\ pc = "idle" /\ job = Absent /\ attempt = 0
  /\ asked = Nothing /\ reply = Absent
  /\ returned = [m \in Matches |-> Absent] /\ verified = Nobody
  /\ era = 1 /\ late = {} /\ recorded = [m \in Matches |-> 0]
  /\ trouble = FALSE

------------------------------------------------------------------------------
\* The calls the worker makes, one at a time.

Ask(kind, bearer, what) ==
  /\ asked' = [kind |-> kind, bearer |-> bearer, what |-> what]
  /\ reply' = Absent

Report(m) ==
  /\ pc = "idle" /\ returned[m] = Absent
  /\ pc' = "attempt" /\ job' = m /\ attempt' = 0 /\ trouble' = FALSE
  /\ UNCHANGED <<secret, token, asked, reply, returned, verified, iduna>>

Verify(t) ==
  /\ pc = "idle"
  /\ pc' = "verify" /\ job' = t /\ trouble' = FALSE
  /\ Ask("verify", None, t)
  /\ UNCHANGED <<secret, token, attempt, returned, verified, iduna>>

\* The head of dwi2_report's loop: it logs in first if it has no token.
Attempt ==
  /\ pc = "attempt" /\ attempt < 2
  /\ pc' = IF token = None THEN "login" ELSE "report"
  /\ IF token = None THEN Ask("login", None, secret) ELSE Ask("report", token, job)
  /\ UNCHANGED <<secret, token, job, attempt, returned, verified, iduna, trouble>>

Return(rc) == pc' = "idle" /\ returned' = [returned EXCEPT ![job] = rc]

GiveUp ==
  /\ pc = "attempt" /\ attempt = 2
  /\ Return(-1)
  /\ UNCHANGED <<secret, token, job, attempt, asked, reply, verified, iduna, trouble>>

------------------------------------------------------------------------------
\* What the caller does with the reply.

LoginHeard(r) ==
  /\ pc = "login"
  /\ LET ok == r.rc = 0 /\ r.status = 200
     IN  /\ token' = IF ok THEN Left(r, "access_token", token) ELSE token
         /\ IF ok /\ dw2_json_str(r, "access_token")
            THEN pc' = "attempt" /\ UNCHANGED returned ELSE Return(-1)
  /\ UNCHANGED <<attempt, verified>>

ReportHeard_KeepsToken(r) ==    \* mutant: a 401 leaves the token
  /\ pc = "report"
  /\ IF r.rc = 0 /\ r.status = 401
     THEN attempt' = attempt + 1 /\ pc' = "attempt" /\ UNCHANGED <<token, returned>>
     ELSE /\ Return(IF r.rc = 0 /\ r.status = 200 THEN 0 ELSE -1)
          /\ UNCHANGED <<token, attempt>>
  /\ UNCHANGED verified
ReportHeard_RetriesAll(r) ==    \* mutant: every failure is tried again
  /\ pc = "report"
  /\ IF r.rc = 0 /\ r.status # 200
     THEN token' = None /\ attempt' = attempt + 1 /\ pc' = "attempt" /\ UNCHANGED returned
     ELSE /\ Return(IF r.rc = 0 /\ r.status = 200 THEN 0 ELSE -1)
          /\ UNCHANGED <<token, attempt>>
  /\ UNCHANGED verified
ReportHeard(r) ==
  /\ pc = "report"
  /\ IF r.rc = 0 /\ r.status = 401
     THEN token' = None /\ attempt' = attempt + 1 /\ pc' = "attempt" /\ UNCHANGED returned
     ELSE /\ Return(IF r.rc = 0 /\ r.status = 200 THEN 0 ELSE -1)
          /\ UNCHANGED <<token, attempt>>
  /\ UNCHANGED verified

VerifyResult(r) ==
  IF r.rc # 0 \/ r.status >= 500 THEN -1
  ELSE IF r.status # 200 \/ ~dw2_json_str(r, "player_id") THEN -2 ELSE 0

VerifyHeard(r) ==
  /\ pc = "verify" /\ pc' = "idle"
  /\ verified' = [token |-> job, rc |-> VerifyResult(r),
                  player_id |-> Left(r, "player_id", Absent),
                  display_name |-> Left(r, "display_name", Absent)]
  /\ UNCHANGED <<token, attempt, returned>>

(***************************************************************************)
(* The exchange ends: with what was read of the reply, or with nothing,    *)
(* and then the request may still reach IDUNA.                             *)
(***************************************************************************)
Hear ==
  /\ pc \in {"login", "report", "verify"}
  /\ \E r \in IF reply = Absent THEN {Failed} ELSE dw2_http(reply), arrives \in BOOLEAN :
       /\ LoginHeard(r) \/ ReportHeard(r) \/ VerifyHeard(r)
       /\ late' = IF arrives /\ reply = Absent THEN late \cup {asked} ELSE late
       /\ trouble' = (trouble \/ reply = Absent \/ r # Entire(reply))
  /\ asked' = Nothing /\ reply' = Absent
  /\ UNCHANGED <<secret, job, era, recorded>>

------------------------------------------------------------------------------
\* IDUNA.

Says(status) == [status |-> status, body |-> <<>>]

Accepts(q) ==
  CASE q.kind = "login"  -> q.what = Right
    [] q.kind = "report" -> q.bearer = era
    [] OTHER             -> q.what \in Players

Granted(q) ==
  [status |-> 200,
   body |-> CASE q.kind = "login"  -> [access_token |-> era]
              [] q.kind = "report" -> <<>>
              [] OTHER -> [player_id |-> q.what, display_name |-> q.what]]

Does(q) == recorded' = IF q.kind = "report" THEN [recorded EXCEPT ![q.what] = @ + 1] ELSE recorded

\* It grants a request, or does what is asked and fails to say so.
Grant ==
  /\ asked # Nothing /\ reply = Absent /\ Accepts(asked)
  /\ Does(asked)
  /\ reply' \in {Granted(asked), Says(503)}
  /\ trouble' = (trouble \/ reply'.status # 200)
  /\ UNCHANGED <<secret, token, pc, job, attempt, asked, returned, verified, era, late>>

\* It refuses one, with or without a reason, or fails at once.
Refuse ==
  /\ asked # Nothing /\ reply = Absent
  /\ reply' \in {Says(401), Says(503)}
  /\ trouble' = (trouble \/ Accepts(asked) \/ reply'.status # 401)
  /\ UNCHANGED <<secret, token, pc, job, attempt, asked, returned, verified, iduna>>

Belated ==
  \E q \in late :
    /\ late' = late \ {q}
    /\ IF Accepts(q) THEN Does(q) ELSE UNCHANGED recorded
    /\ UNCHANGED <<secret, token, pc, job, attempt, asked, reply, returned, verified, era, trouble>>

Expire ==
  /\ era < MaxEra /\ era' = era + 1 /\ trouble' = TRUE
  /\ UNCHANGED <<secret, token, pc, job, attempt, asked, reply, returned, verified, late, recorded>>

Next ==
  \/ \E m \in Matches : Report(m)
  \/ \E t \in Players \cup Strangers : Verify(t)
  \/ Attempt \/ GiveUp \/ Hear
  \/ Grant \/ Refuse \/ Belated \/ Expire

\* Every wait of dw2_http ends, at the latest when its buffer is full.
Spec == Init /\ [][Next]_vars /\ WF_vars(Hear) /\ WF_vars(Attempt \/ GiveUp)

------------------------------------------------------------------------------
(* What the client promises. *)

\* The type invariant.
IdunaTypeOK ==
  /\ token \in {Piece} \cup (None .. MaxEra) /\ attempt \in 0 .. 2
  /\ pc \in {"idle", "attempt", "login", "report", "verify"}
  /\ returned \in [Matches -> {Absent, 0, -1}] /\ verified.rc \in {0, -1, -2}
  /\ recorded \in [Matches -> Nat] /\ \A q \in late : q.kind # "none"

(***************************************************************************)
(* dwi2_report: a call in which IDUNA and the network do their part, and   *)
(* the secret is right, succeeds, whatever the calls before it left in the *)
(* cache: no token, one that expired since, or the beginning of one.       *)
(***************************************************************************)
NoNeedlessFailure ==
  [][\A m \in Matches : returned'[m] = -1 /\ returned[m] = Absent =>
       trouble' \/ secret # Right]_vars

(***************************************************************************)
(* dwi2_report, "0 ok": a result it calls reported has been recorded; and  *)
(* it posts again only what IDUNA refused, so no result is recorded twice. *)
(***************************************************************************)
RecordedOnce ==
  \A m \in Matches : recorded[m] <= 1 /\ (returned[m] = 0 => recorded[m] = 1)

(***************************************************************************)
(* dwi2_verify: whoever it verifies is the player IDUNA holds for the      *)
(* token, however the reply was cut: neither a stranger nor a part of a    *)
(* player_id, under which another account's results might be reported.     *)
(***************************************************************************)
VerifiedIsWhole ==
  verified # Nobody /\ verified.rc = 0 =>
    verified.token \in Players /\ verified.player_id = verified.token

\* dwi2_configure: another agent's key is never taken for one's own.
OwnKeyOnly ==
  \A f \in Files : \A n \in DOMAIN f : f[n].key = "other" => f[n].val # secret

\* The worker is never held by one call for ever.
CallsReturn == pc # "idle" ~> pc = "idle"

(***************************************************************************)
(* core/iduna.h of dwi2_verify: "-2 rejected (401/403/other 4xx)".  So     *)
(* IDUNA did not answer 200.                                               *)
(***************************************************************************)
RejectedByIduna ==
  [][verified'.rc = -2 /\ verified' # verified => reply.status \in 400 .. 499]_vars

=============================================================================
