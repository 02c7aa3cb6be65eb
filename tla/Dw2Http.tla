------------------------------- MODULE Dw2Http -------------------------------
(***************************************************************************)
(* One blocking exchange, core/http.c, as its caller sees it.  A reply is  *)
(* read until the other side closes, a wait runs out or a read fails, and  *)
(* whatever has come by then is the reply: Content-Length is not looked    *)
(* at, so a reply may be cut anywhere.  Bodies are the values of their     *)
(* fields; how chunks are joined is left out.                              *)
(***************************************************************************)
EXTENDS Integers

CONSTANTS
  Absent,    \* no value
  Piece      \* the beginning of a value

\* dw2_http's result and what it read: the status, the fields read whole, and
\* the field the reply was cut in.
Failed == [rc |-> -1, status |-> 0, whole |-> <<>>, torn |-> {}]

\* A number of which only the first digits came: no status of IDUNA's is so low.
CutStatus == 40

(***************************************************************************)
(* What dw2_http may make of a reply: nothing, when no digit of the status *)
(* came; a cut status; the status without a body, when the blank line did  *)
(* not come; the status and any fields, since a cut leaves a prefix and    *)
(* nobody promises the order of the fields.                                *)
(***************************************************************************)
dw2_http(reply) ==
  {Failed} \cup
  {[rc |-> 0, status |-> CutStatus, whole |-> <<>>, torn |-> {}]} \cup
  {[rc |-> 0, status |-> reply.status, whole |-> [k \in W |-> reply.body[k]], torn |-> T] :
     W \in SUBSET DOMAIN reply.body, T \in {{}} \cup {{k} : k \in DOMAIN reply.body}}

\* The reply as it was sent.
Entire(reply) == [rc |-> 0, status |-> reply.status, whole |-> reply.body, torn |-> {}]

\* dw2_json_str finds a field only if its value came to the closing quote.
dw2_json_str(r, key) == key \in DOMAIN r.whole \ r.torn

(***************************************************************************)
(* And what it leaves in the caller's buffer: the value; the old contents  *)
(* when the key never came; or, when the value is cut, what came of it     *)
(* over the old contents, without a terminating zero.                      *)
(***************************************************************************)
Left(r, key, old) ==
  IF dw2_json_str(r, key) THEN r.whole[key]
  ELSE IF key \in r.torn THEN Piece ELSE old
=============================================================================
