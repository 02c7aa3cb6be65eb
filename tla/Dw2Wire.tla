-------------------------------- MODULE Dw2Wire --------------------------------
(***************************************************************************)
(* The bytes between the match server and one game client: send_msg,       *)
(* flush_conn, read_conn and the sweep of apps/server/main.c, send_msg and *)
(* poll_incoming of apps/client/main.c, and the socket between them        *)
(* (core/net.h), with the frames of Dw2Codec.                              *)
(*                                                                         *)
(* TCP keeps bytes in order and cuts them anywhere: a recv takes any of    *)
(* the sizes Chunks offers, a send as much as there is room for.  What the *)
(* messages say is free here; what they do is in Dw2Server and Dw2Client.  *)
(***************************************************************************)
EXTENDS Dw2Codec, SequencesExt

CONSTANTS
  MaxFrame,        \* DW2_MAX_FRAME_LEN
  InBuf, OutBuf,   \* the server's INBUF and OUTBUF
  ClientBuf,       \* sizeof inbuf of the client
  Replies, Requests,  \* the messages the server and the client may send
  Loads,           \* a bound of the model: how many messages are sent down and up
  Wire,            \* bytes the sockets' own buffers hold either way
  Chunks           \* the sizes a recv may return

ASSUME WireAssumption ==
  /\ MaxFrame \in Short   \* a length is two bytes
  /\ InBuf \in Nat /\ OutBuf \in Nat /\ ClientBuf \in Nat
  /\ InBuf >= MaxFrame + 2 /\ OutBuf >= MaxFrame + 2 /\ ClientBuf >= MaxFrame + 2
  /\ Loads \subseteq Nat \X Nat /\ Wire \in Nat \ {0}
  /\ Chunks \subseteq Nat \ {0} /\ 1 \in Chunks

ASSUME MessageAssumption == \A m \in Replies \cup Requests : IsMessage(m)

Encode(m)   == EncodeIn(MaxFrame, m)
Decode(buf) == DecodeIn(MaxFrame, buf)

VARIABLES
  sent,   \* .down, .up: the messages handed to send_msg
  out,    \* the server's conns[ci].out
  drop,   \* close_after_flush
  shut,   \* the server has closed its socket
  net,    \* .down, .up: the bytes under way
  srv,    \* the server's reading: in, the phase of read_conn, what was handled
  cli     \* the client's: inbuf, the phase of poll_incoming, what was handled

vars == <<sent, out, drop, shut, net, srv, cli>>

Phases == {"read", "decode", "malformed", "full", "eof", "exit"}
Reading == [in |-> <<>>, phase |-> "read", got |-> <<>>]

WireTypeOK ==
  /\ out \in Seq(Byte) /\ Len(out) <= OutBuf
  /\ drop \in BOOLEAN /\ shut \in BOOLEAN
  /\ \A bytes \in {net.down, net.up} : bytes \in Seq(Byte) /\ Len(bytes) <= Wire
  /\ srv.phase \in Phases \ {"exit"} /\ cli.phase \in Phases
  /\ srv.in \in Seq(Byte) /\ Len(srv.in) <= InBuf
  /\ cli.in \in Seq(Byte) /\ Len(cli.in) <= ClientBuf

Init ==
  /\ sent = [down |-> <<>>, up |-> <<>>]
  /\ out = <<>> /\ drop = FALSE /\ shut = FALSE
  /\ net = [down |-> <<>>, up |-> <<>>]
  /\ srv = Reading /\ cli = Reading

First(s, n) == SubSeq(s, 1, n)
Rest(s, n)  == SubSeq(s, n + 1, Len(s))
Least(a, b) == IF a < b THEN a ELSE b

\* So many may be sent.
Carries(down, up) == \E load \in Loads : down <= load[1] /\ up <= load[2]

Playing == cli.phase \in {"read", "decode"}

-----------------------------------------------------------------------------
(* The server's sending.                                                   *)

\* flush_conn of the bytes o: the socket takes what it has room for; a
\* client that has gone makes it fail.
Flush(o) ==
  LET n == Least(Len(o), Wire - Len(net.down))
  IN IF cli.phase = "exit"
     THEN out' = <<>> /\ drop' = TRUE /\ UNCHANGED net
     ELSE out' = Rest(o, n) /\ net' = [net EXCEPT !.down = @ \o First(o, n)] /\ UNCHANGED drop

\* send_msg: a reader too slow loses all that is waiting.
Send(m) ==
  /\ sent' = [sent EXCEPT !.down = Append(@, m)]
  /\ IF Len(out) + Len(Encode(m)) > OutBuf
     THEN out' = <<>> /\ drop' = TRUE /\ UNCHANGED net
     ELSE Flush(out \o Encode(m))

\* The server sends one of its messages.
Reply ==
  /\ ~shut /\ Carries(Len(sent.down) + 1, Len(sent.up))
  /\ \E m \in Replies : Encode(m) # <<>> /\ Send(m)
  /\ UNCHANGED <<shut, srv, cli>>

\* POLLOUT.
Writable ==
  /\ ~shut /\ out # <<>> /\ (Len(net.down) < Wire \/ cli.phase = "exit")
  /\ Flush(out)
  /\ UNCHANGED <<sent, shut, srv, cli>>

\* The sweep: a last flush, and conn_close.
Sweep ==
  /\ drop /\ ~shut
  /\ Flush(out)
  /\ shut' = TRUE
  /\ UNCHANGED <<sent, srv, cli>>

-----------------------------------------------------------------------------
(* The client's reading: poll_incoming.                                    *)

\* Mutant: the bytes are put before those that are waiting.
TakenFirst(r, bytes) == [r EXCEPT !.in = bytes \o @]

\* A recv that returned bytes.
Taken(r, bytes) == [r EXCEPT !.in = @ \o bytes]

\* One recv of the first loop that has an answer: bytes, or the end.  With
\* no room left it asks for none, and a socket that has some answers 0.
ClientRecv ==
  /\ cli.phase = "read"
  /\ \/ /\ Len(cli.in) < ClientBuf
        /\ \E k \in Chunks :
             /\ k <= Least(Len(net.down), ClientBuf - Len(cli.in))
             /\ cli' = Taken(cli, First(net.down, k))
             /\ net' = [net EXCEPT !.down = Rest(@, k)]
     \/ /\ IF net.down = <<>> THEN shut ELSE Len(cli.in) = ClientBuf
        /\ cli' = [cli EXCEPT !.phase = "eof"] /\ UNCHANGED net
  /\ UNCHANGED <<sent, out, drop, shut, srv>>

\* The recv that would block, for what is under way is not there yet.
ClientWaits ==
  /\ cli.phase = "read" /\ (net.down # <<>> \/ ~shut)
  /\ cli' = [cli EXCEPT !.phase = "decode"]
  /\ UNCHANGED <<sent, out, drop, shut, net, srv>>

\* Mutant: one frame is handled for each read.
DecodedOne(r) ==
  LET d == Decode(r.in)
  IN CASE d.ret = 1  -> [r EXCEPT !.in = Rest(@, d.used), !.got = Append(@, d.msg), !.phase = "read"]
       [] d.ret = 0  -> [r EXCEPT !.phase = "read"]
       [] d.ret = -1 -> [r EXCEPT !.phase = "malformed"]

\* What a decoder makes of the next frame of its buffer.
Decoded(r) ==
  LET d == Decode(r.in)
  IN CASE d.ret = 1  -> [r EXCEPT !.in = Rest(@, d.used), !.got = Append(@, d.msg)]
       [] d.ret = 0  -> [r EXCEPT !.phase = "read"]
       [] d.ret = -1 -> [r EXCEPT !.phase = "malformed"]

\* One turn of the second loop.
ClientDecode ==
  /\ cli.phase = "decode"
  /\ cli' = Decoded(cli)
  /\ UNCHANGED <<sent, out, drop, shut, net, srv>>

-----------------------------------------------------------------------------
(* The client's sending, and the server's reading.                         *)

\* send_msg of the client: the socket does not block, and a send that has no
\* room, like a message that has no frame, is the end of the program.
Request ==
  /\ Playing /\ Carries(Len(sent.down), Len(sent.up) + 1)
  /\ \E m \in Requests :
       LET b == Encode(m)
           n == Least(Len(b), Wire - Len(net.up))
       IN /\ net' = [net EXCEPT !.up = @ \o First(b, n)]
          /\ IF b # <<>> /\ n = Len(b)
             THEN sent' = [sent EXCEPT !.up = Append(@, m)] /\ UNCHANGED cli
             ELSE cli' = [cli EXCEPT !.phase = "exit"] /\ UNCHANGED sent
  /\ UNCHANGED <<out, drop, shut, srv>>

\* ESC: the socket is closed with the window.
Quit ==
  /\ Playing
  /\ cli' = [cli EXCEPT !.phase = "exit"]
  /\ UNCHANGED <<sent, out, drop, shut, net, srv>>

\* The recv of read_conn, when poll says there is something: bytes, the end
\* of the stream, or no room to read into, which looks the same as the end.
\* What is read of a connection that is to be closed is left alone.
ServerRecv ==
  /\ ~shut /\ ~drop /\ srv.phase = "read"
  /\ \/ /\ net.up # <<>> /\ Len(srv.in) < InBuf
        /\ \E k \in Chunks :
             /\ k <= Least(Len(net.up), InBuf - Len(srv.in))
             /\ srv' = [Taken(srv, First(net.up, k)) EXCEPT !.phase = "decode"]
             /\ net' = [net EXCEPT !.up = Rest(@, k)]
        /\ UNCHANGED shut
     \/ /\ IF net.up = <<>> THEN cli.phase = "exit" ELSE Len(srv.in) = InBuf
        /\ srv' = [srv EXCEPT !.phase = "eof"] /\ shut' = TRUE
        /\ UNCHANGED net
  /\ UNCHANGED <<sent, out, drop, cli>>

\* The buffer is full, and holds no whole frame.
Filled(r) == Len(r.in) >= InBuf

\* One turn of the loop of read_conn, and what follows the last: frames are
\* left alone once the connection is to be closed.
ServerDecode ==
  /\ ~shut /\ srv.phase = "decode"
  /\ LET next == IF drop THEN [srv EXCEPT !.phase = "read"] ELSE Decoded(srv)
         full == next.phase = "read" /\ Filled(next) /\ ~drop
     IN /\ srv' = IF full THEN [next EXCEPT !.phase = "full"] ELSE next
        /\ IF full \/ next.phase = "malformed"
           THEN drop' = TRUE ELSE UNCHANGED drop
  /\ UNCHANGED <<sent, out, shut, net, cli>>

Next ==
  \/ Reply \/ Writable \/ Sweep
  \/ ClientRecv \/ ClientWaits \/ ClientDecode \/ Request \/ Quit
  \/ ServerRecv \/ ServerDecode

Spec == Init /\ [][Next]_vars

\* poll() returns for a socket that is ready, the client polls in every frame
\* it draws, and what is under way does not stay away from every recv; what
\* is sent, and when, is free.
Fairness ==
  /\ WF_vars(Writable) /\ WF_vars(Sweep)
  /\ SF_vars(ClientRecv) /\ WF_vars(ClientWaits) /\ WF_vars(ClientDecode)
  /\ WF_vars(ServerRecv) /\ WF_vars(ServerDecode)

FairSpec == Spec /\ Fairness

-----------------------------------------------------------------------------
(* Properties.                                                             *)

\* Reading piece by piece, the server never takes a sound client's bytes for
\* a bad frame, nor a full buffer for the end of its stream.
SoundIsServed ==
  /\ srv.phase \notin {"malformed", "full"}
  /\ srv.phase = "eof" => cli.phase = "exit"

\* What either side handles is what the other sent, whole and in order,
\* wherever the stream was cut, no sound client is refused for it, and no buffer
\* is written past its end; of a client that is being dropped only the server is sure.
NothingGarbled ==
  /\ WireTypeOK /\ IsPrefix(srv.got, sent.up) /\ SoundIsServed
  /\ drop \/ (IsPrefix(cli.got, sent.down) /\ cli.phase # "malformed")

\* Nothing either of them sends stays under way for ever: the other handles it,
\* unless one of the two has ended it.
AllArrives ==
  /\ <>[](cli.got = sent.down \/ drop \/ shut \/ ~Playing)
  /\ <>[](srv.got = sent.up \/ drop \/ shut \/ ~Playing)

\* "server closed connection" is said of a server that has.
OnlyClosedIsEof == cli.phase = "eof" => shut

\* Every frame the client decodes is one the server sent.
FramesAreFrames == cli.phase # "malformed"

\* Every message within the limits the header declares has a frame.
LimitsFit == cli.phase # "exit"
===============================================================================
