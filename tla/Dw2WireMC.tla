------------------------------ MODULE Dw2WireMC -------------------------------
(***************************************************************************)
(* Instances of Dw2Wire for TLC.  Samples of every message: all fields at  *)
(* zero, all at their largest, and every field different from its          *)
(* neighbours, so that no two can be exchanged unseen.                     *)
(***************************************************************************)
EXTENDS Dw2Wire

Name16(n) == [i \in 1 .. n |-> 64 + i]

Value(field, k, kind) ==
  LET of(zero, most, mixed) == CASE kind = "zero" -> zero [] kind = "most" -> most
                                 [] OTHER -> mixed
  IN CASE field[2] = 1 -> of(0, 255, k)
       [] field[2] = 2 -> of(0, 65535, k + 256 * (k + 20))
       [] field[2] = 4 -> of(<<0, 0>>, <<65535, 65535>>, <<258 + k, 1027 + k>>)
       [] OTHER        -> Name16(of(0, 16, 5))

\* The field that says how many parts the tail has.
Counter(type) ==
  CASE type \in {"HELLO", "AUTH"} -> "token_len" [] type = "EVENTS" -> "n" [] OTHER -> "none"

\* A message whose tail has n parts.
Message(type, kind, n) ==
  LET fields   == Written[type]
      at(name) == CHOOSE k \in DOMAIN fields : fields[k][1] = name
      size     == TailLen(type, [token_len |-> n, n |-> n])
  IN [name \in Names(fields) \cup {"type", "tail"} |->
        CASE name = "type"        -> type
          [] name = "tail"        -> [i \in 1 .. size |-> (7 * i) % 256]
          [] name = Counter(type) -> n
          [] OTHER                -> Value(fields[at(name)], at(name), kind)]

Sizes(type) ==
  CASE type = "HELLO" -> {0, 1, MaxToken} [] type = "AUTH" -> {0, 1, 450, 509}
    [] type = "EVENTS" -> {0, 1, MaxEvents} [] OTHER -> {0}

Samples(types) ==
  UNION {{Message(t, kind, n) : kind \in {"zero", "most", "mixed"}, n \in Sizes(t)} : t \in types}

\* Short frames, of three to eleven bytes, for the small buffers.
ShortReplies  == {Message(t, "mixed", 0) : t \in {"CUT_REJECT", "WELCOME"}}
ShortRequests == {Message(t, "mixed", 0) : t \in {"READY", "PLACE"}}
Tokens        == {Message("AUTH", "mixed", n) : n \in {450, 500, 600, 900}}

\* Four messages down, or two up with one down.
McLoads == {<<4, 0>>, <<1, 2>>}

-----------------------------------------------------------------------------
(* Beside it, every message in its real size is handed to the decoder one  *)
(* byte at a time.                                                         *)

RealFrame == 512   \* DW2_MAX_FRAME_LEN

VARIABLES msg, fed   \* the message, and how many of its bytes have come

Nothing == [type |-> "none"]
Stream(m) == EncodeIn(RealFrame, m) \o EncodeIn(RealFrame, m)

WireInit == Init /\ msg \in Samples(Types) \cup {Nothing} /\ fed = 0

Feed ==
  /\ msg # Nothing /\ fed <= Len(EncodeIn(RealFrame, msg))
  /\ fed' = fed + 1
  /\ UNCHANGED <<vars, msg>>

WireNext == (msg = Nothing /\ Next /\ UNCHANGED <<msg, fed>>) \/ Feed

WireSpec == WireInit /\ [][WireNext]_<<vars, msg, fed>> /\ Fairness

\* Encoder, decoder and the table of sizes, three functions of core/protocol.c that
\* say the fields of a message each in its own way, agree: the decoder waits for the
\* last byte of a frame, gives back the message that was encoded, and takes nothing
\* of what follows.
FramesReadBack ==
  msg # Nothing =>
    LET size == Len(EncodeIn(RealFrame, msg))
    IN DecodeIn(RealFrame, SubSeq(Stream(msg), 1, fed)) =
         (IF fed < size THEN Wait ELSE [ret |-> 1, msg |-> msg, used |-> size])
===============================================================================
