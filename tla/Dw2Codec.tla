------------------------------- MODULE Dw2Codec -------------------------------
(***************************************************************************)
(* The wire format, core/protocol.c: a frame is its length in two bytes,   *)
(* its type in one, and the fields of its type.  A message is a record of  *)
(* a type and its field values.  DW2_MAX_FRAME_LEN is the parameter max.   *)
(***************************************************************************)
EXTENDS Dw2Messages

Names(fields) == {fields[k][1] : k \in DOMAIN fields}

\* Field k is what lies between Ends(fields)[k - 1] and Ends(fields)[k].
Ends(fields) ==
  LET end[k \in 0 .. Len(fields)] == IF k = 0 THEN 0 ELSE end[k - 1] + fields[k][2]
  IN end

\* What follows the fields, byte by byte: a token, the parts of a ship, or
\* the events of a second.
TailLen(type, m) ==
  CASE type \in {"HELLO", "AUTH"} -> m.token_len
    [] type = "OPP_SHIP"          -> 4 * MaxParts
    [] type = "EVENTS"            -> 7 * m.n
    [] OTHER                      -> 0

\* Dw2WireMsg: what a field of a message may be.  A name ends at its first zero.
ValuesOf(field) ==
  CASE field[2] = NameLen -> {s \in Seq(Byte \ {0}) : Len(s) <= NameLen}
    [] field[2] = 4       -> Short \X Short
    [] field[2] = 2       -> Short
    [] OTHER              -> Byte

IsMessage(m) ==
  LET fields == Written[m.type]
  IN /\ m.type \in Types
     /\ m = [name \in Names(fields) \cup {"type", "tail"} |-> m[name]]
     /\ \A k \in DOMAIN fields : m[fields[k][1]] \in ValuesOf(fields[k])
     /\ m.tail \in Seq(Byte) /\ Len(m.tail) = TailLen(m.type, m)

-----------------------------------------------------------------------------
(* dw2_encode.                                                             *)

\* w8 and w16: little-endian, whatever does not fit dropped.
Little(width, v) == IF width = 1 THEN <<v % 256>> ELSE <<v % 256, (v \div 256) % 256>>

\* wname: at most sixteen characters, and zeros.
Padded(s) == [i \in 1 .. NameLen |-> IF i <= Len(s) THEN s[i] ELSE 0]

Put(field, v) ==
  CASE field[2] = NameLen -> Padded(v)
    [] field[2] = 4       -> Little(2, v[1]) \o Little(2, v[2])
    [] OTHER              -> Little(field[2], v)

\* What is written once field k is.
Laid(fields, m) ==
  LET laid[k \in 0 .. Len(fields)] ==
        IF k = 0 THEN <<>> ELSE laid[k - 1] \o Put(fields[k], m[fields[k][1]])
  IN laid

Body(m) ==
  LET fields == Written[m.type]
  IN Laid(fields, m)[Len(fields)] \o SubSeq(m.tail, 1, TailLen(m.type, m))

TooLong(max, m) ==
  \/ m.type = "HELLO" /\ m.token_len > MaxToken
  \/ m.type = "AUTH" /\ m.token_len > MaxAuthToken
  \/ m.type = "EVENTS" /\ m.n > MaxEvents
  \/ Len(Body(m)) + 1 > max

\* The frame of a message, or <<>> for -1.
EncodeIn(max, m) ==
  IF TooLong(max, m) THEN <<>>
  ELSE Little(2, Len(Body(m)) + 1) \o <<TypeByte[m.type]>> \o Body(m)

-----------------------------------------------------------------------------
(* dw2_decode.                                                             *)

\* r8 and r16.
Number(bytes) == IF Len(bytes) = 1 THEN bytes[1] ELSE bytes[1] + 256 * bytes[2]

\* rname: up to the first zero.
NameIn(bytes) ==
  SubSeq(bytes, 1, CHOOSE n \in 0 .. NameLen : /\ \A i \in 1 .. n : bytes[i] # 0
                                               /\ n = NameLen \/ bytes[n + 1] = 0)

Get(field, bytes) ==
  CASE field[2] = NameLen -> NameIn(bytes)
    [] field[2] = 4       -> <<Number(SubSeq(bytes, 1, 2)), Number(SubSeq(bytes, 3, 4))>>
    [] OTHER              -> Number(bytes)

\* A payload read as one of the type.
Parsed(type, payload) ==
  LET fields == Read[type]
      end    == Ends(fields)
      at(name) == CHOOSE k \in DOMAIN fields : fields[k][1] = name
  IN [name \in Names(fields) \cup {"type", "tail"} |->
        CASE name = "type" -> type
          [] name = "tail" -> SubSeq(payload, end[Len(fields)] + 1, Len(payload))
          [] OTHER         -> LET k == at(name)
                              IN Get(fields[k], SubSeq(payload, end[k - 1] + 1, end[k]))]

\* The size a payload of the type must have, as far as it says so itself.
WellSized(type, payload) ==
  LET n == Len(payload)
  IN CASE type = "HELLO"  -> n >= 19 /\ payload[19] <= MaxToken /\ payload[19] = n - 19
       [] type = "AUTH"   -> n >= 2 /\ LET t == Number(SubSeq(payload, 1, 2))
                                       IN t <= MaxAuthToken /\ t = n - 2
       [] type = "EVENTS" -> n >= 7 /\ n = 7 + 7 * payload[2] /\ payload[2] <= MaxEvents
       [] OTHER           -> n = PayloadSize[type]

Wait == [ret |-> 0]     \* more bytes are needed
Bad  == [ret |-> -1]    \* the connection must close

FrameLen(buf) == Number(SubSeq(buf, 1, 2))

\* The first frame is all there.
Whole(buf) == Len(buf) >= 2 /\ Len(buf) >= 2 + FrameLen(buf)

\* The first frame of a buffer.
DecodeIn(max, buf) ==
  IF Len(buf) >= 2 /\ FrameLen(buf) \notin 1 .. max THEN Bad
  ELSE IF ~Whole(buf) THEN Wait
  ELSE LET known   == {t \in Types : TypeByte[t] = buf[3]}
           type    == CHOOSE t \in known : TRUE
           payload == SubSeq(buf, 4, 2 + FrameLen(buf))
       IN IF known = {} \/ ~WellSized(type, payload) THEN Bad
          ELSE [ret |-> 1, msg |-> Parsed(type, payload), used |-> 2 + FrameLen(buf)]
===============================================================================
