---------------------------- MODULE Dw2Wire_proofs ----------------------------
(***************************************************************************)
(* Proofs about the bytes between the match server and a game client.      *)
(*                                                                         *)
(* First the codec: a message of any type and any values that has a frame  *)
(* is read back from it, for any limit on frames (MessagesReadBack).  What *)
(* is made of one field after the other is a function of how many there    *)
(* were, so that induction is over that number; the sizes are then counted *)
(* type by type.                                                           *)
(*                                                                         *)
(* Then the stream, for buffers, sockets, frames and chunks of every size  *)
(* and any messages.  NothingGarbled speaks of what was handled; the       *)
(* inductive invariant of where the frames lie in the bytes that were not: *)
(* those in the reader's buffer, those under way and those that wait to be *)
(* sent are, in this order, the frames of the messages still to be handled.*)
(***************************************************************************)
EXTENDS Dw2WireMC, SequenceTheorems, WellFoundedInduction, TLAPS

\* The messages that have a frame.
Sendable == {m \in Replies \cup Requests : Encode(m) # <<>>}

\* cut[k] is where the frame of message k of those sent ends in the bytes; the first
\* Len(got) of them are no longer there.
Cuts(cut, got, ms, bytes) ==
  /\ cut[Len(got)] = 0 /\ cut[Len(ms)] <= Len(bytes)
  /\ \A j, k \in Len(got) .. Len(ms) : j <= k => cut[j] <= cut[k]
  /\ \A k \in Len(got) + 1 .. Len(ms) :
       /\ cut[k] = cut[k - 1] + Len(Encode(ms[k]))
       /\ \A i \in 1 .. Len(Encode(ms[k])) : bytes[cut[k - 1] + i] = Encode(ms[k])[i]

\* What follows byte c is the beginning of a frame.
Begun(m, bytes, c) ==
  /\ Len(bytes) - c < Len(Encode(m))
  /\ \A i \in 1 .. Len(bytes) - c : bytes[c + i] = Encode(m)[i]

\* The bytes are the frames of the messages ms after those in got, and perhaps the
\* beginning of the frame of one of the messages in part.
Framed(got, ms, bytes, part) ==
  \E cut \in [0 .. Len(ms) -> Int] :
    /\ Cuts(cut, got, ms, bytes)
    /\ \/ cut[Len(ms)] = Len(bytes)
       \/ \E m \in part : Begun(m, bytes, cut[Len(ms)])

\* Only a client that has ended may have sent a part of a frame.
Unfinished == IF cli.phase = "exit" THEN Sendable ELSE {}

\* One after the other, what waits in the reader's buffer, under way and at the sender.
Up   == srv.in \o net.up
Down == (cli.in \o net.down) \o out

Reader(r) ==
  r.in \in Seq(Byte) /\ r = [in |-> r.in, phase |-> r.phase, got |-> r.got]

WireShape ==
  /\ sent \in [down : Seq(Sendable), up : Seq(Sendable)]
  /\ net \in [down : Seq(Byte), up : Seq(Byte)]
  /\ Reader(srv) /\ Reader(cli)
  /\ WireTypeOK

\* What a reader has handled was sent, and what is left of the stream is the rest.
Followed(r, ms, bytes, part) ==
  r.got \in Seq(Sendable) /\ IsPrefix(r.got, ms) /\ Framed(r.got, ms, bytes, part)

UpOK   == Followed(srv, sent.up, Up, Unfinished)
DownOK == Followed(cli, sent.down, Down, {}) /\ cli.phase # "malformed"

\* The server never stops before a full buffer: the longest frame fits in it.
RoomLeft == srv.phase = "read" => drop \/ Len(srv.in) < InBuf

WireInv == WireShape /\ UpOK /\ (drop \/ DownOK) /\ SoundIsServed /\ RoomLeft

-----------------------------------------------------------------------------
(* Sequences.                                                              *)

Taking(s, n, S) ==
  /\ First(s, n) \in Seq(S) /\ Len(First(s, n)) = n
  /\ \A i \in 1 .. n : First(s, n)[i] = s[i]
  /\ Rest(s, n) \in Seq(S) /\ Len(Rest(s, n)) = Len(s) - n
  /\ \A i \in 1 .. Len(s) - n : Rest(s, n)[i] = s[n + i]

LEMMA TakingIs ==
  ASSUME NEW S, NEW s \in Seq(S), NEW n \in 0 .. Len(s)
  PROVE  Taking(s, n, S)
<1>1. Len(s) \in Nat /\ n \in Int /\ n + 1 \in Int /\ \A i \in 1 .. Len(s) : s[i] \in S
  OBVIOUS
<1>2. /\ SubSeq(s, 1, n) \in Seq(S) /\ Len(SubSeq(s, 1, n)) = n
      /\ \A i \in 1 .. n : SubSeq(s, 1, n)[i] = s[i]
  OBVIOUS
<1>3. /\ SubSeq(s, n + 1, Len(s)) \in Seq(S) /\ Len(SubSeq(s, n + 1, Len(s))) = Len(s) - n
      /\ \A i \in 1 .. Len(s) - n : SubSeq(s, n + 1, Len(s))[i] = s[n + i]
  OBVIOUS
<1> QED BY <1>2, <1>3 DEF Taking, First, Rest

LEMMA Parted ==
  ASSUME NEW S, NEW s \in Seq(S), NEW n \in 0 .. Len(s)
  PROVE  First(s, n) \o Rest(s, n) = s
<1> DEFINE f == First(s, n)
           r == Rest(s, n)
<1>1. Taking(s, n, S)
  BY TakingIs
<1>2. f \in Seq(S) /\ r \in Seq(S) /\ Len(f) = n /\ Len(r) = Len(s) - n
  BY <1>1 DEF Taking
<1>3. \A i \in 1 .. n : f[i] = s[i]
  BY <1>1 DEF Taking
<1>4. \A i \in 1 .. Len(s) - n : r[i] = s[n + i]
  BY <1>1 DEF Taking
<1> HIDE DEF f, r
<1>5. /\ f \o r \in Seq(S) /\ Len(f \o r) = Len(s)
      /\ \A i \in 1 .. Len(s) : (f \o r)[i] = IF i <= n THEN f[i] ELSE r[i - n]
  BY <1>2
<1>6. \A i \in 1 .. Len(s) : (f \o r)[i] = s[i]
  <2> SUFFICES ASSUME NEW i \in 1 .. Len(s)
               PROVE  (f \o r)[i] = s[i]
    OBVIOUS
  <2>1. CASE i <= n
    BY <1>3, <1>5, <2>1
  <2>2. CASE ~(i <= n)
    <3>1. i - n \in 1 .. Len(s) - n /\ n + (i - n) = i
      BY <2>2
    <3> QED BY <1>4, <1>5, <2>2, <3>1
  <2> QED BY <2>1, <2>2
<1>7. f \o r = s
  BY <1>5, <1>6, SeqEqual
<1> QED BY <1>7 DEF f, r

\* Bytes that move from one buffer to the next stay where they are in the stream.
LEMMA Moved ==
  ASSUME NEW S, NEW a \in Seq(S), NEW b \in Seq(S), NEW n \in 0 .. Len(b)
  PROVE  (a \o First(b, n)) \o Rest(b, n) = a \o b
<1>1. First(b, n) \in Seq(S) /\ Rest(b, n) \in Seq(S)
  BY TakingIs DEF Taking
<1>2. First(b, n) \o Rest(b, n) = b
  BY Parted
<1> DEFINE f == First(b, n)
           r == Rest(b, n)
<1> HIDE DEF f, r
<1>3. (a \o f) \o r = a \o (f \o r)
  BY <1>1, ConcatAssociative DEF f, r
<1>4. f \o r = b
  BY <1>2 DEF f, r
<1>5. (a \o f) \o r = a \o b
  BY <1>3, <1>4
<1> QED BY <1>5 DEF f, r

Joined(a, b, S) ==
  /\ a \o b \in Seq(S) /\ Len(a \o b) = Len(a) + Len(b)
  /\ \A i \in 1 .. Len(a) : (a \o b)[i] = a[i]
  /\ \A i \in 1 .. Len(b) : (a \o b)[Len(a) + i] = b[i]

LEMMA JoinedIs ==
  ASSUME NEW S, NEW a \in Seq(S), NEW b \in Seq(S)
  PROVE  Joined(a, b, S)
<1>1. /\ a \o b \in Seq(S) /\ Len(a \o b) = Len(a) + Len(b)
      /\ \A i \in 1 .. Len(a) : (a \o b)[i] = a[i]
  OBVIOUS
<1>2. \A i \in 1 .. Len(b) : (a \o b)[Len(a) + i] = b[i]
  OBVIOUS
<1> QED BY <1>1, <1>2 DEF Joined

Sliced(s, b, c, S) ==
  /\ SubSeq(s, b + 1, c) \in Seq(S) /\ Len(SubSeq(s, b + 1, c)) = c - b
  /\ \A i \in 1 .. c - b : SubSeq(s, b + 1, c)[i] = s[b + i]

LEMMA Slice ==
  ASSUME NEW S, NEW s \in Seq(S), NEW b \in Nat, NEW c \in Nat, b <= c, c <= Len(s)
  PROVE  Sliced(s, b, c, S)
<1>1. SubSeq(s, b + 1, c) \in Seq(S)
  OBVIOUS
<1>2. Len(SubSeq(s, b + 1, c)) = c - b
  OBVIOUS
<1>3. \A i \in 1 .. c - b : SubSeq(s, b + 1, c)[i] = s[b + i]
  OBVIOUS
<1> QED BY <1>1, <1>2, <1>3 DEF Sliced

\* What was joined can be taken apart.
LEMMA Apart ==
  ASSUME NEW S, NEW a \in Seq(S), NEW b \in Seq(S)
  PROVE  First(a \o b, Len(a)) = a /\ Rest(a \o b, Len(a)) = b
<1> DEFINE c == a \o b
           n == Len(a)
<1>1. Joined(a, b, S)
  BY JoinedIs
<1>2. c \in Seq(S) /\ Len(c) = n + Len(b)
  BY <1>1 DEF Joined
<1>3. (\A i \in 1 .. n : c[i] = a[i]) /\ \A i \in 1 .. Len(b) : c[n + i] = b[i]
  BY <1>1 DEF Joined
<1>4. n \in Nat /\ Len(b) \in Nat
  OBVIOUS
<1> HIDE DEF c, n
<1>5. n \in 0 .. Len(c) /\ Len(c) - n = Len(b)
  BY <1>2, <1>4
<1>6. Taking(c, n, S)
  BY <1>2, <1>5, TakingIs
<1>7. First(c, n) \in Seq(S) /\ Len(First(c, n)) = n /\ \A i \in 1 .. n : First(c, n)[i] = a[i]
  BY <1>3, <1>6 DEF Taking
<1>8. /\ Rest(c, n) \in Seq(S) /\ Len(Rest(c, n)) = Len(b)
      /\ \A i \in 1 .. Len(b) : Rest(c, n)[i] = b[i]
  BY <1>3, <1>5, <1>6 DEF Taking
<1> DEFINE f == First(c, n)
           r == Rest(c, n)
<1> HIDE DEF f, r
<1>9. f = a
  BY <1>7, SeqEqual DEF f, n
<1>10. r = b
  BY <1>8, SeqEqual DEF r
<1> QED BY <1>9, <1>10 DEF f, r, c, n

LEMMA Associates ==
  \A a, b, c \in Seq(Byte) : b \o c \in Seq(Byte) /\ (a \o b) \o c = a \o (b \o c)
BY ConcatAssociative

LEMMA MovedOn ==
  ASSUME NEW a \in Seq(Byte), NEW d \in Seq(Byte), NEW o \in Seq(Byte), NEW n \in 0 .. Len(o)
  PROVE  (a \o (d \o First(o, n))) \o Rest(o, n) = (a \o d) \o o
<1>1. a \o d \in Seq(Byte)
  BY Associates
<1>2. First(o, n) \in Seq(Byte)
  BY TakingIs DEF Taking
<1>3. a \o (d \o First(o, n)) = (a \o d) \o First(o, n)
  BY <1>2, Associates
<1>4. ((a \o d) \o First(o, n)) \o Rest(o, n) = (a \o d) \o o
  BY <1>1, Moved
<1> QED BY <1>3, <1>4

\* The next message of those sent is the one a prefix of them lacks.
LEMMA NextGot ==
  ASSUME NEW S, NEW got \in Seq(S), NEW ms \in Seq(S), IsPrefix(got, ms),
         Len(got) < Len(ms)
  PROVE  /\ Append(got, ms[Len(got) + 1]) \in Seq(S)
         /\ Len(Append(got, ms[Len(got) + 1])) = Len(got) + 1
         /\ IsPrefix(Append(got, ms[Len(got) + 1]), ms)
<1> DEFINE n == Len(got)
           x == ms[n + 1]
           g == Append(got, x)
<1>1. n \in Nat /\ n + 1 \in 1 .. Len(ms) /\ x \in S /\ Len(ms) \in Nat
  OBVIOUS
<1>2. /\ SubSeq(got, 1, n) = SubSeq(ms, 1, n)
  BY DEF IsPrefix
<1>3. g \in Seq(S) /\ Len(g) = n + 1
  BY <1>1
<1>4. \A i \in 1 .. n : got[i] = ms[i]
  <2> SUFFICES ASSUME NEW i \in 1 .. n
               PROVE  got[i] = ms[i]
    OBVIOUS
  <2>1. SubSeq(got, 1, n)[i] = got[i]
    OBVIOUS
  <2>2. SubSeq(ms, 1, n)[i] = ms[i]
    OBVIOUS
  <2> QED BY <1>2, <2>1, <2>2
<1>5. \A i \in 1 .. n + 1 : g[i] = ms[i]
  BY <1>1, <1>4
<1>6. SubSeq(g, 1, n + 1) = SubSeq(ms, 1, n + 1)
  <2> HIDE DEF g, x
  <2>1. /\ SubSeq(g, 1, n + 1) \in Seq(S) /\ Len(SubSeq(g, 1, n + 1)) = n + 1
        /\ \A i \in 1 .. n + 1 : SubSeq(g, 1, n + 1)[i] = g[i]
    BY <1>1, <1>3
  <2>2. /\ SubSeq(ms, 1, n + 1) \in Seq(S) /\ Len(SubSeq(ms, 1, n + 1)) = n + 1
        /\ \A i \in 1 .. n + 1 : SubSeq(ms, 1, n + 1)[i] = ms[i]
    BY <1>1
  <2> QED BY <1>5, <2>1, <2>2, SeqEqual
<1>7. IsPrefix(g, ms)
  BY <1>1, <1>3, <1>6 DEF IsPrefix
<1> QED BY <1>3, <1>7

LEMMA PrefixGrows ==
  ASSUME NEW S, NEW got \in Seq(S), NEW ms \in Seq(S), IsPrefix(got, ms), NEW m \in S
  PROVE  IsPrefix(got, Append(ms, m))
<1> DEFINE n == Len(got)
<1>1. n \in Nat /\ n <= Len(ms) /\ Len(Append(ms, m)) = Len(ms) + 1
  BY DEF IsPrefix
<1>2. SubSeq(ms, 1, n) = SubSeq(Append(ms, m), 1, n)
  <2>1. /\ SubSeq(ms, 1, n) \in Seq(S) /\ Len(SubSeq(ms, 1, n)) = n
        /\ \A i \in 1 .. n : SubSeq(ms, 1, n)[i] = ms[i]
    BY <1>1
  <2>2. Append(ms, m) \in Seq(S) /\ \A i \in 1 .. n : Append(ms, m)[i] = ms[i]
    BY <1>1
  <2>3. /\ SubSeq(Append(ms, m), 1, n) \in Seq(S) /\ Len(SubSeq(Append(ms, m), 1, n)) = n
        /\ \A i \in 1 .. n : SubSeq(Append(ms, m), 1, n)[i] = Append(ms, m)[i]
    <3> DEFINE more == Append(ms, m)
    <3>1. more \in Seq(S) /\ Len(more) = Len(ms) + 1
      BY <1>1
    <3> HIDE DEF more
    <3>2. n \in 0 .. Len(more)
      BY <1>1, <3>1
    <3>3. Taking(more, n, S)
      BY <3>1, <3>2, TakingIs
    <3>4. /\ SubSeq(more, 1, n) \in Seq(S) /\ Len(SubSeq(more, 1, n)) = n
          /\ \A i \in 1 .. n : SubSeq(more, 1, n)[i] = more[i]
      BY <3>3 DEF Taking, First
    <3> QED BY <3>4 DEF more
  <2> DEFINE front == SubSeq(ms, 1, n)
             again == SubSeq(Append(ms, m), 1, n)
  <2>4. front \in Seq(S) /\ Len(front) = n /\ \A i \in 1 .. n : front[i] = ms[i]
    BY <2>1
  <2>5. again \in Seq(S) /\ Len(again) = n /\ \A i \in 1 .. n : again[i] = ms[i]
    BY <2>2, <2>3
  <2> HIDE DEF front, again
  <2>6. front = again
    BY <2>4, <2>5, SeqEqual
  <2> QED BY <2>6 DEF front, again
<1> QED BY <1>1, <1>2 DEF IsPrefix

-----------------------------------------------------------------------------
(* The fields of a type.                                                   *)

Widths == {1, 2, 4, NameLen}

\* No two fields of a type have one name, nor that of what is no field.
Sound(fields) ==
  /\ Len(fields) \in 0 .. 8 /\ DOMAIN fields = 1 .. Len(fields)
  /\ \A k \in 1 .. Len(fields) :
       /\ fields[k][2] \in Widths /\ fields[k][1] \notin {"type", "tail", "none"}
       /\ \A j \in 1 .. Len(fields) : fields[j][1] = fields[k][1] => j = k

LEMMA TypesAre ==
  Types = {"HELLO", "AUTH", "QUEUE", "PLACE", "PANIC_CUT", "READY", "LEAVE",
           "PING", "ROUND_CALL", "WELCOME", "QUEUED", "MATCH_FOUND", "PLACE_ACK",
           "PLACE_REJECT", "CUT_ACK", "CUT_REJECT", "COMBAT_START", "TICK",
           "MATCH_END", "PONG", "ROUND_BREAK", "ROUND_RESULT", "OPP_SHIP",
           "OPP_CUT", "EVENTS", "ERROR"}
BY DEF Types, TypeByte

LEMMA WrittenSound == \A type \in Types : Sound(Written[type])
<1>1. Sound(Written["HELLO"])
  BY DEF Written, Sound, Widths, U8, U16, U32, Text, NameLen
<1>2. Sound(Written["AUTH"])
  BY DEF Written, Sound, Widths, U8, U16, U32, Text, NameLen
<1>3. Sound(Written["QUEUE"])
  BY DEF Written, Sound, Widths, U8, U16, U32, Text, NameLen
<1>4. Sound(Written["READY"])
  BY DEF Written, Sound, Widths, U8, U16, U32, Text, NameLen
<1>5. Sound(Written["LEAVE"])
  BY DEF Written, Sound, Widths, U8, U16, U32, Text, NameLen
<1>6. Sound(Written["PLACE"])
  BY DEF Written, Sound, Widths, U8, U16, U32, Text, NameLen
<1>7. Sound(Written["PANIC_CUT"])
  BY DEF Written, Sound, Widths, U8, U16, U32, Text, NameLen
<1>8. Sound(Written["PING"])
  BY DEF Written, Sound, Widths, U8, U16, U32, Text, NameLen
<1>9. Sound(Written["PONG"])
  BY DEF Written, Sound, Widths, U8, U16, U32, Text, NameLen
<1>10. Sound(Written["WELCOME"])
  BY DEF Written, Sound, Widths, U8, U16, U32, Text, NameLen
<1>11. Sound(Written["QUEUED"])
  BY DEF Written, Sound, Widths, U8, U16, U32, Text, NameLen
<1>12. Sound(Written["MATCH_FOUND"])
  BY DEF Written, Sound, Widths, U8, U16, U32, Text, NameLen
<1>13. Sound(Written["PLACE_ACK"])
  BY DEF Written, Sound, Widths, U8, U16, U32, Text, NameLen
<1>14. Sound(Written["PLACE_REJECT"])
  BY DEF Written, Sound, Widths, U8, U16, U32, Text, NameLen
<1>15. Sound(Written["CUT_ACK"])
  BY DEF Written, Sound, Widths, U8, U16, U32, Text, NameLen
<1>16. Sound(Written["CUT_REJECT"])
  BY DEF Written, Sound, Widths, U8, U16, U32, Text, NameLen
<1>17. Sound(Written["COMBAT_START"])
  BY DEF Written, Sound, Widths, U8, U16, U32, Text, NameLen
<1>18. Sound(Written["TICK"])
  BY DEF Written, Sound, Widths, U8, U16, U32, Text, NameLen
<1>19. Sound(Written["MATCH_END"])
  BY DEF Written, Sound, Widths, U8, U16, U32, Text, NameLen
<1>20. Sound(Written["ROUND_BREAK"])
  BY DEF Written, Sound, Widths, U8, U16, U32, Text, NameLen
<1>21. Sound(Written["ROUND_CALL"])
  BY DEF Written, Sound, Widths, U8, U16, U32, Text, NameLen
<1>22. Sound(Written["ROUND_RESULT"])
  BY DEF Written, Sound, Widths, U8, U16, U32, Text, NameLen
<1>23. Sound(Written["OPP_SHIP"])
  BY DEF Written, Sound, Widths, U8, U16, U32, Text, NameLen
<1>24. Sound(Written["OPP_CUT"])
  BY DEF Written, Sound, Widths, U8, U16, U32, Text, NameLen
<1>25. Sound(Written["EVENTS"])
  BY DEF Written, Sound, Widths, U8, U16, U32, Text, NameLen
<1>26. Sound(Written["ERROR"])
  BY DEF Written, Sound, Widths, U8, U16, U32, Text, NameLen
<1> QED
  BY <1>1, <1>2, <1>3, <1>4, <1>5, <1>6, <1>7, <1>8, <1>9, <1>10, <1>11,
     <1>12, <1>13, <1>14, <1>15, <1>16, <1>17, <1>18, <1>19, <1>20,
     <1>21, <1>22, <1>23, <1>24, <1>25, <1>26, TypesAre

LEMMA ReadIsWritten == Read = Written
BY DEF Read, Written

\* The byte of a type is that of no other.
LEMMA TypeBytes ==
  \A s, t \in Types : TypeByte[s] \in Byte /\ (TypeByte[s] = TypeByte[t] => s = t)
BY TypesAre DEF TypeByte, Byte

-----------------------------------------------------------------------------
(* What is made of one field after the other.                              *)

\* What holds of 0, and of each number if it does of the one before, holds up to any.
LEMMA Induct ==
  ASSUME NEW n \in Nat, NEW S, 0 \in S, \A i \in 1 .. n : i - 1 \in S => i \in S
  PROVE  \A i \in 0 .. n : i \in S
<1> DEFINE Missed == {i \in 0 .. n : i \notin S}
<1>1. ASSUME Missed # {} PROVE FALSE
  <2>1. Missed \subseteq Nat
    OBVIOUS
  <2>2. PICK m \in Missed : \A k \in Missed : ~(<<k, m>> \in OpToRel(<, Nat))
    <3> HIDE DEF Missed
    <3> QED BY <1>1, <2>1, NatLessThanWellFounded, WFMin
  <2>3. m \in 1 .. n /\ m \notin S
    OBVIOUS
  <2>4. m - 1 \in 0 .. n /\ m - 1 < m /\ m - 1 \in Nat /\ m \in Nat
    BY <2>3
  <2>5. m - 1 \in Missed
    BY <2>3, <2>4
  <2> HIDE DEF Missed
  <2> QED BY <2>2, <2>4, <2>5 DEF OpToRel
<1> QED BY <1>1

\* g is what F makes of a, and goes on to make of it, in n steps.
Run(A, F, a, n, g) ==
  g \in [0 .. n -> A] /\ g[0] = a /\ \A i \in 1 .. n : g[i] = F[g[i - 1]][i]

\* Any number of steps can be made.
LEMMA Runs ==
  ASSUME NEW A, NEW N \in Nat, NEW F \in [A -> [1 .. N -> A]], NEW a \in A
  PROVE  \E g : Run(A, F, a, N, g)
<1> DEFINE S == {n \in 0 .. N : \E g : Run(A, F, a, n, g)}
<1>1. 0 \in S
  <2>1. Run(A, F, a, 0, [i \in 0 .. 0 |-> a])
    BY DEF Run
  <2> QED BY <2>1
<1>2. ASSUME NEW n \in 1 .. N, n - 1 \in S
      PROVE  n \in S
  <2>1. PICK g : Run(A, F, a, n - 1, g)
    BY <1>2
  <2> DEFINE h == [i \in 0 .. n |-> IF i = n THEN F[g[n - 1]][n] ELSE g[i]]
  <2>2. n \in Nat /\ n - 1 \in 0 .. n - 1 /\ g[n - 1] \in A /\ n # 0
    BY <2>1 DEF Run
  <2>3. F[g[n - 1]][n] \in A
    BY <2>2
  <2>4. h \in [0 .. n -> A] /\ h[0] = a
    BY <2>1, <2>2, <2>3 DEF Run
  <2>5. ASSUME NEW i \in 1 .. n PROVE h[i] = F[h[i - 1]][i]
    <3>1. i - 1 \in 0 .. n /\ i - 1 # n /\ i \in 0 .. n /\ h[i - 1] = g[i - 1]
      BY <2>2
    <3>2. CASE i = n
      BY <3>1, <3>2
    <3>3. CASE i # n
      <4>1. i \in 1 .. n - 1
        BY <2>2, <3>3
      <4> QED BY <2>1, <3>1, <3>3, <4>1 DEF Run
    <3> QED BY <3>2, <3>3
  <2> HIDE DEF h
  <2>6. Run(A, F, a, n, h)
    BY <2>4, <2>5 DEF Run
  <2> QED BY <2>2, <2>6
<1>3. N \in S
  <2> HIDE DEF S
  <2>1. \A i \in 0 .. N : i \in S
    BY <1>1, <1>2, Induct
  <2> QED BY <2>1
<1> QED BY <1>3

\* Where the fields end, one after the other.
EndsOK(fields, end) ==
  /\ end \in [0 .. Len(fields) -> Nat] /\ end[0] = 0
  /\ \A k \in 1 .. Len(fields) : end[k] = end[k - 1] + fields[k][2]

LEMMA EndsIs ==
  ASSUME NEW fields, Sound(fields)
  PROVE  EndsOK(fields, Ends(fields))
<1> DEFINE N == Len(fields)
           F == [x \in Nat |-> [k \in 1 .. N |-> x + fields[k][2]]]
           Along(f) == [k \in 0 .. N |-> IF k = 0 THEN 0 ELSE f[k - 1] + fields[k][2]]
           f == CHOOSE f : f = Along(f)
<1>1. N \in Nat /\ \A k \in 1 .. N : fields[k][2] \in Nat
  BY DEF Sound, Widths, NameLen
<1>2. F \in [Nat -> [1 .. N -> Nat]]
  BY <1>1
<1>3. PICK g : Run(Nat, F, 0, N, g)
  <2> HIDE DEF F, N
  <2> QED BY <1>1, <1>2, Runs
<1>4. \A k \in 1 .. N : k - 1 \in 0 .. N /\ k \in 0 .. N /\ k # 0
  BY <1>1
<1>5. g \in [0 .. N -> Nat] /\ g[0] = 0 /\ \A k \in 1 .. N : g[k] = g[k - 1] + fields[k][2]
  BY <1>3, <1>4 DEF Run
<1>6. g = Along(g)
  <2>1. g = [k \in 0 .. N |-> g[k]]
    BY <1>5
  <2>2. \A k \in 0 .. N : g[k] = IF k = 0 THEN 0 ELSE g[k - 1] + fields[k][2]
    BY <1>1, <1>5
  <2> QED BY <2>1, <2>2
<1>7. f = Along(f)
  <2> HIDE DEF Along
  <2> QED BY <1>6
<1>8. Ends(fields) = f
  BY DEF Ends
<1> HIDE DEF f
<1>9. f[0] = 0 /\ \A k \in 1 .. N : f[k] = f[k - 1] + fields[k][2]
  <2>1. \A k \in 0 .. N : f[k] = IF k = 0 THEN 0 ELSE f[k - 1] + fields[k][2]
    BY <1>7
  <2>2. 0 \in 0 .. N
    BY <1>1
  <2> QED BY <1>4, <2>1, <2>2
<1>10. f = [k \in 0 .. N |-> f[k]]
  <2>1. DOMAIN f = 0 .. N
    BY <1>7
  <2> QED BY <1>7
<1> DEFINE S == {k \in 0 .. N : f[k] \in Nat}
<1>11. \A k \in 0 .. N : k \in S
  <2>1. 0 \in S
    BY <1>1, <1>9
  <2>2. ASSUME NEW k \in 1 .. N, k - 1 \in S PROVE k \in S
    BY <1>1, <1>4, <1>9, <2>2
  <2> HIDE DEF S, N
  <2> QED BY <1>1, <2>1, <2>2, Induct
<1>12. f \in [0 .. N -> Nat]
  BY <1>10, <1>11
<1> QED BY <1>8, <1>9, <1>12 DEF EndsOK

-----------------------------------------------------------------------------
(* One field.                                                              *)

\* A field takes its width, and is read as it was written.
PutOK(field, v) ==
  /\ Put(field, v) \in Seq(Byte) /\ Len(Put(field, v)) = field[2]
  /\ Get(field, Put(field, v)) = v

LEMMA Halves ==
  \A v \in Short : /\ v % 256 \in Byte /\ v \div 256 \in Byte /\ (v \div 256) % 256 = v \div 256
                   /\ (v % 256) + 256 * (v \div 256) = v
<1> SUFFICES ASSUME NEW v \in Short
             PROVE  /\ v % 256 \in Byte /\ v \div 256 \in Byte /\ (v \div 256) % 256 = v \div 256
                    /\ (v % 256) + 256 * (v \div 256) = v
  OBVIOUS
<1>1. v \in Int /\ 0 <= v /\ v < 65536
  BY DEF Short
<1>2. v \div 256 \in Int /\ 0 <= v \div 256 /\ v \div 256 < 256
  BY <1>1
<1>3. v % 256 \in Int /\ 0 <= v % 256 /\ v % 256 < 256 /\ v = 256 * (v \div 256) + (v % 256)
  BY <1>1
<1>4. (v \div 256) % 256 = v \div 256
  BY <1>2
<1>5. \A b \in Int : 0 <= b /\ b < 256 => b \in Byte
  BY DEF Byte
<1> QED BY <1>2, <1>3, <1>4, <1>5

LEMMA LittleIs ==
  ASSUME NEW v \in Short
  PROVE  /\ Little(2, v) \in Seq(Byte) /\ Len(Little(2, v)) = 2
         /\ Number(Little(2, v)) = v
<1> DEFINE low == v % 256
           high == v \div 256
<1>1. low \in Byte /\ high \in Byte /\ low + 256 * high = v
  BY Halves
<1>2. Little(2, v) = <<low, high>>
  BY Halves DEF Little
<1> HIDE DEF low, high
<1>3. <<low, high>> \in Seq(Byte) /\ Len(<<low, high>>) = 2
  BY <1>1
<1>4. Number(<<low, high>>) = low + 256 * high
  BY <1>1 DEF Number, Byte
<1> QED BY <1>1, <1>2, <1>3, <1>4

LEMMA PutByte ==
  ASSUME NEW field, field[2] = 1, NEW v \in Byte
  PROVE  PutOK(field, v)
<1>1. v % 256 = v
  BY DEF Byte
<1>2. Put(field, v) = <<v>>
  BY <1>1 DEF Put, Little, NameLen
<1>3. Get(field, <<v>>) = v
  BY DEF Get, Number, NameLen
<1> QED BY <1>2, <1>3 DEF PutOK

LEMMA PutShort ==
  ASSUME NEW field, field[2] = 2, NEW v \in Short
  PROVE  PutOK(field, v)
<1>1. Put(field, v) = Little(2, v)
  BY DEF Put, NameLen
<1>2. Get(field, Little(2, v)) = Number(Little(2, v))
  BY DEF Get, NameLen
<1> QED BY <1>1, <1>2, LittleIs DEF PutOK

LEMMA PutLong ==
  ASSUME NEW field, field[2] = 4, NEW low \in Short, NEW high \in Short
  PROVE  PutOK(field, <<low, high>>)
<1> DEFINE v == <<low, high>>
           a == Little(2, low)
           b == Little(2, high)
<1>1. v[1] = low /\ v[2] = high
  OBVIOUS
<1>2. a \in Seq(Byte) /\ Len(a) = 2 /\ Number(a) = low
  BY LittleIs
<1>3. b \in Seq(Byte) /\ Len(b) = 2 /\ Number(b) = high
  BY LittleIs
<1>4. Put(field, v) = a \o b
  BY DEF Put, NameLen
<1> HIDE DEF a, b
<1> DEFINE c == a \o b
<1>5. c \in Seq(Byte) /\ Len(c) = 4
  <2>1. a \in Seq(Byte) /\ b \in Seq(Byte)
    BY <1>2, <1>3
  <2>2. c \in Seq(Byte) /\ Len(c) = Len(a) + Len(b)
    BY <2>1
  <2> HIDE DEF c
  <2> QED BY <1>2, <1>3, <2>2
<1>6. SubSeq(c, 1, 2) = a /\ SubSeq(c, 3, 4) = b
  <2>1. First(c, 2) = a /\ Rest(c, 2) = b
    BY <1>2, <1>3, Apart
  <2> HIDE DEF c
  <2> QED BY <1>5, <2>1 DEF First, Rest
<1> HIDE DEF c
<1>7. Get(field, c) = <<Number(SubSeq(c, 1, 2)), Number(SubSeq(c, 3, 4))>>
  BY DEF Get, NameLen
<1>8. Get(field, c) = v
  BY <1>1, <1>2, <1>3, <1>6, <1>7
<1>9. Put(field, v) = c
  BY <1>4 DEF c
<1> QED BY <1>5, <1>8, <1>9 DEF PutOK

LEMMA PutText ==
  ASSUME NEW field, field[2] = NameLen, NEW v \in Seq(Byte \ {0}), Len(v) <= NameLen
  PROVE  PutOK(field, v)
<1> DEFINE p == Padded(v)
           n == Len(v)
           N == NameLen
           Stops(i) == /\ \A j \in 1 .. i : p[j] # 0
                       /\ i = N \/ p[i + 1] = 0
<1>1. n \in Nat /\ N \in Nat /\ n <= N /\ \A i \in 1 .. n : v[i] \in Byte /\ v[i] # 0
  <2>1. \A i \in 1 .. n : v[i] \in Byte \ {0}
    OBVIOUS
  <2> QED BY <2>1 DEF NameLen
<1>2. p = [i \in 1 .. N |-> IF i <= n THEN v[i] ELSE 0]
  BY DEF Padded
<1> HIDE DEF p, n, N
<1>3. \A i \in 1 .. N : p[i] = IF i <= n THEN v[i] ELSE 0
  BY <1>2
<1>4. p \in Seq(Byte) /\ Len(p) = N
  <2>1. \A i \in 1 .. N : (IF i <= n THEN v[i] ELSE 0) \in Byte
    BY <1>1 DEF Byte
  <2>2. p \in [1 .. N -> Byte]
    BY <1>2, <2>1
  <2> QED BY <1>1, <2>2
<1>5. n \in 0 .. N /\ Stops(n)
  <2>1. \A j \in 1 .. n : p[j] # 0
    BY <1>1, <1>3
  <2>2. n = N \/ p[n + 1] = 0
    BY <1>1, <1>3
  <2> QED BY <1>1, <2>1, <2>2
<1>6. \A i \in 0 .. N : Stops(i) => i = n
  <2> SUFFICES ASSUME NEW i \in 0 .. N, Stops(i)
               PROVE  i = n
    OBVIOUS
  <2>1. CASE i < n
    <3>1. i + 1 \in 1 .. n /\ i # N /\ i + 1 \in 1 .. N
      BY <1>1, <2>1
    <3> QED BY <1>1, <1>3, <3>1
  <2>2. CASE i > n
    <3>1. n + 1 \in 1 .. i /\ n + 1 \in 1 .. N
      BY <1>1, <2>2
    <3> QED BY <1>1, <1>3, <3>1
  <2> QED BY <1>1, <2>1, <2>2
<1>7. (CHOOSE i \in 0 .. N : Stops(i)) = n
  <2> HIDE DEF Stops
  <2> QED BY <1>5, <1>6
<1>8. SubSeq(p, 1, n) = v
  <2>1. Taking(p, n, Byte)
    BY <1>1, <1>4, TakingIs
  <2>2. /\ SubSeq(p, 1, n) \in Seq(Byte) /\ Len(SubSeq(p, 1, n)) = n
        /\ \A i \in 1 .. n : SubSeq(p, 1, n)[i] = p[i]
    BY <2>1 DEF Taking, First
  <2>3. \A i \in 1 .. n : SubSeq(p, 1, n)[i] = v[i]
    BY <1>1, <1>3, <2>2
  <2>4. v \in Seq(Byte) /\ Len(v) = n
    <3>1. \A i \in 1 .. Len(v) : v[i] \in Byte
      BY <1>1 DEF n
    <3> QED BY <3>1 DEF n
  <2> QED BY <2>2, <2>3, <2>4, SeqEqual
<1>9. NameIn(p) = SubSeq(p, 1, n)
  BY <1>7 DEF NameIn, N
<1>10. Get(field, p) = v
  BY <1>8, <1>9 DEF Get, NameLen
<1>11. Put(field, v) = p
  BY DEF Put, p, NameLen
<1>12. Len(p) = field[2]
  BY <1>4 DEF N
<1> QED BY <1>4, <1>10, <1>11, <1>12 DEF PutOK

LEMMA PutIs ==
  ASSUME NEW field, field[2] \in Widths, NEW v \in ValuesOf(field)
  PROVE  PutOK(field, v)
<1>1. CASE field[2] = 1
  BY <1>1, PutByte DEF ValuesOf, NameLen
<1>2. CASE field[2] = 2
  BY <1>2, PutShort DEF ValuesOf, NameLen
<1>3. CASE field[2] = 4
  <2>1. v \in Short \X Short
    BY <1>3 DEF ValuesOf, NameLen
  <2>2. PICK low \in Short, high \in Short : v = <<low, high>>
    BY <2>1
  <2> QED BY <1>3, <2>2, PutLong
<1>4. CASE field[2] = NameLen
  BY <1>4, PutText DEF ValuesOf, NameLen
<1> QED BY <1>1, <1>2, <1>3, <1>4 DEF Widths

-----------------------------------------------------------------------------
(* All fields of a message.                                                *)

\* What is written of field k.
Part(fields, m, k) == Put(fields[k], m[fields[k][1]])

AllPut(fields, m) == \A k \in 1 .. Len(fields) : PutOK(fields[k], m[fields[k][1]])

LEMMA PartIs ==
  ASSUME NEW fields, NEW m, AllPut(fields, m), NEW k \in 1 .. Len(fields)
  PROVE  /\ Part(fields, m, k) \in Seq(Byte) /\ Len(Part(fields, m, k)) = fields[k][2]
         /\ Get(fields[k], Part(fields, m, k)) = m[fields[k][1]]
BY DEF Part, AllPut, PutOK

LaidOK(fields, m, laid) ==
  /\ laid \in [0 .. Len(fields) -> Seq(Byte)] /\ laid[0] = <<>>
  /\ \A k \in 1 .. Len(fields) : laid[k] = laid[k - 1] \o Part(fields, m, k)

LEMMA LaidIs ==
  ASSUME NEW fields, Sound(fields), NEW m, AllPut(fields, m)
  PROVE  LaidOK(fields, m, Laid(fields, m))
<1> DEFINE N == Len(fields)
           B == Seq(Byte)
           F == [x \in B |-> [k \in 1 .. N |-> x \o Part(fields, m, k)]]
           Along(f) == [k \in 0 .. N |-> IF k = 0 THEN <<>> ELSE f[k - 1] \o Part(fields, m, k)]
           f == CHOOSE f : f = Along(f)
<1>1. N \in Nat /\ \A k \in 1 .. N : Part(fields, m, k) \in B
  <2>1. N \in Nat
    BY DEF Sound
  <2> QED BY <2>1, PartIs
<1>2. F \in [B -> [1 .. N -> B]] /\ <<>> \in B
  <2>1. \A x, y \in B : x \o y \in B
    OBVIOUS
  <2>2. \A x \in B : \A k \in 1 .. N : x \o Part(fields, m, k) \in B
    BY <1>1, <2>1
  <2>3. <<>> \in B
    OBVIOUS
  <2> HIDE DEF B, N
  <2> QED BY <2>2, <2>3
<1>3. PICK g : Run(B, F, <<>>, N, g)
  <2> HIDE DEF F, N, B
  <2> QED BY <1>1, <1>2, Runs
<1>4. \A k \in 1 .. N : k - 1 \in 0 .. N /\ k \in 0 .. N /\ k # 0
  BY <1>1
<1> HIDE DEF B
<1>5. /\ g \in [0 .. N -> B] /\ g[0] = <<>>
      /\ \A k \in 1 .. N : g[k] = g[k - 1] \o Part(fields, m, k)
  BY <1>3, <1>4 DEF Run
<1>6. g = Along(g)
  <2>1. g = [k \in 0 .. N |-> g[k]]
    BY <1>5
  <2>2. \A k \in 0 .. N : g[k] = IF k = 0 THEN <<>> ELSE g[k - 1] \o Part(fields, m, k)
    BY <1>1, <1>5
  <2> QED BY <2>1, <2>2
<1>7. f = Along(f)
  <2> HIDE DEF Along
  <2> QED BY <1>6
<1>8. Laid(fields, m) = f
  BY DEF Laid, Part
<1> HIDE DEF f
<1>9. f[0] = <<>> /\ \A k \in 1 .. N : f[k] = f[k - 1] \o Part(fields, m, k)
  <2>1. \A k \in 0 .. N : f[k] = IF k = 0 THEN <<>> ELSE f[k - 1] \o Part(fields, m, k)
    BY <1>7
  <2>2. 0 \in 0 .. N
    BY <1>1
  <2> QED BY <1>4, <2>1, <2>2
<1>10. f = [k \in 0 .. N |-> f[k]]
  <2>1. DOMAIN f = 0 .. N
    BY <1>7
  <2> QED BY <1>7
<1> DEFINE S == {k \in 0 .. N : f[k] \in B}
<1>11. \A k \in 0 .. N : k \in S
  <2>1. 0 \in S
    BY <1>1, <1>2, <1>9
  <2>2. ASSUME NEW k \in 1 .. N, k - 1 \in S PROVE k \in S
    <3>1. f[k - 1] \in B /\ f[k] = f[k - 1] \o Part(fields, m, k)
      BY <1>9, <2>2
    <3>2. \A x, y \in B : x \o y \in B
      BY DEF B
    <3>3. f[k] \in B
      BY <1>1, <3>1, <3>2
    <3> QED BY <1>4, <3>3
  <2> HIDE DEF S, N
  <2> QED BY <1>1, <2>1, <2>2, Induct
<1>12. f \in [0 .. N -> B]
  BY <1>10, <1>11
<1> QED BY <1>8, <1>9, <1>12 DEF LaidOK, B

\* What is written once field n is: each field up to it in its place.
Placed(fields, m, n) ==
  /\ Len(Laid(fields, m)[n]) = Ends(fields)[n]
  /\ \A k \in 1 .. n :
       /\ Ends(fields)[k] <= Ends(fields)[n]
       /\ \A i \in 1 .. fields[k][2] :
            Laid(fields, m)[n][Ends(fields)[k - 1] + i] = Part(fields, m, k)[i]

LEMMA PlacedIs ==
  ASSUME NEW fields, Sound(fields), NEW m, AllPut(fields, m)
  PROVE  \A n \in 0 .. Len(fields) : Placed(fields, m, n)
<1> DEFINE N == Len(fields)
           l == Laid(fields, m)
           e == Ends(fields)
           S == {n \in 0 .. N : Placed(fields, m, n)}
<1>1. N \in Nat
  BY DEF Sound
<1>2. /\ l \in [0 .. N -> Seq(Byte)] /\ l[0] = <<>>
      /\ \A k \in 1 .. N : l[k] = l[k - 1] \o Part(fields, m, k)
  BY LaidIs DEF LaidOK
<1>3. e \in [0 .. N -> Nat] /\ e[0] = 0 /\ \A k \in 1 .. N : e[k] = e[k - 1] + fields[k][2]
  BY EndsIs DEF EndsOK
<1> HIDE DEF l, e, N
<1>4. 0 \in S
  <2>1. Len(l[0]) = e[0]
    BY <1>2, <1>3
  <2>2. Placed(fields, m, 0)
    BY <2>1 DEF Placed, l, e
  <2> QED BY <1>1, <2>2
<1>5. ASSUME NEW n \in 1 .. N, n - 1 \in S
      PROVE  n \in S
  <2> DEFINE p == Part(fields, m, n)
             a == l[n - 1]
             w == fields[n][2]
  <2>1. n - 1 \in 0 .. N /\ n \in 0 .. N
    BY <1>1
  <2>2. /\ Len(a) = e[n - 1]
        /\ \A k \in 1 .. n - 1 :
             /\ e[k] <= e[n - 1]
             /\ \A i \in 1 .. fields[k][2] : a[e[k - 1] + i] = Part(fields, m, k)[i]
    BY <1>5 DEF Placed, l, e
  <2>3. p \in Seq(Byte) /\ Len(p) = w /\ w \in Nat
    <3>1. p \in Seq(Byte) /\ Len(p) = w
      BY PartIs DEF N
    <3> QED BY <3>1
  <2>4. a \in Seq(Byte) /\ l[n] = a \o p /\ e[n] = e[n - 1] + w /\ e[n - 1] \in Nat /\ e[n] \in Nat
    BY <1>2, <1>3, <2>1
  <2> HIDE DEF p, a, w
  <2>5. Joined(a, p, Byte)
    BY <2>3, <2>4, JoinedIs
  <2>6. /\ Len(l[n]) = Len(a) + Len(p)
        /\ \A i \in 1 .. Len(a) : l[n][i] = a[i]
        /\ \A i \in 1 .. Len(p) : l[n][Len(a) + i] = p[i]
    BY <2>4, <2>5 DEF Joined
  <2>7. Len(l[n]) = e[n]
    BY <2>2, <2>3, <2>4, <2>6
  <2>8. ASSUME NEW k \in 1 .. n
        PROVE  /\ e[k] <= e[n]
               /\ \A i \in 1 .. fields[k][2] : l[n][e[k - 1] + i] = Part(fields, m, k)[i]
    <3>1. CASE k = n
      <4>1. \A i \in 1 .. w : l[n][e[n - 1] + i] = p[i]
        BY <2>2, <2>3, <2>6
      <4>2. \A i \in 1 .. fields[k][2] : l[n][e[k - 1] + i] = Part(fields, m, k)[i]
        BY <3>1, <4>1 DEF w, p
      <4>3. e[k] <= e[n]
        BY <2>4, <3>1
      <4> QED BY <4>2, <4>3
    <3>2. CASE k # n
      <4>1. k \in 1 .. n - 1 /\ k \in 1 .. N /\ k - 1 \in 0 .. N /\ k \in 0 .. N
        BY <1>1, <3>2
      <4>2. e[k] <= e[n - 1] /\ e[k] \in Nat /\ e[k - 1] \in Nat /\ e[k] = e[k - 1] + fields[k][2]
        BY <1>3, <2>2, <4>1
      <4>3. Len(Part(fields, m, k)) = fields[k][2] /\ Part(fields, m, k) \in Seq(Byte)
        BY <4>1, PartIs DEF N
      <4>4. fields[k][2] \in Nat
        BY <4>3
      <4>5. ASSUME NEW i \in 1 .. fields[k][2]
            PROVE  l[n][e[k - 1] + i] = Part(fields, m, k)[i]
        <5>1. e[k - 1] + i \in 1 .. Len(a)
          <6>1. \A b, c, d, x \in Nat : \A j \in 1 .. d :
                  x = b + d /\ x <= c => b + j \in 1 .. c
            OBVIOUS
          <6> QED BY <2>2, <2>4, <4>2, <4>4, <6>1
        <5>2. a[e[k - 1] + i] = Part(fields, m, k)[i]
          BY <2>2, <4>1
        <5> QED BY <2>6, <5>1, <5>2
      <4>6. e[k] <= e[n]
        <5>1. \A b, c, d, x \in Nat : x <= b /\ c = b + d => x <= c
          OBVIOUS
        <5> QED BY <2>3, <2>4, <4>2, <5>1
      <4> QED BY <4>5, <4>6
    <3> QED BY <3>1, <3>2
  <2>9. Placed(fields, m, n)
    BY <2>7, <2>8 DEF Placed, l, e
  <2> QED BY <2>1, <2>9
<1>6. \A n \in 0 .. N : n \in S
  <2> HIDE DEF S
  <2> QED BY <1>1, <1>4, <1>5, Induct
<1> QED BY <1>6 DEF N

\* Each field is read where it was written, whatever follows the fields.
LaidOut(fields, m, tail, all) ==
  /\ all \in Seq(Byte) /\ Len(all) = Ends(fields)[Len(fields)] + Len(tail)
  /\ SubSeq(all, Ends(fields)[Len(fields)] + 1, Len(all)) = tail
  /\ \A k \in 1 .. Len(fields) :
       SubSeq(all, Ends(fields)[k - 1] + 1, Ends(fields)[k]) = Part(fields, m, k)

LEMMA ReadAt ==
  ASSUME NEW fields, Sound(fields), NEW m, AllPut(fields, m), NEW tail \in Seq(Byte),
         NEW all, all = Laid(fields, m)[Len(fields)] \o tail
  PROVE  LaidOut(fields, m, tail, all)
<1> DEFINE N == Len(fields)
           l == Laid(fields, m)
           e == Ends(fields)
           a == l[N]
<1>1. N \in Nat /\ N \in 0 .. N
  BY DEF Sound
<1>2. a \in Seq(Byte)
  BY <1>1, LaidIs DEF LaidOK
<1>3. e \in [0 .. N -> Nat] /\ e[0] = 0 /\ \A k \in 1 .. N : e[k] = e[k - 1] + fields[k][2]
  BY EndsIs DEF EndsOK
<1>4. Placed(fields, m, N)
  BY <1>1, PlacedIs
<1>5. /\ Len(a) = e[N]
      /\ \A k \in 1 .. N :
           /\ e[k] <= e[N]
           /\ \A i \in 1 .. fields[k][2] : a[e[k - 1] + i] = Part(fields, m, k)[i]
  BY <1>4 DEF Placed
<1>6. all = a \o tail
  OBVIOUS
<1> HIDE DEF l, e, N, a
<1>7. Joined(a, tail, Byte)
  BY <1>2, JoinedIs
<1>8. all \in Seq(Byte) /\ Len(all) = e[N] + Len(tail)
  BY <1>5, <1>6, <1>7 DEF Joined
<1>9. SubSeq(all, e[N] + 1, Len(all)) = tail
  <2>1. Rest(all, Len(a)) = tail
    BY <1>2, <1>6, Apart
  <2> QED BY <1>5, <2>1 DEF Rest
<1>10. ASSUME NEW k \in 1 .. N
       PROVE  SubSeq(all, e[k - 1] + 1, e[k]) = Part(fields, m, k)
  <2> DEFINE p == Part(fields, m, k)
             b == e[k - 1]
             c == e[k]
             s == SubSeq(all, b + 1, c)
  <2>1. p \in Seq(Byte) /\ Len(p) = fields[k][2]
    BY PartIs DEF N
  <2>2. k - 1 \in 0 .. N /\ k \in 0 .. N
    BY <1>1
  <2>3. b \in Nat /\ c \in Nat /\ c = b + Len(p) /\ Len(p) \in Nat /\ c <= Len(all) /\ c <= Len(a)
    <3>1. Len(tail) \in Nat
      OBVIOUS
    <3>2. e[N] \in Nat
      BY <1>1, <1>3
    <3>3. b \in Nat /\ c \in Nat /\ Len(p) \in Nat
      BY <1>3, <2>1, <2>2
    <3>4. c = b + Len(p) /\ c <= e[N]
      BY <1>3, <1>5, <2>1
    <3> HIDE DEF p, b, c
    <3> QED BY <1>5, <1>8, <3>1, <3>2, <3>3, <3>4
  <2>4. \A i \in 1 .. Len(p) : a[b + i] = p[i]
    BY <1>5, <2>1
  <2>5. \A i \in 1 .. Len(a) : all[i] = a[i]
    BY <1>6, <1>7 DEF Joined
  <2> HIDE DEF p, b, c
  <2>6. \A i \in 1 .. Len(p) : all[b + i] = p[i]
    <3> SUFFICES ASSUME NEW i \in 1 .. Len(p)
                 PROVE  all[b + i] = p[i]
      OBVIOUS
    <3>1. b + i \in 1 .. Len(a)
      BY <1>2, <2>3
    <3> QED BY <2>4, <2>5, <3>1
  <2>7. s \in Seq(Byte) /\ Len(s) = Len(p) /\ \A i \in 1 .. Len(p) : s[i] = all[b + i]
    <3>1. b <= c /\ c - b = Len(p)
      BY <2>3
    <3>2. /\ s \in Seq(Byte) /\ Len(s) = c - b
          /\ \A i \in 1 .. c - b : s[i] = all[b + i]
      <4>1. Sliced(all, b, c, Byte)
        BY <1>8, <2>3, <3>1, Slice
      <4> QED BY <4>1 DEF Sliced
    <3> HIDE DEF s
    <3> QED BY <3>1, <3>2
  <2> HIDE DEF s
  <2>8. s = p
    BY <2>1, <2>6, <2>7, SeqEqual
  <2> QED BY <2>8 DEF s, b, c, p
<1> QED BY <1>8, <1>9, <1>10 DEF LaidOut, N, e

-----------------------------------------------------------------------------
(* The sizes.                                                              *)

\* Where field k ends, and how wide it is.
End(fields, k)   == Ends(fields)[k]
Width(fields, k) == fields[k][2]

Follows(fields, j, k) ==
  /\ End(fields, k) = End(fields, j) + Width(fields, k)
  /\ End(fields, j) \in Nat /\ Width(fields, k) \in Nat

LEMMA NextEnd ==
  ASSUME NEW fields, Sound(fields), NEW j \in Nat, NEW k \in Nat, k = j + 1, k <= Len(fields)
  PROVE  Follows(fields, j, k)
<1> DEFINE n == Len(fields)
           e == Ends(fields)
<1>1. n \in Nat /\ \A i \in 1 .. n : Width(fields, i) \in Nat
  BY DEF Sound, Width, Widths, NameLen
<1>2. e \in [0 .. n -> Nat] /\ \A i \in 1 .. n : e[i] = e[i - 1] + Width(fields, i)
  BY EndsIs DEF EndsOK, Width
<1> HIDE DEF e
<1>3. j \in 0 .. n /\ k \in 1 .. n /\ k - 1 = j
  BY <1>1
<1>4. e[k] = e[j] + Width(fields, k) /\ e[j] \in Nat /\ Width(fields, k) \in Nat
  BY <1>1, <1>2, <1>3
<1> QED BY <1>4 DEF e, End, Follows

\* The ends of as many fields as a type may have.
FirstEnds(fields) ==
  LET n == Len(fields)
  IN /\ End(fields, 0) = 0
     /\ n >= 1 => Follows(fields, 0, 1)
     /\ n >= 2 => Follows(fields, 1, 2)
     /\ n >= 3 => Follows(fields, 2, 3)
     /\ n >= 4 => Follows(fields, 3, 4)
     /\ n >= 5 => Follows(fields, 4, 5)
     /\ n >= 6 => Follows(fields, 5, 6)
     /\ n >= 7 => Follows(fields, 6, 7)

LEMMA FirstEndsAre ==
  ASSUME NEW fields, Sound(fields)
  PROVE  FirstEnds(fields)
<1> DEFINE n == Len(fields)
           F(j, k) == Follows(fields, j, k)
<1>1. n \in Nat
  BY DEF Sound
<1>2. \A j \in Nat : n >= j + 1 => F(j, j + 1)
  <2> SUFFICES ASSUME NEW j \in Nat, n >= j + 1
               PROVE  F(j, j + 1)
    OBVIOUS
  <2>1. j + 1 \in Nat /\ j + 1 <= Len(fields)
    BY <1>1
  <2> QED BY <2>1, NextEnd
<1> HIDE DEF n, F
<1>3. n >= 1 => F(0, 1)
  BY <1>2
<1>4. n >= 2 => F(1, 2)
  BY <1>2
<1>5. n >= 3 => F(2, 3)
  BY <1>2
<1>6. n >= 4 => F(3, 4)
  BY <1>2
<1>7. n >= 5 => F(4, 5)
  BY <1>2
<1>8. n >= 6 => F(5, 6)
  BY <1>2
<1>9. n >= 7 => F(6, 7)
  BY <1>2
<1>10. End(fields, 0) = 0
  BY EndsIs DEF EndsOK, End
<1> QED BY <1>3, <1>4, <1>5, <1>6, <1>7, <1>8, <1>9, <1>10 DEF FirstEnds, n, F

LEMMA End1 ==
  ASSUME NEW fields, Sound(fields), Len(fields) = 1
  PROVE  End(fields, 1) = Width(fields, 1)
<1>1. FirstEnds(fields)
  BY FirstEndsAre
<1> QED BY <1>1 DEF FirstEnds, Follows

LEMMA End2 ==
  ASSUME NEW fields, Sound(fields), Len(fields) = 2
  PROVE  End(fields, 2) = Width(fields, 1) + Width(fields, 2)
<1>1. FirstEnds(fields)
  BY FirstEndsAre
<1> QED BY <1>1 DEF FirstEnds, Follows

LEMMA End4 ==
  ASSUME NEW fields, Sound(fields), Len(fields) = 4
  PROVE  End(fields, 4) = Width(fields, 1) + Width(fields, 2) + Width(fields, 3) + Width(fields, 4)
<1>1. FirstEnds(fields)
  BY FirstEndsAre
<1> QED BY <1>1 DEF FirstEnds, Follows

LEMMA End5 ==
  ASSUME NEW fields, Sound(fields), Len(fields) = 5
  PROVE  End(fields, 5) = Width(fields, 1) + Width(fields, 2) + Width(fields, 3) + Width(fields, 4)
                         + Width(fields, 5)
<1>1. FirstEnds(fields)
  BY FirstEndsAre
<1> QED BY <1>1 DEF FirstEnds, Follows

LEMMA End6 ==
  ASSUME NEW fields, Sound(fields), Len(fields) = 6
  PROVE  End(fields, 6) = Width(fields, 1) + Width(fields, 2) + Width(fields, 3) + Width(fields, 4)
                         + Width(fields, 5) + Width(fields, 6)
<1>1. FirstEnds(fields)
  BY FirstEndsAre
<1> QED BY <1>1 DEF FirstEnds, Follows

LEMMA End7 ==
  ASSUME NEW fields, Sound(fields), Len(fields) = 7
  PROVE  End(fields, 7) = Width(fields, 1) + Width(fields, 2) + Width(fields, 3) + Width(fields, 4)
                         + Width(fields, 5) + Width(fields, 6) + Width(fields, 7)
<1>1. FirstEnds(fields)
  BY FirstEndsAre
<1> QED BY <1>1 DEF FirstEnds, Follows

\* Where the fields of a type end.
LastEnd(type) == End(Written[type], Len(Written[type]))

LEMMA LastEnds ==
  /\ \A t \in {"QUEUE", "READY", "LEAVE"} : LastEnd(t) = 0
  /\ \A t \in {"PANIC_CUT", "PLACE_ACK", "PLACE_REJECT", "CUT_ACK", "CUT_REJECT",
             "ROUND_CALL", "OPP_SHIP", "OPP_CUT", "ERROR"} : LastEnd(t) = 1
  /\ \A t \in {"AUTH", "QUEUED"} : LastEnd(t) = 2
  /\ \A t \in {"PING", "PONG"} : LastEnd(t) = 4
  /\ LastEnd("HELLO") = 19
  /\ LastEnd("PLACE") = 4
  /\ LastEnd("WELCOME") = 5
  /\ LastEnd("MATCH_FOUND") = 30
  /\ LastEnd("COMBAT_START") = 10
  /\ LastEnd("TICK") = 9
  /\ LastEnd("MATCH_END") = 7
  /\ LastEnd("ROUND_BREAK") = 6
  /\ LastEnd("ROUND_RESULT") = 6
  /\ LastEnd("EVENTS") = 7
<1>1. ASSUME NEW t \in {"QUEUE", "READY", "LEAVE"}
      PROVE  LastEnd(t) = 0
  <2>1. Sound(Written[t])
    BY WrittenSound, TypesAre
  <2>2. Len(Written[t]) = 0
    BY DEF Written
  <2>3. FirstEnds(Written[t])
    BY <2>1, FirstEndsAre
  <2> QED BY <2>2, <2>3 DEF LastEnd, FirstEnds
<1>2. ASSUME NEW t \in {"PANIC_CUT", "PLACE_ACK", "PLACE_REJECT", "CUT_ACK", "CUT_REJECT",
                      "ROUND_CALL", "OPP_SHIP", "OPP_CUT", "ERROR"}
      PROVE  LastEnd(t) = 1
  <2>1. Sound(Written[t])
    BY WrittenSound, TypesAre
  <2>2. Len(Written[t]) = 1
    BY DEF Written
  <2>3. Width(Written[t], 1) = 1
    BY DEF Written, Width, U8, U16, U32, Text, NameLen
  <2> QED BY <2>1, <2>2, <2>3, End1 DEF LastEnd
<1>3. ASSUME NEW t \in {"AUTH", "QUEUED"}
      PROVE  LastEnd(t) = 2
  <2>1. Sound(Written[t])
    BY WrittenSound, TypesAre
  <2>2. Len(Written[t]) = 1
    BY DEF Written
  <2>3. Width(Written[t], 1) = 2
    BY DEF Written, Width, U8, U16, U32, Text, NameLen
  <2> QED BY <2>1, <2>2, <2>3, End1 DEF LastEnd
<1>4. ASSUME NEW t \in {"PING", "PONG"}
      PROVE  LastEnd(t) = 4
  <2>1. Sound(Written[t])
    BY WrittenSound, TypesAre
  <2>2. Len(Written[t]) = 1
    BY DEF Written
  <2>3. Width(Written[t], 1) = 4
    BY DEF Written, Width, U8, U16, U32, Text, NameLen
  <2> QED BY <2>1, <2>2, <2>3, End1 DEF LastEnd
<1>5. LastEnd("HELLO") = 19
  <2>1. Sound(Written["HELLO"])
    BY WrittenSound, TypesAre
  <2>2. Len(Written["HELLO"]) = 4
    BY DEF Written
  <2>3. /\ Width(Written["HELLO"], 1) = 1 /\ Width(Written["HELLO"], 2) = 1
        /\ Width(Written["HELLO"], 3) = 16 /\ Width(Written["HELLO"], 4) = 1
    BY DEF Written, Width, U8, U16, U32, Text, NameLen
  <2> QED BY <2>1, <2>2, <2>3, End4 DEF LastEnd
<1>6. LastEnd("PLACE") = 4
  <2>1. Sound(Written["PLACE"])
    BY WrittenSound, TypesAre
  <2>2. Len(Written["PLACE"]) = 4
    BY DEF Written
  <2>3. /\ Width(Written["PLACE"], 1) = 1 /\ Width(Written["PLACE"], 2) = 1
        /\ Width(Written["PLACE"], 3) = 1 /\ Width(Written["PLACE"], 4) = 1
    BY DEF Written, Width, U8, U16, U32, Text, NameLen
  <2> QED BY <2>1, <2>2, <2>3, End4 DEF LastEnd
<1>7. LastEnd("WELCOME") = 5
  <2>1. Sound(Written["WELCOME"])
    BY WrittenSound, TypesAre
  <2>2. Len(Written["WELCOME"]) = 2
    BY DEF Written
  <2>3. /\ Width(Written["WELCOME"], 1) = 4 /\ Width(Written["WELCOME"], 2) = 1
    BY DEF Written, Width, U8, U16, U32, Text, NameLen
  <2> QED BY <2>1, <2>2, <2>3, End2 DEF LastEnd
<1>8. LastEnd("MATCH_FOUND") = 30
  <2>1. Sound(Written["MATCH_FOUND"])
    BY WrittenSound, TypesAre
  <2>2. Len(Written["MATCH_FOUND"]) = 6
    BY DEF Written
  <2>3. /\ Width(Written["MATCH_FOUND"], 1) = 4 /\ Width(Written["MATCH_FOUND"], 2) = 4
        /\ Width(Written["MATCH_FOUND"], 3) = 1 /\ Width(Written["MATCH_FOUND"], 4) = 16
        /\ Width(Written["MATCH_FOUND"], 5) = 1 /\ Width(Written["MATCH_FOUND"], 6) = 4
    BY DEF Written, Width, U8, U16, U32, Text, NameLen
  <2> QED BY <2>1, <2>2, <2>3, End6 DEF LastEnd
<1>9. LastEnd("COMBAT_START") = 10
  <2>1. Sound(Written["COMBAT_START"])
    BY WrittenSound, TypesAre
  <2>2. Len(Written["COMBAT_START"]) = 6
    BY DEF Written
  <2>3. /\ Width(Written["COMBAT_START"], 1) = 1 /\ Width(Written["COMBAT_START"], 2) = 1
        /\ Width(Written["COMBAT_START"], 3) = 2 /\ Width(Written["COMBAT_START"], 4) = 2
        /\ Width(Written["COMBAT_START"], 5) = 2 /\ Width(Written["COMBAT_START"], 6) = 2
    BY DEF Written, Width, U8, U16, U32, Text, NameLen
  <2> QED BY <2>1, <2>2, <2>3, End6 DEF LastEnd
<1>10. LastEnd("TICK") = 9
  <2>1. Sound(Written["TICK"])
    BY WrittenSound, TypesAre
  <2>2. Len(Written["TICK"]) = 7
    BY DEF Written
  <2>3. /\ Width(Written["TICK"], 1) = 1 /\ Width(Written["TICK"], 2) = 1
        /\ Width(Written["TICK"], 3) = 1 /\ Width(Written["TICK"], 4) = 2
        /\ Width(Written["TICK"], 5) = 2 /\ Width(Written["TICK"], 6) = 1
        /\ Width(Written["TICK"], 7) = 1
    BY DEF Written, Width, U8, U16, U32, Text, NameLen
  <2> QED BY <2>1, <2>2, <2>3, End7 DEF LastEnd
<1>11. LastEnd("MATCH_END") = 7
  <2>1. Sound(Written["MATCH_END"])
    BY WrittenSound, TypesAre
  <2>2. Len(Written["MATCH_END"]) = 4
    BY DEF Written
  <2>3. /\ Width(Written["MATCH_END"], 1) = 4 /\ Width(Written["MATCH_END"], 2) = 1
        /\ Width(Written["MATCH_END"], 3) = 1 /\ Width(Written["MATCH_END"], 4) = 1
    BY DEF Written, Width, U8, U16, U32, Text, NameLen
  <2> QED BY <2>1, <2>2, <2>3, End4 DEF LastEnd
<1>12. LastEnd("ROUND_BREAK") = 6
  <2>1. Sound(Written["ROUND_BREAK"])
    BY WrittenSound, TypesAre
  <2>2. Len(Written["ROUND_BREAK"]) = 4
    BY DEF Written
  <2>3. /\ Width(Written["ROUND_BREAK"], 1) = 1 /\ Width(Written["ROUND_BREAK"], 2) = 1
        /\ Width(Written["ROUND_BREAK"], 3) = 2 /\ Width(Written["ROUND_BREAK"], 4) = 2
    BY DEF Written, Width, U8, U16, U32, Text, NameLen
  <2> QED BY <2>1, <2>2, <2>3, End4 DEF LastEnd
<1>13. LastEnd("ROUND_RESULT") = 6
  <2>1. Sound(Written["ROUND_RESULT"])
    BY WrittenSound, TypesAre
  <2>2. Len(Written["ROUND_RESULT"]) = 6
    BY DEF Written
  <2>3. /\ Width(Written["ROUND_RESULT"], 1) = 1 /\ Width(Written["ROUND_RESULT"], 2) = 1
        /\ Width(Written["ROUND_RESULT"], 3) = 1 /\ Width(Written["ROUND_RESULT"], 4) = 1
        /\ Width(Written["ROUND_RESULT"], 5) = 1 /\ Width(Written["ROUND_RESULT"], 6) = 1
    BY DEF Written, Width, U8, U16, U32, Text, NameLen
  <2> QED BY <2>1, <2>2, <2>3, End6 DEF LastEnd
<1>14. LastEnd("EVENTS") = 7
  <2>1. Sound(Written["EVENTS"])
    BY WrittenSound, TypesAre
  <2>2. Len(Written["EVENTS"]) = 5
    BY DEF Written
  <2>3. /\ Width(Written["EVENTS"], 1) = 1 /\ Width(Written["EVENTS"], 2) = 1
        /\ Width(Written["EVENTS"], 3) = 1 /\ Width(Written["EVENTS"], 4) = 2
        /\ Width(Written["EVENTS"], 5) = 2
    BY DEF Written, Width, U8, U16, U32, Text, NameLen
  <2> QED BY <2>1, <2>2, <2>3, End5 DEF LastEnd
<1> QED
  BY <1>1, <1>2, <1>3, <1>4, <1>5, <1>6, <1>7, <1>8, <1>9, <1>10, <1>11, <1>12, <1>13, <1>14

\* What the fields leave of a payload of the size the table has.
LEMMA TableIs ==
  ASSUME NEW type \in Types \ {"HELLO", "AUTH", "EVENTS"}
  PROVE  PayloadSize[type] = LastEnd(type) + (IF type = "OPP_SHIP" THEN 4 * MaxParts ELSE 0)
BY LastEnds, TypesAre DEF PayloadSize, MaxParts

-----------------------------------------------------------------------------
(* A message, and its frame.                                               *)

\* What the lemmas above say of the fields of a message.
Fielded(m, fields) ==
  /\ m.type \in Types /\ fields = Written[m.type] /\ Sound(fields) /\ AllPut(fields, m)
  /\ m = [name \in Names(fields) \cup {"type", "tail"} |-> m[name]]
  /\ m.tail \in Seq(Byte) /\ Len(m.tail) = TailLen(m.type, m)
  /\ Body(m) = Laid(fields, m)[Len(fields)] \o m.tail

LEMMA MessageIs ==
  ASSUME NEW m, IsMessage(m)
  PROVE  Fielded(m, Written[m.type])
<1> DEFINE f == Written[m.type]
<1>1. /\ m.type \in Types
      /\ m = [name \in Names(f) \cup {"type", "tail"} |-> m[name]]
      /\ m.tail \in Seq(Byte) /\ Len(m.tail) = TailLen(m.type, m)
  BY DEF IsMessage
<1>2. \A k \in DOMAIN f : m[f[k][1]] \in ValuesOf(f[k])
  BY DEF IsMessage
<1>3. Sound(f)
  BY <1>1, WrittenSound
<1> HIDE DEF f
<1>4. AllPut(f, m)
  <2> SUFFICES ASSUME NEW k \in 1 .. Len(f)
               PROVE  PutOK(f[k], m[f[k][1]])
    BY DEF AllPut
  <2>1. f[k][2] \in Widths /\ m[f[k][1]] \in ValuesOf(f[k])
    BY <1>2, <1>3 DEF Sound
  <2> QED BY <2>1, PutIs
<1>5. SubSeq(m.tail, 1, Len(m.tail)) = m.tail
  BY <1>1, SubSeqFull
<1>6. Body(m) = Laid(f, m)[Len(f)] \o SubSeq(m.tail, 1, TailLen(m.type, m))
  BY DEF Body, f
<1>7. Body(m) = Laid(f, m)[Len(f)] \o m.tail
  BY <1>1, <1>5, <1>6
<1> QED BY <1>1, <1>3, <1>4, <1>7 DEF Fielded, f

\* The fields and the tail lie in the body one after the other.
LEMMA BodyIs ==
  ASSUME NEW m, NEW f, Fielded(m, f)
  PROVE  LaidOut(f, m, m.tail, Body(m))
<1>1. /\ Sound(f) /\ AllPut(f, m) /\ m.tail \in Seq(Byte)
      /\ Body(m) = Laid(f, m)[Len(f)] \o m.tail
  BY DEF Fielded
<1> QED BY <1>1, ReadAt

\* What is written in one byte is that byte of the body.
LEMMA ByteAt ==
  ASSUME NEW m, NEW f, Fielded(m, f), NEW k \in 1 .. Len(f), f[k][2] = 1
  PROVE  Body(m)[Ends(f)[k]] = m[f[k][1]]
<1> DEFINE b == Body(m)
           e == Ends(f)
           p == Part(f, m, k)
<1>1. Sound(f) /\ AllPut(f, m)
  BY DEF Fielded
<1>2. LaidOut(f, m, m.tail, b)
  BY BodyIs
<1>3. b \in Seq(Byte) /\ SubSeq(b, e[k - 1] + 1, e[k]) = p
  BY <1>2 DEF LaidOut
<1>4. /\ p \in Seq(Byte) /\ Len(p) = 1 /\ Get(f[k], p) = m[f[k][1]]
  BY <1>1, PartIs
<1>5. Get(f[k], p) = p[1]
  BY <1>4 DEF Get, Number, NameLen
<1>6. e[k] = e[k - 1] + 1 /\ e[k - 1] \in Nat
  <2>1. e \in [0 .. Len(f) -> Nat] /\ e[k] = e[k - 1] + f[k][2]
    BY <1>1, EndsIs DEF EndsOK
  <2>2. k - 1 \in 0 .. Len(f)
    BY <1>1 DEF Sound
  <2> QED BY <2>1, <2>2
<1> DEFINE c == e[k]
<1>7. e[k - 1] + 1 = c /\ c \in Nat \ {0}
  BY <1>6
<1> HIDE DEF b, p
<1>9. SubSeq(b, c, e[k]) = p
  BY <1>3, <1>7
<1>10. SubSeq(b, c, c) = p
  BY <1>9
<1> HIDE DEF c
<1>8. SubSeq(b, c, c)[1] = b[c]
  BY <1>3, <1>4, <1>7, <1>10
<1> QED BY <1>4, <1>5, <1>8, <1>10 DEF b, p, c

\* A body is read as the message it was made of.
LEMMA ParsedIs ==
  ASSUME NEW m, NEW f, Fielded(m, f)
  PROVE  Parsed(m.type, Body(m)) = m
<1> DEFINE D == Names(f) \cup {"type", "tail"}
           b == Body(m)
           e == Ends(f)
           at(name) == CHOOSE k \in DOMAIN f : f[k][1] = name
           Field(name) ==
             CASE name = "type" -> m.type
               [] name = "tail" -> SubSeq(b, e[Len(f)] + 1, Len(b))
               [] OTHER         -> LET k == at(name)
                                   IN Get(f[k], SubSeq(b, e[k - 1] + 1, e[k]))
<1>1. f = Read[m.type] /\ Sound(f) /\ AllPut(f, m) /\ m = [name \in D |-> m[name]]
  BY ReadIsWritten DEF Fielded
<1>2. Parsed(m.type, b) = [name \in D |-> Field(name)]
  BY <1>1 DEF Parsed
<1>3. /\ SubSeq(b, e[Len(f)] + 1, Len(b)) = m.tail
      /\ \A k \in 1 .. Len(f) : SubSeq(b, e[k - 1] + 1, e[k]) = Part(f, m, k)
  BY BodyIs DEF LaidOut
<1> HIDE DEF b, e
<1>4. ASSUME NEW name \in Names(f)
      PROVE  Field(name) = m[name]
  <2>1. PICK k \in 1 .. Len(f) : f[k][1] = name
    BY <1>1 DEF Names, Sound
  <2>2. at(name) = k
    <3>1. \A j \in DOMAIN f : f[j][1] = name => j = k
      BY <1>1, <2>1 DEF Sound
    <3>2. k \in DOMAIN f
      BY <1>1, <2>1 DEF Sound
    <3> QED BY <2>1, <3>1, <3>2
  <2> HIDE DEF at
  <2>3. name # "type" /\ name # "tail"
    BY <1>1, <2>1 DEF Sound
  <2>4. Field(name) = Get(f[k], Part(f, m, k))
    BY <1>3, <2>2, <2>3
  <2>5. Get(f[k], Part(f, m, k)) = m[name]
    BY <1>1, <2>1, PartIs
  <2> QED BY <2>4, <2>5
<1>5. Field("type") = m.type
  OBVIOUS
<1>6. Field("tail") = m.tail
  BY <1>3
<1> HIDE DEF Field
<1>7. \A name \in D : Field(name) = m[name]
  BY <1>4, <1>5, <1>6
<1> HIDE DEF D
<1>8. [name \in D |-> Field(name)] = [name \in D |-> m[name]]
  BY <1>7
<1> QED BY <1>1, <1>2, <1>8 DEF b

\* What a message says of its own length the decoder believes.
Limited(m) ==
  /\ m.type = "HELLO" => m.token_len <= MaxToken
  /\ m.type = "AUTH" => m.token_len <= MaxAuthToken
  /\ m.type = "EVENTS" => m.n <= MaxEvents

LEMMA SizedIs ==
  ASSUME NEW m, NEW f, Fielded(m, f), Limited(m)
  PROVE  WellSized(m.type, Body(m))
<1> DEFINE b == Body(m)
           n == Len(b)
           e == Ends(f)
           z == LastEnd(m.type)
           t == TailLen(m.type, m)
<1>1. f = Written[m.type] /\ Sound(f) /\ AllPut(f, m) /\ m.type \in Types
  BY DEF Fielded
<1>2. LaidOut(f, m, m.tail, b)
  BY BodyIs
<1>3. n = z + t /\ t \in Nat
  <2>1. n = e[Len(f)] + Len(m.tail)
    BY <1>2 DEF LaidOut
  <2>2. z = e[Len(f)]
    BY <1>1 DEF LastEnd, End
  <2>3. Len(m.tail) = t /\ m.tail \in Seq(Byte)
    BY DEF Fielded
  <2> QED BY <2>1, <2>2, <2>3
<1>4. FirstEnds(f) /\ z = e[Len(f)]
  BY <1>1, FirstEndsAre DEF LastEnd, End
<1> HIDE DEF n, z, t
<1>5. CASE m.type \notin {"HELLO", "AUTH", "EVENTS"}
  <2>1. PayloadSize[m.type] = z + (IF m.type = "OPP_SHIP" THEN 4 * MaxParts ELSE 0)
    BY <1>1, <1>5, TableIs DEF z
  <2>2. t = IF m.type = "OPP_SHIP" THEN 4 * MaxParts ELSE 0
    BY <1>5 DEF TailLen, t
  <2>3. n = PayloadSize[m.type]
    BY <1>3, <2>1, <2>2
  <2> QED BY <1>5, <2>3 DEF WellSized, n
<1>6. CASE m.type = "HELLO"
  <2>1. Len(f) = 4 /\ f[4][1] = "token_len" /\ f[4][2] = 1 /\ z = 19
    BY <1>1, <1>6, LastEnds DEF Written, U8, z
  <2>2. e[4] = 19
    BY <1>4, <2>1
  <2>3. b[19] = m.token_len
    BY <2>1, <2>2, ByteAt
  <2>4. t = m.token_len /\ m.token_len <= MaxToken
    BY <1>6 DEF TailLen, t, Limited
  <2>5. n >= 19 /\ b[19] = n - 19 /\ b[19] <= MaxToken
    BY <1>3, <2>1, <2>3, <2>4
  <2> QED BY <1>6, <2>5 DEF WellSized, n
<1>7. CASE m.type = "AUTH"
  <2>1. Len(f) = 1 /\ f[1][1] = "token_len" /\ f[1][2] = 2 /\ z = 2
    BY <1>1, <1>7, LastEnds DEF Written, U16, z
  <2>2. e[1] = 2 /\ e[0] = 0
    BY <1>4, <2>1 DEF FirstEnds, End
  <2>3. SubSeq(b, 1, 2) = Part(f, m, 1)
    <3>1. 1 \in 1 .. Len(f) /\ 1 - 1 = 0 /\ 0 + 1 = 1
      BY <2>1
    <3>2. SubSeq(b, e[1 - 1] + 1, e[1]) = Part(f, m, 1)
      BY <1>2, <3>1 DEF LaidOut
    <3> QED BY <2>2, <3>1, <3>2
  <2>4. Number(SubSeq(b, 1, 2)) = m.token_len
    <3>1. Get(f[1], Part(f, m, 1)) = m[f[1][1]]
      BY <1>1, <2>1, PartIs
    <3>2. Get(f[1], Part(f, m, 1)) = Number(Part(f, m, 1))
      BY <2>1 DEF Get, NameLen
    <3> QED BY <2>1, <2>3, <3>1, <3>2
  <2>5. t = m.token_len /\ m.token_len <= MaxAuthToken
    BY <1>7 DEF TailLen, t, Limited
  <2>6. n >= 2 /\ m.token_len = n - 2
    BY <1>3, <2>1, <2>5
  <2> QED BY <1>7, <2>4, <2>5, <2>6 DEF WellSized, n
<1>8. CASE m.type = "EVENTS"
  <2>1. /\ Len(f) = 5 /\ f[2][1] = "n" /\ f[2][2] = 1 /\ f[1][2] = 1 /\ z = 7
    BY <1>1, <1>8, LastEnds DEF Written, U8, U16, z
  <2>2. e[2] = 2
    BY <1>4, <2>1 DEF FirstEnds, End, Follows, Width
  <2>3. b[2] = m.n
    BY <2>1, <2>2, ByteAt
  <2>4. t = 7 * m.n /\ m.n <= MaxEvents
    BY <1>8 DEF TailLen, t, Limited
  <2>5. n >= 7 /\ n = 7 + 7 * b[2] /\ b[2] <= MaxEvents
    BY <1>3, <2>1, <2>3, <2>4
  <2> QED BY <1>8, <2>5 DEF WellSized, n
<1> QED BY <1>5, <1>6, <1>7, <1>8


\* What a message says of the length of its tail is a number.
LEMMA Counted ==
  ASSUME NEW m, IsMessage(m)
  PROVE  /\ m.type = "HELLO" => m.token_len \in Byte
         /\ m.type = "AUTH" => m.token_len \in Short
         /\ m.type = "EVENTS" => m.n \in Byte
<1>1. ASSUME m.type = "HELLO"
      PROVE  m.token_len \in Byte
  <2>1. 4 \in DOMAIN Written[m.type] /\ Written[m.type][4] = <<"token_len", 1>>
    BY <1>1 DEF Written, U8
  <2>2. m["token_len"] \in ValuesOf(<<"token_len", 1>>)
    BY <2>1 DEF IsMessage
  <2> QED BY <2>2 DEF ValuesOf, NameLen
<1>2. ASSUME m.type = "AUTH"
      PROVE  m.token_len \in Short
  <2>1. 1 \in DOMAIN Written[m.type] /\ Written[m.type][1] = <<"token_len", 2>>
    BY <1>2 DEF Written, U16
  <2>2. m["token_len"] \in ValuesOf(<<"token_len", 2>>)
    BY <2>1 DEF IsMessage
  <2> QED BY <2>2 DEF ValuesOf, NameLen
<1>3. ASSUME m.type = "EVENTS"
      PROVE  m.n \in Byte
  <2>1. 2 \in DOMAIN Written[m.type] /\ Written[m.type][2] = <<"n", 1>>
    BY <1>3 DEF Written, U8
  <2>2. m["n"] \in ValuesOf(<<"n", 1>>)
    BY <2>1 DEF IsMessage
  <2> QED BY <2>2 DEF ValuesOf, NameLen
<1> QED BY <1>1, <1>2, <1>3

-----------------------------------------------------------------------------
(* A frame, and what dw2_decode makes of the beginning of a stream.        *)

\* A frame tells its length, which is at least that of a type and at most max.
FrameIn(max, b) ==
  /\ b \in Seq(Byte) /\ Len(b) \in 3 .. max + 2
  /\ FrameLen(b) \in 1 .. max /\ Len(b) = 2 + FrameLen(b)

\* What the decoder makes of a frame of n bytes with the type byte v.
Made(v, payload, n) ==
  LET known == {t \in Types : TypeByte[t] = v}
      type  == CHOOSE t \in known : TRUE
  IN IF known = {} \/ ~WellSized(type, payload) THEN Bad
     ELSE [ret |-> 1, msg |-> Parsed(type, payload), used |-> n]

\* A frame: its length n, its type byte v and its body.
Headed(b, n, v, body) ==
  /\ b \in Seq(Byte) /\ Len(b) = 2 + n /\ FrameLen(b) = n
  /\ b[3] = v /\ SubSeq(b, 4, 2 + n) = body

LEMMA FrameParts ==
  ASSUME NEW n \in Short, NEW v \in Byte, NEW body \in Seq(Byte), Len(body) + 1 = n
  PROVE  Headed(Little(2, n) \o <<v>> \o body, n, v, body)
<1> DEFINE h == Little(2, n)
           hv == h \o <<v>>
           b == Little(2, n) \o <<v>> \o body
<1>1. h \in Seq(Byte) /\ Len(h) = 2 /\ Number(h) = n
  BY LittleIs
<1>2. n \in Nat
  BY DEF Short
<1> HIDE DEF h
<1>3. Joined(h, <<v>>, Byte)
  <2>1. <<v>> \in Seq(Byte)
    OBVIOUS
  <2> QED BY <1>1, <2>1, JoinedIs
<1>4. hv \in Seq(Byte) /\ Len(hv) = Len(h) + Len(<<v>>) /\ hv[Len(h) + 1] = <<v>>[1]
  <2>1. Len(<<v>>) = 1 /\ 1 \in 1 .. Len(<<v>>)
    OBVIOUS
  <2> QED BY <1>3, <2>1 DEF Joined
<1>5. \A i \in 1 .. Len(h) : hv[i] = h[i]
  BY <1>3 DEF Joined
<1>6. Len(hv) = 3 /\ hv[3] = v
  <2>1. Len(<<v>>) = 1 /\ <<v>>[1] = v
    OBVIOUS
  <2> HIDE DEF hv
  <2> QED BY <1>1, <1>4, <2>1
<1>7. b = hv \o body
  BY DEF h
<1> HIDE DEF hv, b
<1>8. Joined(hv, body, Byte)
  BY <1>4, JoinedIs
<1>9. b \in Seq(Byte) /\ Len(b) = Len(hv) + Len(body)
  BY <1>7, <1>8 DEF Joined
<1>10. \A i \in 1 .. Len(hv) : b[i] = hv[i]
  BY <1>7, <1>8 DEF Joined
<1>11. b[3] = v
  <2>1. 3 \in 1 .. Len(hv)
    BY <1>6
  <2> QED BY <1>6, <1>10, <2>1
<1>12. Len(b) = 2 + n
  <2>1. Len(body) \in Nat
    OBVIOUS
  <2> QED BY <1>2, <1>6, <1>9, <2>1
<1>13. SubSeq(b, 4, 2 + n) = body
  <2>1. Rest(hv \o body, Len(hv)) = body
    BY <1>4, Apart
  <2>2. Rest(b, 3) = body
    BY <1>6, <1>7, <2>1
  <2> QED BY <1>12, <2>2 DEF Rest
<1>14. SubSeq(b, 1, 2) = h
  <2>1. \A i \in 1 .. 2 : b[i] = h[i]
    <3>1. \A i \in 1 .. 2 : i \in 1 .. Len(h) /\ i \in 1 .. Len(hv)
      BY <1>1, <1>6
    <3> QED BY <1>5, <1>10, <3>1
  <2> DEFINE c == Len(h)
  <2>2. c = 2 /\ c \in 0 .. Len(b)
    BY <1>1, <1>2, <1>12
  <2> HIDE DEF c
  <2>3. Taking(b, c, Byte)
    BY <1>9, <2>2, TakingIs
  <2>4. /\ First(b, c) \in Seq(Byte) /\ Len(First(b, c)) = c
        /\ \A i \in 1 .. c : First(b, c)[i] = b[i]
    BY <2>3 DEF Taking
  <2>5. \A i \in 1 .. c : First(b, c)[i] = h[i]
    BY <2>1, <2>2, <2>4
  <2>6. First(b, c) = h
    BY <1>1, <2>4, <2>5, SeqEqual DEF c
  <2> QED BY <2>2, <2>6 DEF First
<1>15. FrameLen(b) = n
  BY <1>1, <1>14 DEF FrameLen
<1> QED BY <1>9, <1>11, <1>12, <1>13, <1>15 DEF Headed, b

\* A buffer with a whole frame in front.
LEMMA DecodeMade ==
  ASSUME NEW max \in Nat, NEW buf, Len(buf) \in Nat, FrameLen(buf) \in 1 .. max,
         Len(buf) >= 2 + FrameLen(buf)
  PROVE  DecodeIn(max, buf) =
           Made(buf[3], SubSeq(buf, 4, 2 + FrameLen(buf)), 2 + FrameLen(buf))
<1>1. ~(Len(buf) >= 2 /\ FrameLen(buf) \notin 1 .. max) /\ Whole(buf)
  BY DEF Whole
<1> QED BY <1>1 DEF DecodeIn, Made

\* Every message that has a frame is read back from it.
THEOREM MessagesReadBack ==
  ASSUME NEW max \in Short, NEW m, IsMessage(m), ~TooLong(max, m)
  PROVE  /\ FrameIn(max, EncodeIn(max, m))
         /\ DecodeIn(max, EncodeIn(max, m)) =
              [ret |-> 1, msg |-> m, used |-> Len(EncodeIn(max, m))]
<1> DEFINE b == EncodeIn(max, m)
           body == Body(m)
           n == Len(body) + 1
           f == Written[m.type]
           v == TypeByte[m.type]
<1>1. b = Little(2, n) \o <<v>> \o body
  BY DEF EncodeIn
<1>2. Fielded(m, f)
  BY MessageIs
<1>3. m.type \in Types
  BY <1>2 DEF Fielded
<1> HIDE DEF f
<1>4. body \in Seq(Byte)
  BY <1>2, BodyIs DEF LaidOut
<1>5. Limited(m) /\ n <= max
  <2>1. /\ ~(m.type = "HELLO" /\ m.token_len > MaxToken)
        /\ ~(m.type = "AUTH" /\ m.token_len > MaxAuthToken)
        /\ ~(m.type = "EVENTS" /\ m.n > MaxEvents)
        /\ ~(n > max)
    BY DEF TooLong
  <2>2. /\ m.type = "HELLO" => m.token_len \in Int
        /\ m.type = "AUTH" => m.token_len \in Int
        /\ m.type = "EVENTS" => m.n \in Int
    <3>1. \A x \in Byte : x \in Int
      BY DEF Byte
    <3>2. \A x \in Short : x \in Int
      BY DEF Short
    <3> QED BY <3>1, <3>2, Counted
  <2>3. n \in Int /\ max \in Int
    BY <1>4 DEF Short
  <2> HIDE DEF n
  <2> QED BY <2>1, <2>2, <2>3 DEF Limited, MaxToken, MaxAuthToken, MaxEvents
<1>6. WellSized(m.type, body) /\ Parsed(m.type, body) = m
  BY <1>2, <1>5, SizedIs, ParsedIs
<1>7. v \in Byte /\ max \in Nat /\ n \in Short /\ n >= 1
  <2>1. v \in Byte
    BY <1>3, TypeBytes
  <2>2. Len(body) \in Nat
    BY <1>4
  <2> HIDE DEF v
  <2> QED BY <1>5, <2>1, <2>2 DEF Short
<1> HIDE DEF b, body
<1> DEFINE c == n
<1>8. c = Len(body) + 1 /\ c \in Short /\ c <= max /\ c >= 1 /\ c \in Nat
  BY <1>5, <1>7 DEF Short
<1>9. b = Little(2, c) \o <<v>> \o body
  BY <1>1 DEF body
<1> HIDE DEF c, v
<1>10. /\ b \in Seq(Byte) /\ Len(b) = 2 + c /\ FrameLen(b) = c
       /\ b[3] = v /\ SubSeq(b, 4, 2 + c) = body
  <2>1. Headed(Little(2, c) \o <<v>> \o body, c, v, body)
    BY <1>4, <1>7, <1>8, FrameParts
  <2> QED BY <1>9, <2>1 DEF Headed
<1>11. FrameIn(max, b)
  BY <1>7, <1>8, <1>10 DEF FrameIn
<1>12. DecodeIn(max, b) = Made(v, body, 2 + c)
  <2>1. Len(b) \in Nat /\ FrameLen(b) \in 1 .. max /\ Len(b) >= 2 + FrameLen(b)
    BY <1>7, <1>8, <1>10
  <2> QED BY <1>7, <1>10, <2>1, DecodeMade
<1>13. {t \in Types : TypeByte[t] = v} = {m.type}
  BY <1>3, TypeBytes DEF v
<1>14. Made(v, body, 2 + c) = [ret |-> 1, msg |-> m, used |-> 2 + c]
  BY <1>6, <1>13 DEF Made, body
<1> QED BY <1>10, <1>11, <1>12, <1>14 DEF b

\* The bytes of a buffer and of a frame are the same as far as both go.
Agree(buf, b) == \A i \in 1 .. Least(Len(buf), Len(b)) : buf[i] = b[i]

LEMMA SameLength ==
  ASSUME NEW max \in Nat, NEW b, FrameIn(max, b), NEW buf \in Seq(Byte), Agree(buf, b),
         Len(buf) >= 2
  PROVE  FrameLen(buf) = FrameLen(b)
<1>1. Len(b) >= 2 /\ b \in Seq(Byte) /\ Len(b) \in Nat /\ Len(buf) \in Nat
  BY DEF FrameIn
<1>2. \A i \in 1 .. 2 : buf[i] = b[i]
  BY <1>1 DEF Agree, Least
<1>3. /\ SubSeq(buf, 1, 2) \in Seq(Byte) /\ Len(SubSeq(buf, 1, 2)) = 2
      /\ \A i \in 1 .. 2 : SubSeq(buf, 1, 2)[i] = buf[i]
  BY <1>1
<1>4. /\ SubSeq(b, 1, 2) \in Seq(Byte) /\ Len(SubSeq(b, 1, 2)) = 2
      /\ \A i \in 1 .. 2 : SubSeq(b, 1, 2)[i] = b[i]
  BY <1>1
<1>5. SubSeq(buf, 1, 2) = SubSeq(b, 1, 2)
  BY <1>2, <1>3, <1>4, SeqEqual
<1> QED BY <1>5 DEF FrameLen

\* The beginning of a frame is waited with, never refused.
LEMMA BeginningWaits ==
  ASSUME NEW max \in Nat, NEW b, FrameIn(max, b), NEW buf \in Seq(Byte), Agree(buf, b),
         Len(buf) < Len(b)
  PROVE  DecodeIn(max, buf) = Wait
<1>1. Len(b) \in Nat /\ Len(buf) \in Nat /\ FrameLen(b) \in 1 .. max
      /\ Len(b) = 2 + FrameLen(b)
  BY DEF FrameIn
<1>2. CASE Len(buf) < 2
  <2>1. ~(Len(buf) >= 2) /\ ~Whole(buf)
    BY <1>1, <1>2 DEF Whole
  <2> QED BY <2>1 DEF DecodeIn
<1>3. CASE Len(buf) >= 2
  <2>1. FrameLen(buf) = FrameLen(b)
    BY <1>3, SameLength
  <2>2. FrameLen(buf) \in 1 .. max /\ ~Whole(buf)
    BY <1>1, <2>1 DEF Whole
  <2> QED BY <2>2 DEF DecodeIn
<1> QED BY <1>1, <1>2, <1>3

\* Nothing behind a frame changes what is read of it.
LEMMA WholeIsRead ==
  ASSUME NEW max \in Nat, NEW b, FrameIn(max, b), NEW buf \in Seq(Byte), Agree(buf, b),
         Len(buf) >= Len(b)
  PROVE  DecodeIn(max, buf) = DecodeIn(max, b)
<1> DEFINE n == 2 + FrameLen(b)
<1>1. /\ b \in Seq(Byte) /\ Len(b) \in Nat /\ Len(buf) \in Nat /\ Len(b) >= 3
      /\ FrameLen(b) \in 1 .. max /\ Len(b) = n
  BY DEF FrameIn
<1>2. FrameLen(buf) = FrameLen(b)
  BY <1>1, SameLength
<1>3. \A i \in 1 .. n : buf[i] = b[i]
  BY <1>1 DEF Agree, Least
<1>4. buf[3] = b[3]
  BY <1>1, <1>3
<1>5. SubSeq(buf, 4, n) = SubSeq(b, 4, n)
  <2>1. n \in Nat /\ n >= 3 /\ n <= Len(buf)
    BY <1>1
  <2> HIDE DEF n
  <2>2. /\ SubSeq(buf, 4, n) \in Seq(Byte) /\ Len(SubSeq(buf, 4, n)) = n - 3
        /\ \A i \in 1 .. n - 3 : SubSeq(buf, 4, n)[i] = buf[3 + i]
    BY <2>1
  <2>3. /\ SubSeq(b, 4, n) \in Seq(Byte) /\ Len(SubSeq(b, 4, n)) = n - 3
        /\ \A i \in 1 .. n - 3 : SubSeq(b, 4, n)[i] = b[3 + i]
    BY <1>1, <2>1
  <2>4. \A i \in 1 .. n - 3 : buf[3 + i] = b[3 + i]
    BY <1>3, <2>1
  <2>5. \A i \in 1 .. n - 3 : SubSeq(buf, 4, n)[i] = SubSeq(b, 4, n)[i]
    BY <2>2, <2>3, <2>4
  <2> QED BY <2>2, <2>3, <2>5, SeqEqual
<1>6. DecodeIn(max, buf) = Made(buf[3], SubSeq(buf, 4, n), n)
  <2>1. FrameLen(buf) \in 1 .. max /\ Len(buf) >= 2 + FrameLen(buf)
    BY <1>1, <1>2
  <2> QED BY <1>1, <1>2, <2>1, DecodeMade
<1>7. DecodeIn(max, b) = Made(b[3], SubSeq(b, 4, n), n)
  BY <1>1, DecodeMade
<1> QED BY <1>4, <1>5, <1>6, <1>7

-----------------------------------------------------------------------------
(* The frames of the messages of an instance.                              *)

LEMMA MaxFrameIs == MaxFrame \in Short /\ MaxFrame \in Nat
BY WireAssumption DEF Short

LEMMA FrameIs ==
  ASSUME NEW m \in Sendable
  PROVE  /\ FrameIn(MaxFrame, Encode(m))
         /\ Decode(Encode(m)) = [ret |-> 1, msg |-> m, used |-> Len(Encode(m))]
<1>1. IsMessage(m) /\ EncodeIn(MaxFrame, m) # <<>>
  BY MessageAssumption DEF Sendable, Encode
<1>2. ~TooLong(MaxFrame, m)
  BY <1>1 DEF EncodeIn
<1> QED BY <1>1, <1>2, MaxFrameIs, MessagesReadBack DEF Encode, Decode

\* What a message is encoded as are bytes, even if they are none.
LEMMA EncodeIs ==
  ASSUME NEW m \in Replies \cup Requests
  PROVE  Encode(m) \in Seq(Byte)
<1>1. CASE Encode(m) = <<>>
  BY <1>1
<1>2. CASE Encode(m) # <<>>
  BY <1>2, FrameIs DEF Sendable, FrameIn
<1> QED BY <1>1, <1>2

LEMMA DecodeWaits ==
  ASSUME NEW b, FrameIn(MaxFrame, b), NEW buf \in Seq(Byte), Agree(buf, b), Len(buf) < Len(b)
  PROVE  Decode(buf) = Wait
BY MaxFrameIs, BeginningWaits DEF Decode

LEMMA DecodeWhole ==
  ASSUME NEW b, FrameIn(MaxFrame, b), NEW buf \in Seq(Byte), Agree(buf, b), Len(buf) >= Len(b)
  PROVE  Decode(buf) = Decode(b)
BY MaxFrameIs, WholeIsRead DEF Decode

-----------------------------------------------------------------------------
(* Frames in a stream.                                                     *)

\* A frame is taken from the front of the stream.
LEMMA FrameTaken ==
  ASSUME NEW got \in Seq(Sendable), NEW ms \in Seq(Sendable), NEW then \in Seq(Sendable),
         NEW bytes \in Seq(Byte), NEW left \in Seq(Byte), NEW part \in SUBSET Sendable, NEW u \in Nat,
         Framed(got, ms, bytes, part), Len(got) < Len(ms), Len(then) = Len(got) + 1,
         u = Len(Encode(ms[Len(got) + 1])), Len(left) = Len(bytes) - u,
         \A i \in 1 .. Len(bytes) - u : left[i] = bytes[u + i]
  PROVE  Framed(then, ms, left, part)
<1> DEFINE g == Len(got)
           n == Len(ms)
<1>1. g \in Nat /\ n \in Nat /\ g + 1 \in 1 .. n /\ Len(bytes) \in Nat /\ Len(left) \in Nat
  OBVIOUS
<1>2. PICK cut \in [0 .. n -> Int] :
        /\ Cuts(cut, got, ms, bytes)
        /\ \/ cut[n] = Len(bytes)
           \/ \E m \in part : Begun(m, bytes, cut[n])
  BY DEF Framed
<1>3. /\ cut[g] = 0 /\ cut[n] <= Len(bytes)
      /\ \A j, k \in g .. n : j <= k => cut[j] <= cut[k]
  BY <1>2 DEF Cuts
<1>4. \A k \in g + 1 .. n : cut[k] = cut[k - 1] + Len(Encode(ms[k]))
  BY <1>2 DEF Cuts
<1>5. \A k \in g + 1 .. n : \A i \in 1 .. Len(Encode(ms[k])) :
        bytes[cut[k - 1] + i] = Encode(ms[k])[i]
  BY <1>2 DEF Cuts
<1>6. cut[g + 1] = u
  <2>1. g + 1 \in g + 1 .. n /\ (g + 1) - 1 = g
    BY <1>1
  <2>2. cut[g + 1] = cut[g] + u
    BY <1>4, <2>1
  <2> QED BY <1>3, <2>2
<1>7. \A k \in 0 .. n : cut[k] \in Int
  OBVIOUS
<1> DEFINE new == [k \in 0 .. n |-> cut[k] - u]
<1>8. new \in [0 .. n -> Int] /\ \A k \in 0 .. n : new[k] = cut[k] - u
  BY <1>7
<1> HIDE DEF new
<1>9. Cuts(new, then, ms, left)
  <2>1. new[g + 1] = 0
    BY <1>1, <1>6, <1>8
  <2>2. new[n] <= Len(left)
    <3>1. n \in 0 .. n
      BY <1>1
    <3>2. new[n] = cut[n] - u /\ cut[n] \in Int
      BY <1>7, <1>8, <3>1
    <3> QED BY <1>1, <1>3, <3>2
  <2>3. \A j, k \in g + 1 .. n : j <= k => new[j] <= new[k]
    <3> SUFFICES ASSUME NEW j \in g + 1 .. n, NEW k \in g + 1 .. n, j <= k
                 PROVE  new[j] <= new[k]
      OBVIOUS
    <3>1. j \in 0 .. n /\ k \in 0 .. n /\ j \in g .. n /\ k \in g .. n
      BY <1>1
    <3>2. new[j] = cut[j] - u /\ cut[j] \in Int /\ new[k] = cut[k] - u /\ cut[k] \in Int
      BY <1>7, <1>8, <3>1
    <3>3. cut[j] <= cut[k]
      BY <1>3, <3>1
    <3> QED BY <3>2, <3>3
  <2>4. ASSUME NEW k \in g + 2 .. n
        PROVE  /\ new[k] = new[k - 1] + Len(Encode(ms[k]))
               /\ \A i \in 1 .. Len(Encode(ms[k])) : left[new[k - 1] + i] = Encode(ms[k])[i]
    <3>1. k \in 0 .. n /\ k - 1 \in 0 .. n /\ k \in g + 1 .. n /\ k \in g .. n
          /\ k - 1 \in g + 1 .. n /\ k - 1 \in g .. n /\ ms[k] \in Sendable
      BY <1>1
    <3>2. Len(Encode(ms[k])) \in Nat
      BY <3>1, FrameIs, MaxFrameIs DEF FrameIn
    <3>3. /\ new[k] = cut[k] - u /\ new[k - 1] = cut[k - 1] - u
          /\ cut[k] \in Int /\ cut[k - 1] \in Int
      BY <1>7, <1>8, <3>1
    <3>4. cut[k] = cut[k - 1] + Len(Encode(ms[k]))
      BY <1>4, <3>1
    <3>5. u <= cut[k - 1] /\ cut[k] <= Len(bytes)
      <4>1. g + 1 \in g .. n /\ n \in g .. n
        BY <1>1
      <4>2. g + 1 <= k - 1 /\ k <= n
        BY <1>1
      <4>3. cut[g + 1] <= cut[k - 1]
        BY <1>3, <3>1, <4>1, <4>2
      <4>4. cut[k] <= cut[n]
        BY <1>3, <3>1, <4>1, <4>2
      <4>5. n \in 0 .. n
        BY <1>1
      <4>6. cut[n] \in Int
        BY <1>7, <4>5
      <4> QED BY <1>1, <1>3, <1>6, <3>3, <4>3, <4>4, <4>6
    <3>6. ASSUME NEW i \in 1 .. Len(Encode(ms[k]))
          PROVE  left[new[k - 1] + i] = Encode(ms[k])[i]
      <4>1. new[k - 1] + i \in 1 .. Len(bytes) - u
        <5> DEFINE c == cut[k - 1]
                   l == Len(Encode(ms[k]))
        <5>1. /\ c \in Int /\ l \in Nat /\ i \in 1 .. l /\ new[k - 1] = c - u
              /\ u <= c /\ c + l <= Len(bytes)
          BY <3>2, <3>3, <3>4, <3>5
        <5>2. Len(bytes) \in Int
          OBVIOUS
        <5> HIDE DEF c, l
        <5> DEFINE e == Len(bytes)
                   x == new[k - 1]
        <5> HIDE DEF e, x
        <5>3. e \in Int /\ c + l <= e /\ x = c - u
          BY <5>1, <5>2 DEF e, x
        <5>4. x + i \in 1 .. e - u
          BY <5>1, <5>3
        <5> QED BY <5>4 DEF e, x
      <4>2. u + (new[k - 1] + i) = cut[k - 1] + i
        BY <3>3
      <4>3. left[new[k - 1] + i] = bytes[cut[k - 1] + i]
        BY <4>1, <4>2
      <4> QED BY <1>5, <3>1, <4>3
    <3>7. new[k] = new[k - 1] + Len(Encode(ms[k]))
      BY <3>2, <3>3, <3>4
    <3> QED BY <3>6, <3>7
  <2>5. Len(then) = g + 1 /\ Len(then) + 1 = g + 2
    BY <1>1
  <2> QED BY <2>1, <2>2, <2>3, <2>4, <2>5 DEF Cuts
<1>10. new[n] = cut[n] - u /\ cut[n] \in Int /\ cut[n] - u >= 0
  <2>1. n \in 0 .. n /\ g + 1 \in g .. n /\ n \in g .. n /\ g + 1 <= n
    BY <1>1
  <2>2. cut[g + 1] <= cut[n]
    BY <1>3, <2>1
  <2> QED BY <1>6, <1>7, <1>8, <2>1, <2>2
<1>11. CASE cut[n] = Len(bytes)
  <2>1. new[n] = Len(left)
    BY <1>10, <1>11
  <2> QED BY <1>8, <1>9, <2>1 DEF Framed
<1>12. CASE \E m \in part : Begun(m, bytes, cut[n])
  <2>1. PICK m \in part : Begun(m, bytes, cut[n])
    BY <1>12
  <2>2. Begun(m, left, new[n])
    <3>1. Len(left) - new[n] = Len(bytes) - cut[n]
      <4>1. /\ Len(left) = Len(bytes) - u /\ Len(bytes) \in Int
            /\ new[n] = cut[n] - u /\ cut[n] \in Int
        BY <1>1, <1>10
      <4> QED BY <4>1
    <3>2. ASSUME NEW i \in 1 .. Len(left) - new[n]
          PROVE  left[new[n] + i] = Encode(m)[i]
      <4>1. new[n] + i \in 1 .. Len(bytes) - u /\ u + (new[n] + i) = cut[n] + i
        BY <1>1, <1>10, <3>1
      <4>2. left[new[n] + i] = bytes[cut[n] + i]
        BY <4>1
      <4> QED BY <2>1, <3>1, <4>2 DEF Begun
    <3> QED BY <2>1, <3>1, <3>2 DEF Begun
  <2> QED BY <1>8, <1>9, <1>12, <2>2 DEF Framed
<1> QED BY <1>2, <1>11, <1>12

\* A frame is put at the end of the stream.
LEMMA FrameSent ==
  ASSUME NEW got \in Seq(Sendable), NEW ms \in Seq(Sendable), Len(got) <= Len(ms),
         NEW bytes \in Seq(Byte), NEW m \in Sendable, Framed(got, ms, bytes, {})
  PROVE  Framed(got, Append(ms, m), bytes \o Encode(m), {})
<1> DEFINE g   == Len(got)
           n   == Len(ms)
           b   == Encode(m)
           all == bytes \o b
           more == Append(ms, m)
<1>1. g \in Nat /\ n \in Nat /\ g <= n /\ Len(bytes) \in Nat
  OBVIOUS
<1>2. b \in Seq(Byte) /\ Len(b) \in Nat
  BY FrameIs DEF FrameIn
<1>3. /\ Len(all) = Len(bytes) + Len(b)
      /\ \A i \in 1 .. Len(bytes) : all[i] = bytes[i]
      /\ \A i \in 1 .. Len(b) : all[Len(bytes) + i] = b[i]
  <2> HIDE DEF b
  <2> QED BY <1>2, JoinedIs DEF Joined
<1>4. /\ Len(more) = n + 1 /\ more[n + 1] = m
      /\ \A k \in 1 .. n : more[k] = ms[k]
  OBVIOUS
<1>5. PICK cut \in [0 .. n -> Int] : Cuts(cut, got, ms, bytes) /\ cut[n] = Len(bytes)
  BY DEF Framed
<1> HIDE DEF all, more
<1>6. /\ cut[g] = 0
      /\ \A j, k \in g .. n : j <= k => cut[j] <= cut[k]
  BY <1>5 DEF Cuts
<1>7. \A k \in g + 1 .. n : cut[k] = cut[k - 1] + Len(Encode(ms[k]))
  BY <1>5 DEF Cuts
<1>8. \A k \in g + 1 .. n : \A i \in 1 .. Len(Encode(ms[k])) :
        bytes[cut[k - 1] + i] = Encode(ms[k])[i]
  BY <1>5 DEF Cuts
<1>9. \A k \in 0 .. n : cut[k] \in Int
  OBVIOUS
<1> DEFINE new == [k \in 0 .. n + 1 |-> IF k <= n THEN cut[k] ELSE Len(bytes) + Len(b)]
<1> HIDE DEF b
<1>10. /\ new \in [0 .. n + 1 -> Int]
       /\ \A k \in 0 .. n : new[k] = cut[k]
       /\ new[n + 1] = Len(bytes) + Len(b)
  BY <1>1, <1>2, <1>9
<1> HIDE DEF new
<1>11. Cuts(new, got, more, all)
  <2>1. new[g] = 0 /\ new[n + 1] = Len(all)
    BY <1>1, <1>3, <1>6, <1>10
  <2>2. ASSUME NEW j \in g .. n + 1, NEW k \in g .. n + 1, j <= k
        PROVE  new[j] <= new[k]
    <3>1. CASE k <= n
      BY <1>1, <1>6, <1>10, <2>2, <3>1
    <3>2. CASE k = n + 1 /\ j <= n
      <4>1. j \in g .. n /\ n \in g .. n /\ j \in 0 .. n
        BY <1>1, <3>2
      <4>2. cut[j] <= cut[n]
        BY <1>6, <4>1
      <4> QED BY <1>2, <1>5, <1>9, <1>10, <3>2, <4>1, <4>2
    <3>3. CASE k = n + 1 /\ j = n + 1
      BY <1>1, <1>2, <1>10, <3>3
    <3> QED BY <1>1, <2>2, <3>1, <3>2, <3>3
  <2>3. ASSUME NEW k \in g + 1 .. n + 1
        PROVE  /\ new[k] = new[k - 1] + Len(Encode(more[k]))
               /\ \A i \in 1 .. Len(Encode(more[k])) : all[new[k - 1] + i] = Encode(more[k])[i]
    <3>1. CASE k = n + 1
      <4>1. new[k - 1] = Len(bytes)
        <5>1. k - 1 = n /\ n \in 0 .. n
          BY <1>1, <3>1
        <5> QED BY <1>5, <1>10, <5>1
      <4>2. new[k] = Len(bytes) + Len(b) /\ Encode(more[k]) = b
        BY <1>4, <1>10, <3>1 DEF b
      <4> QED BY <1>3, <4>1, <4>2
    <3>2. CASE k \in g + 1 .. n
      <4>1. k \in 0 .. n /\ k - 1 \in 0 .. n /\ k \in 1 .. n /\ k - 1 \in g .. n /\ k \in g .. n
            /\ n \in g .. n /\ g \in g .. n /\ g <= k - 1 /\ k <= n
        BY <1>1, <3>2
      <4>2. new[k] = cut[k] /\ new[k - 1] = cut[k - 1] /\ more[k] = ms[k]
        BY <1>4, <1>10, <4>1
      <4>3. cut[k] = cut[k - 1] + Len(Encode(ms[k])) /\ Len(Encode(ms[k])) \in Nat
        BY <1>7, <3>2, <4>1, FrameIs, MaxFrameIs DEF FrameIn
      <4>4. 0 <= cut[k - 1] /\ cut[k] <= Len(bytes)
        BY <1>5, <1>6, <4>1
      <4>5. ASSUME NEW i \in 1 .. Len(Encode(ms[k]))
            PROVE  all[cut[k - 1] + i] = Encode(ms[k])[i]
        <5> DEFINE c == cut[k - 1]
                   l == Len(Encode(ms[k]))
        <5>1. /\ c \in Int /\ l \in Nat /\ i \in 1 .. l /\ 0 <= c /\ c + l <= Len(bytes)
          BY <1>9, <4>1, <4>3, <4>4
        <5> HIDE DEF c, l
        <5>2. c + i \in 1 .. Len(bytes)
          BY <1>1, <5>1
        <5>3. cut[k - 1] + i \in 1 .. Len(bytes)
          BY <5>2 DEF c
        <5> QED BY <1>3, <1>8, <3>2, <5>3
      <4>6. new[k] = new[k - 1] + Len(Encode(more[k]))
        BY <4>2, <4>3
      <4>7. Encode(more[k]) = Encode(ms[k]) /\ new[k - 1] = cut[k - 1]
        BY <4>2
      <4> QED BY <4>5, <4>6, <4>7
    <3>3. k = n + 1 \/ k \in g + 1 .. n
      BY <1>1
    <3> QED BY <3>1, <3>2, <3>3
  <2>4. new[n + 1] <= Len(all)
    BY <1>1, <1>2, <2>1, <1>10
  <2> QED BY <1>4, <2>1, <2>2, <2>3, <2>4 DEF Cuts
<1>12. new[Len(more)] = Len(all)
  BY <1>3, <1>4, <1>10
<1>13. Framed(got, more, all, {})
  BY <1>4, <1>10, <1>11, <1>12 DEF Framed
<1> QED BY <1>13 DEF all, b, more

\* The client ends, with a part of a frame on its way or none.
LEMMA FrameCutOff ==
  ASSUME NEW got \in Seq(Sendable), NEW ms \in Seq(Sendable), Len(got) <= Len(ms),
         NEW bytes \in Seq(Byte), NEW m \in Sendable, Framed(got, ms, bytes, {}),
         NEW k \in Nat, k < Len(Encode(m))
  PROVE  Framed(got, ms, bytes \o First(Encode(m), k), Sendable)
<1> DEFINE g   == Len(got)
           n   == Len(ms)
           b   == Encode(m)
           f   == First(b, k)
           all == bytes \o f
<1>1. g \in Nat /\ n \in Nat /\ g <= n /\ Len(bytes) \in Nat
  OBVIOUS
<1>2. b \in Seq(Byte) /\ Len(b) \in Nat
  BY FrameIs DEF FrameIn
<1>3. f \in Seq(Byte) /\ Len(f) = k /\ \A i \in 1 .. k : f[i] = b[i]
  <2>1. k \in 0 .. Len(b)
    BY <1>2
  <2> HIDE DEF b
  <2>2. Taking(b, k, Byte)
    BY <1>2, <2>1, TakingIs
  <2> QED BY <2>2 DEF Taking
<1>4. /\ Len(all) = Len(bytes) + k
      /\ \A i \in 1 .. Len(bytes) : all[i] = bytes[i]
      /\ \A i \in 1 .. k : all[Len(bytes) + i] = f[i]
  <2> HIDE DEF f
  <2>1. Joined(bytes, f, Byte)
    BY <1>3, JoinedIs
  <2> QED BY <1>3, <2>1 DEF Joined
<1>5. PICK cut \in [0 .. n -> Int] : Cuts(cut, got, ms, bytes) /\ cut[n] = Len(bytes)
  BY DEF Framed
<1> HIDE DEF all, f, b
<1>6. Cuts(cut, got, ms, all)
  <2>1. ASSUME NEW j \in g + 1 .. n
        PROVE  \A i \in 1 .. Len(Encode(ms[j])) : all[cut[j - 1] + i] = Encode(ms[j])[i]
    <3>1. j - 1 \in 0 .. n /\ j \in 1 .. n /\ j - 1 \in g .. n /\ j \in g .. n
            /\ n \in g .. n /\ g \in g .. n /\ g <= j - 1 /\ j <= n
      BY <1>1
    <3>2. cut[j] = cut[j - 1] + Len(Encode(ms[j])) /\ Len(Encode(ms[j])) \in Nat
      BY <1>5, <3>1, FrameIs, MaxFrameIs DEF FrameIn, Cuts
    <3>3. 0 <= cut[j - 1] /\ cut[j] <= Len(bytes)
      BY <1>5, <3>1 DEF Cuts
    <3>4. ASSUME NEW i \in 1 .. Len(Encode(ms[j]))
          PROVE  all[cut[j - 1] + i] = Encode(ms[j])[i]
      <4>1. cut[j - 1] \in Int
        BY <3>1
      <4>3. cut[j - 1] + i \in 1 .. Len(bytes)
        BY <1>1, <3>2, <3>3, <4>1
      <4>2. bytes[cut[j - 1] + i] = Encode(ms[j])[i]
        BY <1>5 DEF Cuts
      <4> QED BY <1>4, <4>2, <4>3
    <3> QED BY <3>4
  <2>2. cut[n] <= Len(all)
    BY <1>1, <1>4, <1>5
  <2> QED BY <1>5, <2>1, <2>2 DEF Cuts
<1>7. Begun(m, all, cut[n])
  BY <1>1, <1>2, <1>3, <1>4, <1>5 DEF Begun, b
<1>8. Framed(got, ms, all, Sendable)
  BY <1>6, <1>7 DEF Framed
<1> QED BY <1>8 DEF all, f, b

\* What a reader makes of its buffer, the beginning of such a stream: it waits, with
\* room left, or reads the next message that was sent, and the rest is as before.
Understood(got, ms, buf, rest, part) ==
  \/ Decode(buf) = Wait /\ Len(buf) < MaxFrame + 2
  \/ \E m \in Sendable, u \in 0 .. Len(buf) :
       /\ Decode(buf) = [ret |-> 1, msg |-> m, used |-> u]
       /\ Append(got, m) \in Seq(Sendable) /\ IsPrefix(Append(got, m), ms)
       /\ Framed(Append(got, m), ms, Rest(buf, u) \o rest, part)

LEMMA FrameRead ==
  ASSUME NEW got \in Seq(Sendable), NEW ms \in Seq(Sendable), IsPrefix(got, ms),
         NEW buf \in Seq(Byte), NEW rest \in Seq(Byte), NEW part \in SUBSET Sendable,
         Framed(got, ms, buf \o rest, part)
  PROVE  Understood(got, ms, buf, rest, part)
<1> DEFINE g     == Len(got)
           n     == Len(ms)
           bytes == buf \o rest
<1>1. g \in Nat /\ n \in Nat /\ g <= n /\ Len(buf) \in Nat /\ Len(rest) \in Nat
  BY DEF IsPrefix
<1>2. /\ bytes \in Seq(Byte) /\ Len(bytes) = Len(buf) + Len(rest)
      /\ \A i \in 1 .. Len(buf) : bytes[i] = buf[i]
      /\ \A i \in 1 .. Len(rest) : bytes[Len(buf) + i] = rest[i]
  <2>1. Joined(buf, rest, Byte)
    BY JoinedIs
  <2> QED BY <2>1 DEF Joined
<1> HIDE DEF bytes
<1>3. Framed(got, ms, bytes, part)
  BY DEF bytes
<1>4. PICK cut \in [0 .. n -> Int] :
        /\ Cuts(cut, got, ms, bytes)
        /\ \/ cut[n] = Len(bytes)
           \/ \E m \in part : Begun(m, bytes, cut[n])
  BY <1>3 DEF Framed
<1>5. CASE g < n
  <2> DEFINE m == ms[g + 1]
             b == Encode(m)
             u == Len(b)
  <2>1. m \in Sendable /\ g + 1 \in g + 1 .. n /\ g \in g .. n /\ g + 1 \in g .. n
        /\ (g + 1) - 1 = g
    BY <1>1, <1>5
  <2>2. FrameIn(MaxFrame, b) /\ Decode(b) = [ret |-> 1, msg |-> m, used |-> u] /\ u \in Nat
        /\ u <= MaxFrame + 2
    <3>1. FrameIn(MaxFrame, b) /\ Decode(b) = [ret |-> 1, msg |-> m, used |-> u]
      BY <2>1, FrameIs
    <3> HIDE DEF b, m
    <3>2. u \in Nat /\ u <= MaxFrame + 2
      BY <3>1, MaxFrameIs DEF FrameIn
    <3> QED BY <3>1, <3>2
  <2>3. \A i \in 1 .. u : bytes[cut[g] + i] = b[i]
    BY <1>4, <2>1 DEF Cuts
  <2>4. cut[g] = 0 /\ cut[g + 1] = cut[g] + u /\ cut[g + 1] <= Len(bytes)
    <3>1. n \in g .. n /\ g + 1 <= n
      BY <1>1, <1>5
    <3>2. cut[g + 1] <= cut[n] /\ cut[n] <= Len(bytes)
      BY <1>4, <2>1, <3>1 DEF Cuts
    <3>3. cut[g + 1] \in Int /\ cut[n] \in Int /\ Len(bytes) \in Int
      <4>1. g + 1 \in 0 .. n /\ n \in 0 .. n
        BY <1>1, <1>5
      <4>2. cut[g + 1] \in Int /\ cut[n] \in Int
        BY <4>1
      <4>3. Len(bytes) \in Int
        BY <1>2
      <4> QED BY <4>2, <4>3
    <3>4. cut[g] = 0 /\ cut[g + 1] = cut[g] + u
      BY <1>4, <2>1 DEF Cuts
    <3> QED BY <3>2, <3>3, <3>4
  <2> HIDE DEF b, u, m
  <2>5. u <= Len(bytes) /\ \A i \in 1 .. u : bytes[i] = b[i]
    BY <2>2, <2>3, <2>4
  <2>6. u = Len(b)
    BY DEF u
  <2>7. Agree(buf, b)
    BY <1>1, <1>2, <2>2, <2>5, <2>6 DEF Agree, Least
  <2>8. CASE Len(buf) < u
    <3>1. Decode(buf) = Wait
      BY <2>2, <2>6, <2>7, <2>8, DecodeWaits
    <3> QED BY <1>1, <2>2, <2>8, <3>1, MaxFrameIs DEF Understood
  <2>9. CASE Len(buf) >= u
    <3>1. Decode(buf) = [ret |-> 1, msg |-> m, used |-> u]
      BY <2>2, <2>6, <2>7, <2>9, DecodeWhole
    <3>2. u \in 0 .. Len(buf)
      BY <1>1, <2>2, <2>9
    <3>3. /\ Append(got, m) \in Seq(Sendable) /\ Len(Append(got, m)) = g + 1
          /\ IsPrefix(Append(got, m), ms)
      BY <1>5, NextGot DEF m
    <3> DEFINE left == Rest(buf, u) \o rest
    <3>4. /\ left \in Seq(Byte) /\ Len(left) = Len(bytes) - u
          /\ \A i \in 1 .. Len(bytes) - u : left[i] = bytes[u + i]
      <4>1. Taking(buf, u, Byte)
        BY <3>2, TakingIs
      <4>2. /\ Rest(buf, u) \in Seq(Byte) /\ Len(Rest(buf, u)) = Len(buf) - u
            /\ \A i \in 1 .. Len(buf) - u : Rest(buf, u)[i] = buf[u + i]
        BY <4>1 DEF Taking
      <4>3. Joined(Rest(buf, u), rest, Byte)
        BY <4>2, JoinedIs
      <4>4. /\ left \in Seq(Byte) /\ Len(left) = Len(buf) - u + Len(rest)
            /\ \A i \in 1 .. Len(buf) - u : left[i] = buf[u + i]
            /\ \A i \in 1 .. Len(rest) : left[Len(buf) - u + i] = rest[i]
        BY <4>2, <4>3 DEF Joined
      <4>5. ASSUME NEW i \in 1 .. Len(bytes) - u
            PROVE  left[i] = bytes[u + i]
        <5>1. CASE i <= Len(buf) - u
          <6>1. i \in 1 .. Len(buf) - u /\ u + i \in 1 .. Len(buf)
            BY <1>1, <2>2, <3>2, <5>1
          <6> QED BY <1>2, <4>4, <6>1
        <5>2. CASE i > Len(buf) - u
          <6> DEFINE j == i - (Len(buf) - u)
          <6>1. j \in 1 .. Len(rest) /\ Len(buf) - u + j = i /\ Len(buf) + j = u + i
            BY <1>1, <1>2, <2>2, <5>2
          <6> HIDE DEF j
          <6>2. left[Len(buf) - u + j] = rest[j] /\ bytes[Len(buf) + j] = rest[j]
            BY <1>2, <4>4, <6>1
          <6> QED BY <6>1, <6>2
        <5>3. i <= Len(buf) - u \/ i > Len(buf) - u
          BY <1>1, <1>2, <2>2
        <5> QED BY <5>1, <5>2, <5>3
      <4>6. Len(left) = Len(bytes) - u
        BY <1>1, <1>2, <2>2, <4>4
      <4> QED BY <4>4, <4>5, <4>6
    <3> HIDE DEF left
    <3>5. u = Len(Encode(ms[Len(got) + 1]))
      BY DEF u, b, m
    <3>6. Framed(Append(got, m), ms, left, part)
      <4> DEFINE then == Append(got, m)
      <4>1. /\ then \in Seq(Sendable) /\ Len(then) = Len(got) + 1 /\ u \in Nat
            /\ left \in Seq(Byte) /\ bytes \in Seq(Byte) /\ Len(got) < Len(ms)
        BY <1>2, <1>5, <2>2, <3>3, <3>4
      <4>2. Len(left) = Len(bytes) - u /\ \A i \in 1 .. Len(bytes) - u : left[i] = bytes[u + i]
        BY <3>4
      <4> HIDE DEF then, g, n
      <4>3. Framed(then, ms, left, part)
        BY <1>3, <3>5, <4>1, <4>2, FrameTaken
      <4> QED BY <4>3 DEF then
    <3> QED BY <2>1, <3>1, <3>2, <3>3, <3>6 DEF Understood, left, m
  <2> QED BY <1>1, <2>2, <2>8, <2>9
<1>6. CASE g = n
  <2>1. cut[n] = 0
    BY <1>4, <1>6 DEF Cuts
  <2>2. CASE cut[n] = Len(bytes)
    <3>1. Len(buf) = 0
      BY <1>1, <1>2, <2>1, <2>2
    <3>2. ~(Len(buf) >= 2) /\ ~Whole(buf)
      BY <3>1 DEF Whole
    <3>3. Decode(buf) = Wait
      BY <3>2 DEF Decode, DecodeIn
    <3> QED BY <3>1, <3>3, MaxFrameIs DEF Understood
  <2>3. CASE \E m \in part : Begun(m, bytes, cut[n])
    <3>1. PICK m \in part : Begun(m, bytes, 0)
      BY <2>1, <2>3
    <3> DEFINE b == Encode(m)
    <3>2. FrameIn(MaxFrame, b) /\ Len(b) \in Nat /\ Len(b) <= MaxFrame + 2
      BY FrameIs, MaxFrameIs DEF FrameIn
    <3>3. Len(bytes) < Len(b) /\ \A i \in 1 .. Len(bytes) : bytes[i] = b[i]
      <4>1. Len(bytes) - 0 = Len(bytes) /\ \A i \in 1 .. Len(bytes) : 0 + i = i
        BY <1>1, <1>2
      <4> QED BY <3>1, <4>1 DEF Begun
    <3> HIDE DEF b
    <3>4. Len(buf) < Len(b) /\ Agree(buf, b)
      BY <1>1, <1>2, <3>2, <3>3 DEF Agree, Least
    <3>5. Decode(buf) = Wait
      BY <3>2, <3>4, DecodeWaits
    <3> QED BY <1>1, <3>2, <3>4, <3>5, MaxFrameIs DEF Understood
  <2> QED BY <1>4, <2>2, <2>3
<1> QED BY <1>1, <1>5, <1>6

-----------------------------------------------------------------------------
(* One action after the other.                                             *)

LEMMA WireShapeIs ==
  ASSUME WireShape
  PROVE  /\ sent.down \in Seq(Sendable) /\ sent.up \in Seq(Sendable)
         /\ sent = [down |-> sent.down, up |-> sent.up]
         /\ net.down \in Seq(Byte) /\ net.up \in Seq(Byte)
         /\ net = [down |-> net.down, up |-> net.up]
         /\ Len(net.down) \in 0 .. Wire /\ Len(net.up) \in 0 .. Wire
         /\ srv.in \in Seq(Byte) /\ cli.in \in Seq(Byte) /\ out \in Seq(Byte)
         /\ srv = [in |-> srv.in, phase |-> srv.phase, got |-> srv.got]
         /\ cli = [in |-> cli.in, phase |-> cli.phase, got |-> cli.got]
BY WireAssumption DEF WireShape, Reader, WireTypeOK

\* What does not touch the bytes that go one way leaves their frames alone.
LEMMA UpStill ==
  ASSUME UpOK, srv'.in = srv.in, srv'.got = srv.got, sent'.up = sent.up, net'.up = net.up,
         (cli.phase = "exit") <=> (cli'.phase = "exit")
  PROVE  UpOK'
<1>1. Up' = Up /\ Unfinished' = Unfinished
  BY DEF Up, Unfinished
<1> QED BY <1>1 DEF UpOK, Followed

LEMMA DownStill ==
  ASSUME DownOK, cli'.in = cli.in, cli'.got = cli.got, sent'.down = sent.down,
         net'.down = net.down, out' = out, cli'.phase # "malformed"
  PROVE  DownOK'
<1>1. Down' = Down
  BY DEF Down
<1> QED BY <1>1 DEF DownOK, Followed

\* flush_conn moves bytes from the server's buffer under way, or drops the client.
LEMMA Flushed ==
  ASSUME WireShape, NEW o \in Seq(Byte), Flush(o)
  PROVE  /\ out' \in Seq(Byte) /\ Len(out') <= Len(o)
         /\ net' \in [down : Seq(Byte), up : Seq(Byte)] /\ net'.up = net.up
         /\ Len(net'.down) <= Wire
         /\ \/ drop' = TRUE
            \/ drop' = drop /\ (cli.in \o net'.down) \o out' = (cli.in \o net.down) \o o
<1>1. /\ net.down \in Seq(Byte) /\ net.up \in Seq(Byte) /\ cli.in \in Seq(Byte)
      /\ net = [down |-> net.down, up |-> net.up]
      /\ Len(net.down) \in 0 .. Wire /\ Wire \in Nat
  BY WireShapeIs, WireAssumption
<1>2. CASE cli.phase = "exit"
  <2>1. out' = <<>> /\ drop' = TRUE /\ net' = net
    BY <1>2 DEF Flush
  <2> QED BY <1>1, <2>1
<1>3. CASE cli.phase # "exit"
  <2> DEFINE n == Least(Len(o), Wire - Len(net.down))
  <2>1. n \in 0 .. Len(o) /\ Len(net.down) + n <= Wire
    BY <1>1 DEF Least
  <2>2. out' = Rest(o, n) /\ net' = [net EXCEPT !.down = @ \o First(o, n)] /\ drop' = drop
    BY <1>3 DEF Flush
  <2> HIDE DEF n
  <2>3. /\ First(o, n) \in Seq(Byte) /\ Len(First(o, n)) = n
        /\ Rest(o, n) \in Seq(Byte) /\ Len(Rest(o, n)) = Len(o) - n
    BY <2>1, TakingIs DEF Taking
  <2>4. net'.down = net.down \o First(o, n) /\ net'.up = net.up
        /\ net' = [down |-> net'.down, up |-> net'.up]
    BY <1>1, <2>2
  <2>5. net'.down \in Seq(Byte) /\ Len(net'.down) = Len(net.down) + n
    <3> DEFINE d == net.down
               f == First(o, n)
    <3> HIDE DEF d, f
    <3>1. Joined(d, f, Byte)
      BY <1>1, <2>3, JoinedIs DEF d, f
    <3>2. d \o f \in Seq(Byte) /\ Len(d \o f) = Len(d) + Len(f)
      BY <3>1 DEF Joined
    <3> QED BY <2>3, <2>4, <3>2 DEF d, f
  <2>6. (cli.in \o net'.down) \o out' = (cli.in \o net.down) \o o
    <3> DEFINE a == cli.in
               d == net.down
    <3>1. a \in Seq(Byte) /\ d \in Seq(Byte)
      BY <1>1
    <3>2. n \in 0 .. Len(o)
      BY <2>1
    <3> HIDE DEF a, d
    <3>3. (a \o (d \o First(o, n))) \o Rest(o, n) = (a \o d) \o o
      BY <3>1, <3>2, MovedOn, SMTT(30)
    <3> QED BY <2>2, <2>4, <3>3 DEF a, d
  <2>7. Len(out') <= Len(o)
    BY <2>1, <2>2, <2>3
  <2> QED BY <1>1, <2>1, <2>2, <2>3, <2>4, <2>5, <2>6, <2>7
<1> QED BY <1>2, <1>3

LEMMA WireStarts == Init => WireInv
<1> SUFFICES ASSUME Init
             PROVE  WireInv
  OBVIOUS
<1>1. /\ sent = [down |-> <<>>, up |-> <<>>] /\ net = [down |-> <<>>, up |-> <<>>]
      /\ out = <<>> /\ drop = FALSE /\ shut = FALSE
      /\ srv = [in |-> <<>>, phase |-> "read", got |-> <<>>]
      /\ cli = [in |-> <<>>, phase |-> "read", got |-> <<>>]
  BY DEF Init, Reading
<1>2. /\ InBuf \in Int /\ OutBuf \in Int /\ ClientBuf \in Int
      /\ InBuf > 0 /\ OutBuf >= 0 /\ ClientBuf >= 0 /\ Wire \in Nat
  BY WireAssumption, MaxFrameIs
<1>3. Framed(<<>>, <<>>, <<>>, {})
  <2> DEFINE cut == [k \in 0 .. 0 |-> 0]
  <2>1. Len(<<>>) = 0 /\ cut \in [0 .. 0 -> Int] /\ cut[0] = 0
    OBVIOUS
  <2> HIDE DEF cut
  <2>2. Cuts(cut, <<>>, <<>>, <<>>)
    BY <2>1 DEF Cuts
  <2> QED BY <2>1, <2>2 DEF Framed
<1>4. Up = <<>> /\ Down = <<>> /\ Unfinished = {}
  BY <1>1 DEF Up, Down, Unfinished
<1>5. IsPrefix(<<>>, <<>>)
  BY DEF IsPrefix
<1>6. UpOK /\ DownOK
  BY <1>1, <1>3, <1>4, <1>5 DEF UpOK, DownOK, Followed
<1>7. WireShape
  <2>1. <<>> \in Seq(Byte) /\ <<>> \in Seq(Sendable) /\ Len(<<>>) = 0
    OBVIOUS
  <2>2. sent \in [down : Seq(Sendable), up : Seq(Sendable)]
        /\ net \in [down : Seq(Byte), up : Seq(Byte)]
    BY <1>1, <2>1
  <2>3. Reader(srv) /\ Reader(cli)
    BY <1>1, <2>1 DEF Reader
  <2>4. net.down = <<>> /\ net.up = <<>> /\ srv.in = <<>> /\ cli.in = <<>>
        /\ srv.phase = "read" /\ cli.phase = "read"
    BY <1>1
  <2>5. WireTypeOK
    <3>1. drop \in BOOLEAN /\ shut \in BOOLEAN
      BY <1>1, Zenon
    <3>2. out \in Seq(Byte) /\ Len(out) <= OutBuf
      BY <1>1, <1>2, <2>1
    <3>3. \A bytes \in {net.down, net.up} : bytes \in Seq(Byte) /\ Len(bytes) <= Wire
      <4>1. net.down \in Seq(Byte) /\ net.up \in Seq(Byte)
        BY <2>1, <2>4
      <4>2. Len(net.down) <= Wire /\ Len(net.up) <= Wire
        BY <1>2, <2>1, <2>4
      <4> QED BY <4>1, <4>2
    <3>4. Len(srv.in) <= InBuf /\ Len(cli.in) <= ClientBuf
          /\ srv.in \in Seq(Byte) /\ cli.in \in Seq(Byte)
      BY <1>2, <2>1, <2>4
    <3>5. srv.phase \in Phases \ {"exit"} /\ cli.phase \in Phases
      BY <2>4 DEF Phases
    <3> QED BY <3>1, <3>2, <3>3, <3>4, <3>5 DEF WireTypeOK
  <2> QED BY <2>2, <2>3, <2>5 DEF WireShape
<1> QED BY <1>1, <1>2, <1>6, <1>7 DEF WireInv, SoundIsServed, RoomLeft

\* What a reply, a flush and the sweep change: what goes down.
Downward ==
  /\ UNCHANGED <<srv, cli>> /\ sent'.up = sent.up
  /\ sent' \in [down : Seq(Sendable), up : Seq(Sendable)]
  /\ out' \in Seq(Byte) /\ Len(out') <= OutBuf
  /\ net' \in [down : Seq(Byte), up : Seq(Byte)] /\ net'.up = net.up
  /\ Len(net'.down) <= Wire
  /\ shut' \in BOOLEAN
  /\ drop' = TRUE \/ (drop' = drop /\ (DownOK => DownOK'))

LEMMA DownwardKeeps ==
  ASSUME WireInv, Downward
  PROVE  WireInv'
<1>1. WireShape /\ UpOK /\ SoundIsServed /\ RoomLeft /\ (drop \/ DownOK)
  BY DEF WireInv
<1>2. UpOK'
  BY <1>1, UpStill DEF Downward
<1>3. SoundIsServed'
  BY <1>1 DEF Downward, SoundIsServed
<1>4. drop' \in BOOLEAN
  <2>1. drop \in BOOLEAN
    BY <1>1 DEF WireShape, WireTypeOK
  <2> QED BY <2>1, Zenon DEF Downward
<1>5. drop' \/ DownOK'
  <2>1. drop' = TRUE \/ (drop' = drop /\ (DownOK => DownOK'))
    BY DEF Downward
  <2> QED BY <1>1, <2>1, Zenon
<1>6. drop => drop'
  BY Zenon DEF Downward
<1>7. RoomLeft'
  <2>1. srv'.phase = srv.phase /\ srv'.in = srv.in
    BY DEF Downward
  <2>2. srv'.phase = "read" => drop \/ Len(srv'.in) < InBuf
    BY <1>1, <2>1 DEF RoomLeft
  <2> QED BY <1>6, <2>2, Zenon DEF RoomLeft
<1>8. WireTypeOK'
  <2>1. Len(net'.up) <= Wire /\ srv.phase \in Phases \ {"exit"} /\ cli.phase \in Phases
        /\ srv.in \in Seq(Byte) /\ Len(srv.in) <= InBuf
        /\ cli.in \in Seq(Byte) /\ Len(cli.in) <= ClientBuf
    BY <1>1 DEF Downward, WireShape, WireTypeOK
  <2>2. shut' \in BOOLEAN
    BY DEF Downward
  <2>3. UNCHANGED <<srv, cli>> /\ out' \in Seq(Byte) /\ Len(out') <= OutBuf
        /\ net'.down \in Seq(Byte) /\ net'.up \in Seq(Byte) /\ Len(net'.down) <= Wire
    BY DEF Downward
  <2> QED BY <1>4, <2>1, <2>2, <2>3 DEF WireTypeOK
<1>9. WireShape'
  <2>1. Reader(srv) /\ Reader(cli)
    BY <1>1 DEF WireShape
  <2> QED BY <1>8, <2>1 DEF Downward, WireShape, Reader
<1> QED BY <1>2, <1>3, <1>5, <1>7, <1>9 DEF WireInv

LEMMA ReplyStep == WireInv /\ Reply => WireInv'
<1> SUFFICES ASSUME WireInv, Reply
             PROVE  Downward
  BY DownwardKeeps
<1>1. PICK m \in Replies : Encode(m) # <<>> /\ Send(m)
  BY DEF Reply
<1> DEFINE b == Encode(m)
<1>2. m \in Sendable /\ b \in Seq(Byte)
  BY <1>1, EncodeIs DEF Sendable
<1>3. WireShape
  BY DEF WireInv
<1>4. /\ sent.down \in Seq(Sendable) /\ sent.up \in Seq(Sendable)
      /\ sent = [down |-> sent.down, up |-> sent.up]
      /\ out \in Seq(Byte) /\ net.down \in Seq(Byte) /\ cli.in \in Seq(Byte)
      /\ net \in [down : Seq(Byte), up : Seq(Byte)] /\ Len(net.down) <= Wire
      /\ OutBuf \in Nat /\ shut \in BOOLEAN
  BY <1>3, WireShapeIs, WireAssumption DEF WireShape, WireTypeOK
<1>5. /\ sent' = [sent EXCEPT !.down = Append(@, m)]
      /\ IF Len(out) + Len(b) > OutBuf
         THEN out' = <<>> /\ drop' = TRUE /\ UNCHANGED net
         ELSE Flush(out \o b)
  BY <1>1 DEF Send
<1>6. sent'.down = Append(sent.down, m) /\ sent'.up = sent.up
      /\ sent' \in [down : Seq(Sendable), up : Seq(Sendable)]
  <2>1. Append(sent.down, m) \in Seq(Sendable)
    BY <1>2, <1>4
  <2>2. sent' = [down |-> Append(sent.down, m), up |-> sent.up]
    BY <1>4, <1>5
  <2> QED BY <1>4, <2>1, <2>2
<1>7. UNCHANGED <<srv, cli>> /\ shut' \in BOOLEAN
  BY <1>4 DEF Reply
<1> HIDE DEF b
<1>8. CASE Len(out) + Len(b) > OutBuf
  <2>1. out' = <<>> /\ net' = net
    BY <1>5, <1>8
  <2>2. drop' = TRUE
    BY <1>5, <1>8
  <2>3. out' \in Seq(Byte) /\ Len(out') <= OutBuf
    BY <1>4, <2>1
  <2> QED BY <1>4, <1>6, <1>7, <2>1, <2>2, <2>3 DEF Downward
<1>9. CASE ~(Len(out) + Len(b) > OutBuf)
  <2>1. Joined(out, b, Byte)
    BY <1>2, <1>4, JoinedIs DEF b
  <2>2. out \o b \in Seq(Byte) /\ Len(out \o b) <= OutBuf /\ Flush(out \o b)
    BY <1>2, <1>4, <1>5, <1>9, <2>1 DEF Joined, b
  <2>3. /\ out' \in Seq(Byte) /\ Len(out') <= OutBuf
        /\ net' \in [down : Seq(Byte), up : Seq(Byte)] /\ net'.up = net.up
        /\ Len(net'.down) <= Wire
    <3>1. /\ out' \in Seq(Byte) /\ Len(out') <= Len(out \o b)
          /\ net' \in [down : Seq(Byte), up : Seq(Byte)] /\ net'.up = net.up
          /\ Len(net'.down) <= Wire
      BY <1>3, <2>2, Flushed
    <3>2. Len(out') \in Nat /\ Len(out \o b) \in Nat
      BY <2>2, <3>1
    <3> QED BY <1>4, <2>2, <3>1, <3>2
  <2>4. drop' = TRUE \/ (drop' = drop /\ (cli.in \o net'.down) \o out' = (cli.in \o net.down) \o (out \o b))
    BY <1>3, <2>2, Flushed
  <2>5. (cli.in \o net.down) \o (out \o b) = Down \o b
    <3> DEFINE d == cli.in \o net.down
    <3>1. d \in Seq(Byte) /\ out \in Seq(Byte) /\ b \in Seq(Byte)
      BY <1>2, <1>4 DEF b
    <3> HIDE DEF d
    <3>2. d \o (out \o b) = (d \o out) \o b
      BY <3>1, ConcatAssociative
    <3> QED BY <3>2 DEF d, Down
  <2>6. ASSUME (cli.in \o net'.down) \o out' = (cli.in \o net.down) \o (out \o b), DownOK
        PROVE  DownOK'
    <3>1. Down' = Down \o b
      BY <1>7, <2>5, <2>6 DEF Down
    <3>2. Down \in Seq(Byte)
      BY <1>4 DEF Down
    <3>3. cli.got \in Seq(Sendable) /\ IsPrefix(cli.got, sent.down)
          /\ Framed(cli.got, sent.down, Down, {})
      BY <2>6 DEF DownOK, Followed
    <3>4. Len(cli.got) <= Len(sent.down)
      BY <3>3 DEF IsPrefix
    <3>5. Framed(cli.got, Append(sent.down, m), Down \o b, {})
      BY <1>2, <1>4, <3>2, <3>3, <3>4, FrameSent DEF b
    <3>6. IsPrefix(cli.got, Append(sent.down, m))
      BY <1>2, <1>4, <3>3, PrefixGrows
    <3>7. cli' = cli /\ cli.phase # "malformed"
      BY <1>7, <2>6 DEF DownOK
    <3> QED BY <1>6, <3>1, <3>3, <3>5, <3>6, <3>7 DEF DownOK, Followed
  <2>7. drop' = TRUE \/ (drop' = drop /\ (DownOK => DownOK'))
    BY <2>4, <2>6, Zenon
  <2> QED BY <1>6, <1>7, <2>3, <2>7 DEF Downward
<1> QED BY <1>8, <1>9

\* Writable and Sweep: the bytes only move.
LEMMA FlushStep ==
  ASSUME WireInv, Flush(out), UNCHANGED <<sent, srv, cli>>, shut' \in BOOLEAN
  PROVE  WireInv'
<1>1. WireShape
  BY DEF WireInv
<1>2. sent \in [down : Seq(Sendable), up : Seq(Sendable)] /\ out \in Seq(Byte)
      /\ Len(out) <= OutBuf /\ OutBuf \in Nat
  BY <1>1, WireAssumption DEF WireShape, WireTypeOK
<1>3. /\ out' \in Seq(Byte) /\ Len(out') <= Len(out)
      /\ net' \in [down : Seq(Byte), up : Seq(Byte)] /\ net'.up = net.up
      /\ Len(net'.down) <= Wire
  BY <1>1, <1>2, Flushed
<1>4. drop' = TRUE \/ (drop' = drop /\ (cli.in \o net'.down) \o out' = (cli.in \o net.down) \o out)
  BY <1>1, <1>2, Flushed
<1>5. ASSUME (cli.in \o net'.down) \o out' = (cli.in \o net.down) \o out, DownOK
      PROVE  DownOK'
  <2>1. Down' = Down
    BY <1>5 DEF Down
  <2> QED BY <1>5, <2>1 DEF DownOK, Followed
<1>6. drop' = TRUE \/ (drop' = drop /\ (DownOK => DownOK'))
  BY <1>4, <1>5, Zenon
<1>7. Len(out') <= OutBuf
  BY <1>2, <1>3
<1>8. Downward
  BY <1>2, <1>3, <1>6, <1>7 DEF Downward
<1> QED BY <1>8, DownwardKeeps

\* A read puts bytes from the stream into the reader's buffer.
LEMMA TakenIs ==
  ASSUME NEW r, Reader(r), NEW bytes \in Seq(Byte), NEW k \in 0 .. Len(bytes)
  PROVE  /\ Taken(r, First(bytes, k)).in = r.in \o First(bytes, k)
         /\ Taken(r, First(bytes, k)).phase = r.phase /\ Taken(r, First(bytes, k)).got = r.got
         /\ Reader(Taken(r, First(bytes, k)))
         /\ Len(Taken(r, First(bytes, k)).in) = Len(r.in) + k
         /\ Rest(bytes, k) \in Seq(Byte) /\ Len(Rest(bytes, k)) = Len(bytes) - k
         /\ (r.in \o First(bytes, k)) \o Rest(bytes, k) = r.in \o bytes
<1> DEFINE f == First(bytes, k)
           t == Taken(r, f)
<1>1. /\ f \in Seq(Byte) /\ Len(f) = k
      /\ Rest(bytes, k) \in Seq(Byte) /\ Len(Rest(bytes, k)) = Len(bytes) - k
  BY TakingIs DEF Taking
<1>2. r.in \in Seq(Byte) /\ r = [in |-> r.in, phase |-> r.phase, got |-> r.got]
  BY DEF Reader
<1>3. (r.in \o f) \o Rest(bytes, k) = r.in \o bytes
  BY <1>2, Moved
<1> HIDE DEF f
<1>4. r.in \o f \in Seq(Byte) /\ Len(r.in \o f) = Len(r.in) + k
  BY <1>1, <1>2, JoinedIs DEF Joined
<1>5. t = [in |-> r.in \o f, phase |-> r.phase, got |-> r.got]
  <2>1. \E a, b, c : r = [in |-> a, phase |-> b, got |-> c]
    BY <1>2
  <2>2. PICK a, b, c : r = [in |-> a, phase |-> b, got |-> c]
    BY <2>1
  <2>3. r.in = a /\ r.phase = b /\ r.got = c
    BY <2>2
  <2>4. t = [in |-> a \o f, phase |-> b, got |-> c]
    <3>1. t = [[in |-> a, phase |-> b, got |-> c] EXCEPT !.in = @ \o f]
      BY <2>2 DEF Taken
    <3> HIDE DEF t
    <3> QED BY <3>1
  <2> HIDE DEF t
  <2> QED BY <2>3, <2>4
<1>6. t.in = r.in \o f /\ t.phase = r.phase /\ t.got = r.got
  BY <1>5
<1>7. Reader(t)
  BY <1>4, <1>5, <1>6 DEF Reader
<1> QED BY <1>1, <1>3, <1>4, <1>6, <1>7 DEF f

\* The client's reading, as far as the server cannot see it.
Reads ==
  /\ UNCHANGED <<sent, out, drop, shut, srv>>
  /\ net' = [net EXCEPT !.down = net'.down]
  /\ net'.down \in Seq(Byte) /\ Len(net'.down) <= Wire
  /\ Reader(cli)' /\ Len(cli'.in) <= ClientBuf /\ cli'.phase \in Phases
  /\ cli.phase # "exit" /\ cli'.phase # "exit"
  /\ drop \/ DownOK'

LEMMA ReadsKeeps ==
  ASSUME WireInv, Reads
  PROVE  WireInv'
<1>1. WireShape /\ UpOK /\ SoundIsServed /\ RoomLeft
  BY DEF WireInv
<1>2. /\ net.up \in Seq(Byte) /\ net = [down |-> net.down, up |-> net.up]
      /\ Len(net.up) <= Wire
  BY <1>1, WireShapeIs, WireAssumption
<1>3. net'.up = net.up /\ net' \in [down : Seq(Byte), up : Seq(Byte)]
  BY <1>2 DEF Reads
<1>4. UpOK'
  BY <1>1, <1>3, UpStill DEF Reads
<1>5. drop' = drop
  BY DEF Reads
<1>6. drop' \/ DownOK'
  <2>1. drop \/ DownOK'
    BY DEF Reads
  <2> QED BY <1>5, <2>1, Zenon
<1>7. SoundIsServed'
  BY <1>1 DEF Reads, SoundIsServed
<1>8. RoomLeft'
  <2>1. srv'.phase = "read" => drop \/ Len(srv'.in) < InBuf
    BY <1>1 DEF Reads, RoomLeft
  <2> QED BY <1>5, <2>1, Zenon DEF RoomLeft
<1>9. WireTypeOK'
  <2>1. /\ drop \in BOOLEAN /\ shut \in BOOLEAN /\ out \in Seq(Byte) /\ Len(out) <= OutBuf
        /\ srv.phase \in Phases \ {"exit"} /\ srv.in \in Seq(Byte) /\ Len(srv.in) <= InBuf
    BY <1>1 DEF WireShape, WireTypeOK
  <2>2. drop' \in BOOLEAN /\ shut' \in BOOLEAN
    BY <2>1, Zenon DEF Reads
  <2>3. out' = out /\ srv' = srv /\ cli'.in \in Seq(Byte) /\ Len(cli'.in) <= ClientBuf
        /\ cli'.phase \in Phases /\ Len(net'.down) <= Wire
    BY DEF Reads, Reader
  <2> QED BY <1>2, <1>3, <2>1, <2>2, <2>3 DEF WireTypeOK
<1>10. WireShape'
  <2>1. UNCHANGED <<sent, srv>> /\ Reader(cli)'
    BY DEF Reads
  <2> QED BY <1>1, <1>3, <1>9, <2>1 DEF WireShape, Reader
<1> QED BY <1>4, <1>6, <1>7, <1>8, <1>10 DEF WireInv

LEMMA ClientRecvStep == WireInv /\ ClientRecv => WireInv'
<1> SUFFICES ASSUME WireInv, ClientRecv
             PROVE  Reads
  BY ReadsKeeps
<1>1. WireShape /\ (drop \/ DownOK)
  BY DEF WireInv
<1>2. /\ net.down \in Seq(Byte) /\ net = [down |-> net.down, up |-> net.up]
      /\ Len(net.down) <= Wire /\ Wire \in Nat
      /\ Reader(cli) /\ cli.in \in Seq(Byte) /\ Len(cli.in) <= ClientBuf /\ ClientBuf \in Nat
      /\ out \in Seq(Byte)
  BY <1>1, WireShapeIs, WireAssumption DEF WireShape, WireTypeOK
<1>3. cli.phase = "read" /\ UNCHANGED <<sent, out, drop, shut, srv>>
  BY DEF ClientRecv
<1>4. ASSUME NEW k \in Chunks, k <= Least(Len(net.down), ClientBuf - Len(cli.in)),
             cli' = Taken(cli, First(net.down, k)), net' = [net EXCEPT !.down = Rest(@, k)]
      PROVE  Reads
  <2>1. k \in 0 .. Len(net.down) /\ Len(cli.in) + k <= ClientBuf
    BY <1>2, <1>4, WireAssumption DEF Least
  <2>2. /\ cli'.in = cli.in \o First(net.down, k) /\ cli'.phase = "read" /\ cli'.got = cli.got
        /\ Reader(cli') /\ Len(cli'.in) = Len(cli.in) + k
        /\ Rest(net.down, k) \in Seq(Byte) /\ Len(Rest(net.down, k)) = Len(net.down) - k
        /\ (cli.in \o First(net.down, k)) \o Rest(net.down, k) = cli.in \o net.down
    BY <1>2, <1>3, <1>4, <2>1, TakenIs
  <2>3. net'.down = Rest(net.down, k) /\ net' = [net EXCEPT !.down = net'.down]
    BY <1>2, <1>4
  <2>4. Down' = Down
    BY <1>3, <2>2, <2>3 DEF Down
  <2>5. DownOK => DownOK'
    BY <1>3, <2>2, <2>4 DEF DownOK, Followed
  <2>6. drop \/ DownOK'
    BY <1>1, <2>5, Zenon
  <2>7. Len(net'.down) <= Wire /\ Len(cli'.in) <= ClientBuf /\ cli'.phase \in Phases
    BY <1>2, <2>1, <2>2, <2>3 DEF Phases
  <2>8. Reader(cli)'
    BY <2>2 DEF Reader
  <2> QED BY <1>3, <2>2, <2>3, <2>6, <2>7, <2>8 DEF Reads
<1>5. ASSUME cli' = [cli EXCEPT !.phase = "eof"], UNCHANGED net
      PROVE  Reads
  <2>1. cli'.in = cli.in /\ cli'.phase = "eof" /\ cli'.got = cli.got /\ Reader(cli)'
    BY <1>2, <1>5 DEF Reader
  <2>2. net'.down = net.down /\ net' = [net EXCEPT !.down = net'.down]
    BY <1>2, <1>5
  <2>3. DownOK => DownOK'
    BY <1>3, <2>1, <2>2, DownStill DEF DownOK
  <2>4. drop \/ DownOK'
    BY <1>1, <2>3, Zenon
  <2> QED BY <1>2, <1>3, <2>1, <2>2, <2>4 DEF Reads, Phases
<1> QED BY <1>4, <1>5 DEF ClientRecv

LEMMA ClientWaitsStep == WireInv /\ ClientWaits => WireInv'
<1> SUFFICES ASSUME WireInv, ClientWaits
             PROVE  Reads
  BY ReadsKeeps
<1>1. WireShape /\ (drop \/ DownOK)
  BY DEF WireInv
<1>2. /\ net.down \in Seq(Byte) /\ net = [down |-> net.down, up |-> net.up]
      /\ Len(net.down) <= Wire /\ Reader(cli) /\ Len(cli.in) <= ClientBuf
  BY <1>1, WireShapeIs, WireAssumption DEF WireShape, WireTypeOK
<1>3. /\ cli.phase = "read" /\ UNCHANGED <<sent, out, drop, shut, srv>> /\ net' = net
      /\ cli' = [cli EXCEPT !.phase = "decode"]
  BY DEF ClientWaits
<1>4. cli'.in = cli.in /\ cli'.phase = "decode" /\ cli'.got = cli.got /\ Reader(cli)'
  BY <1>2, <1>3 DEF Reader
<1>5. net'.down = net.down /\ net' = [net EXCEPT !.down = net'.down]
  BY <1>2, <1>3
<1>6. DownOK => DownOK'
  BY <1>3, <1>4, <1>5, DownStill DEF DownOK
<1>7. drop \/ DownOK'
  BY <1>1, <1>6, Zenon
<1> QED BY <1>2, <1>3, <1>4, <1>5, <1>7 DEF Reads, Phases

\* Whatever is in a buffer, a frame that is taken from it was in it.
LEMMA DecodeIs ==
  ASSUME NEW buf \in Seq(Byte)
  PROVE  \/ Decode(buf) = Wait \/ Decode(buf) = Bad
         \/ \E m : \E u \in 0 .. Len(buf) : Decode(buf) = [ret |-> 1, msg |-> m, used |-> u]
<1> DEFINE known   == {t \in Types : TypeByte[t] = buf[3]}
           type    == CHOOSE t \in known : TRUE
           payload == SubSeq(buf, 4, 2 + FrameLen(buf))
           bad     == known = {} \/ ~WellSized(type, payload)
           read    == Parsed(type, payload)
           good    == [ret |-> 1, msg |-> read, used |-> 2 + FrameLen(buf)]
<1>1. CASE Len(buf) >= 2 /\ FrameLen(buf) \notin 1 .. MaxFrame
  BY <1>1 DEF Decode, DecodeIn
<1>2. CASE ~(Len(buf) >= 2 /\ FrameLen(buf) \notin 1 .. MaxFrame) /\ ~Whole(buf)
  BY <1>2 DEF Decode, DecodeIn
<1>3. CASE ~(Len(buf) >= 2 /\ FrameLen(buf) \notin 1 .. MaxFrame) /\ Whole(buf)
  <2>1. Decode(buf) = IF bad THEN Bad ELSE good
    BY <1>3 DEF Decode, DecodeIn
  <2>2. FrameLen(buf) \in 1 .. MaxFrame /\ Len(buf) >= 2 + FrameLen(buf) /\ MaxFrame \in Nat
    BY <1>3, MaxFrameIs DEF Whole
  <2>3. 2 + FrameLen(buf) \in 0 .. Len(buf)
    BY <2>2
  <2> HIDE DEF bad, read
  <2>4. CASE bad
    BY <2>1, <2>4
  <2>5. CASE ~bad
    BY <2>1, <2>3, <2>5
  <2> QED BY <2>4, <2>5
<1> QED BY <1>1, <1>2, <1>3

LEMMA DecodedIs ==
  ASSUME NEW r, Reader(r)
  PROVE  /\ Reader(Decoded(r)) /\ Len(Decoded(r).in) <= Len(r.in)
         /\ Decode(r.in) = Wait => /\ Decoded(r).in = r.in /\ Decoded(r).got = r.got
                                   /\ Decoded(r).phase = "read"
         /\ \A m, u : Decode(r.in) = [ret |-> 1, msg |-> m, used |-> u] =>
              /\ Decoded(r).in = Rest(r.in, u) /\ Decoded(r).got = Append(r.got, m)
              /\ Decoded(r).phase = r.phase
         /\ Decoded(r).phase \in {r.phase, "read", "malformed"}
<1> DEFINE d == Decoded(r)
<1>1. r.in \in Seq(Byte) /\ r = [in |-> r.in, phase |-> r.phase, got |-> r.got]
      /\ Len(r.in) \in Nat
  BY DEF Reader
<1>2. PICK a, b, c : r = [in |-> a, phase |-> b, got |-> c]
  BY <1>1
<1>3. r.in = a /\ r.phase = b /\ r.got = c
  BY <1>2
<1>4. ASSUME Decode(a) = Wait
      PROVE  d = [in |-> a, phase |-> "read", got |-> c]
  <2>1. Decode(a).ret = 0
    BY <1>4 DEF Wait
  <2>2. d = [r EXCEPT !.phase = "read"]
    BY <1>3, <2>1 DEF Decoded
  <2> QED BY <1>2, <2>2
<1>5. ASSUME Decode(a) = Bad
      PROVE  d = [in |-> a, phase |-> "malformed", got |-> c]
  <2>1. Decode(a).ret = -1
    BY <1>5 DEF Bad
  <2>2. d = [r EXCEPT !.phase = "malformed"]
    BY <1>3, <2>1 DEF Decoded
  <2> QED BY <1>2, <2>2
<1>6. ASSUME NEW m, NEW u, Decode(a) = [ret |-> 1, msg |-> m, used |-> u]
      PROVE  d = [in |-> Rest(a, u), phase |-> b, got |-> Append(c, m)]
  <2>1. Decode(a).ret = 1 /\ Decode(a).used = u /\ Decode(a).msg = m
    BY <1>6
  <2>2. d = [r EXCEPT !.in = Rest(@, u), !.got = Append(@, m)]
    BY <1>3, <2>1 DEF Decoded
  <2> QED BY <1>2, <2>2
<1> HIDE DEF d
<1>7. Reader(d) /\ Len(d.in) <= Len(r.in) /\ d.phase \in {r.phase, "read", "malformed"}
  <2>1. CASE Decode(a) = Wait
    <3>1. d.in = a /\ d.phase = "read" /\ d.got = c
      BY <1>4, <2>1
    <3> QED BY <1>1, <1>3, <1>4, <2>1, <3>1 DEF Reader
  <2>2. CASE Decode(a) = Bad
    <3>1. d.in = a /\ d.phase = "malformed" /\ d.got = c
      BY <1>5, <2>2
    <3> QED BY <1>1, <1>3, <1>5, <2>2, <3>1 DEF Reader
  <2>3. CASE \E m : \E u \in 0 .. Len(a) : Decode(a) = [ret |-> 1, msg |-> m, used |-> u]
    <3>1. PICK m : \E u \in 0 .. Len(a) : Decode(a) = [ret |-> 1, msg |-> m, used |-> u]
      BY <2>3
    <3>2. PICK u \in 0 .. Len(a) : Decode(a) = [ret |-> 1, msg |-> m, used |-> u]
      BY <3>1
    <3>3. d = [in |-> Rest(a, u), phase |-> b, got |-> Append(c, m)]
      BY <1>6, <3>2
    <3>4. a \in Seq(Byte) /\ Len(a) \in Nat
      BY <1>1, <1>3
    <3>5. Taking(a, u, Byte)
      BY <3>4, TakingIs
    <3>6. Rest(a, u) \in Seq(Byte) /\ Len(Rest(a, u)) <= Len(a)
      BY <3>4, <3>5 DEF Taking
    <3>7. d.in = Rest(a, u) /\ d.phase = b /\ d.got = Append(c, m)
      BY <3>3
    <3> QED BY <1>3, <3>3, <3>6, <3>7 DEF Reader
  <2> QED BY <1>1, <1>3, <2>1, <2>2, <2>3, DecodeIs
<1>8. Decode(r.in) = Wait => d.in = r.in /\ d.got = r.got /\ d.phase = "read"
  BY <1>3, <1>4
<1>9. ASSUME NEW m, NEW u, Decode(r.in) = [ret |-> 1, msg |-> m, used |-> u]
      PROVE  d.in = Rest(r.in, u) /\ d.got = Append(r.got, m) /\ d.phase = r.phase
  <2>1. d = [in |-> Rest(a, u), phase |-> b, got |-> Append(c, m)]
    BY <1>3, <1>6, <1>9
  <2> QED BY <1>3, <2>1
<1> QED BY <1>7, <1>8, <1>9 DEF d

\* A reader that decodes follows its stream, and is refused nothing.
LEMMA DecodedFollows ==
  ASSUME NEW r, Reader(r), NEW ms \in Seq(Sendable), NEW rest \in Seq(Byte),
         NEW part \in SUBSET Sendable, Followed(r, ms, r.in \o rest, part)
  PROVE  /\ Followed(Decoded(r), ms, Decoded(r).in \o rest, part)
         /\ \/ Decoded(r).phase = "read" /\ Len(Decoded(r).in) < MaxFrame + 2
            \/ Decoded(r).phase = r.phase
<1> DEFINE d == Decoded(r)
<1>1. r.in \in Seq(Byte) /\ r.got \in Seq(Sendable) /\ IsPrefix(r.got, ms)
      /\ Framed(r.got, ms, r.in \o rest, part)
  BY DEF Reader, Followed
<1>2. Understood(r.got, ms, r.in, rest, part)
  BY <1>1, FrameRead
<1>3. CASE Decode(r.in) = Wait /\ Len(r.in) < MaxFrame + 2
  <2>1. d.in = r.in /\ d.got = r.got /\ d.phase = "read"
    BY <1>3, DecodedIs
  <2> HIDE DEF d
  <2>2. Followed(d, ms, d.in \o rest, part)
    BY <1>1, <2>1 DEF Followed
  <2> QED BY <1>3, <2>1, <2>2 DEF d
<1>4. ASSUME NEW m \in Sendable, NEW u \in 0 .. Len(r.in),
             Decode(r.in) = [ret |-> 1, msg |-> m, used |-> u],
             Append(r.got, m) \in Seq(Sendable), IsPrefix(Append(r.got, m), ms),
             Framed(Append(r.got, m), ms, Rest(r.in, u) \o rest, part)
      PROVE  Followed(d, ms, d.in \o rest, part) /\ d.phase = r.phase
  <2>1. d.in = Rest(r.in, u) /\ d.got = Append(r.got, m) /\ d.phase = r.phase
    BY <1>4, DecodedIs
  <2> HIDE DEF d
  <2> QED BY <1>4, <2>1 DEF Followed
<1> QED BY <1>2, <1>3, <1>4 DEF Understood

LEMMA ClientDecodeStep == WireInv /\ ClientDecode => WireInv'
<1> SUFFICES ASSUME WireInv, ClientDecode
             PROVE  Reads
  BY ReadsKeeps
<1>1. WireShape /\ (drop \/ DownOK)
  BY DEF WireInv
<1>2. /\ net.down \in Seq(Byte) /\ net = [down |-> net.down, up |-> net.up]
      /\ Len(net.down) <= Wire /\ Reader(cli) /\ Len(cli.in) <= ClientBuf
      /\ cli.in \in Seq(Byte) /\ out \in Seq(Byte) /\ sent.down \in Seq(Sendable)
      /\ ClientBuf \in Nat
  BY <1>1, WireShapeIs, WireAssumption DEF WireShape, WireTypeOK
<1>3. /\ cli.phase = "decode" /\ UNCHANGED <<sent, out, drop, shut, srv>> /\ net' = net
      /\ cli' = Decoded(cli)
  BY DEF ClientDecode
<1>4. /\ Reader(cli') /\ Len(cli'.in) <= Len(cli.in)
      /\ cli'.phase \in {"decode", "read", "malformed"}
  BY <1>2, <1>3, DecodedIs
<1>5. Len(cli'.in) <= ClientBuf
  <2>1. Len(cli'.in) \in Nat /\ Len(cli.in) \in Nat
    BY <1>2, <1>4 DEF Reader
  <2> QED BY <1>2, <1>4, <2>1
<1>6. net'.down = net.down /\ net' = [net EXCEPT !.down = net'.down]
  BY <1>2, <1>3
<1>7. ASSUME DownOK
      PROVE  DownOK'
  <2> DEFINE rest == net.down \o out
  <2>1. rest \in Seq(Byte) /\ Down = cli.in \o rest
    <3>1. net.down \o out \in Seq(Byte) /\ (cli.in \o net.down) \o out = cli.in \o (net.down \o out)
      BY <1>2, Associates
    <3> QED BY <3>1 DEF Down
  <2>2. Down' = cli'.in \o rest
    <3>1. cli'.in \in Seq(Byte)
      BY <1>4 DEF Reader
    <3>2. (cli'.in \o net.down) \o out = cli'.in \o (net.down \o out)
      BY <1>2, <3>1, Associates
    <3>3. Down' = (cli'.in \o net.down) \o out
      BY <1>3 DEF Down
    <3> QED BY <3>2, <3>3
  <2> HIDE DEF rest
  <2>3. Followed(cli, sent.down, cli.in \o rest, {})
    BY <1>7, <2>1 DEF DownOK
  <2>4. /\ Followed(cli', sent.down, cli'.in \o rest, {})
        /\ cli'.phase = "read" \/ cli'.phase = cli.phase
    <3>1. {} \in SUBSET Sendable /\ Reader(cli) /\ sent.down \in Seq(Sendable)
      BY <1>2
    <3>2. /\ Followed(Decoded(cli), sent.down, Decoded(cli).in \o rest, {})
          /\ Decoded(cli).phase = "read" \/ Decoded(cli).phase = cli.phase
      BY <2>1, <2>3, <3>1, DecodedFollows
    <3> QED BY <1>3, <3>2
  <2> QED BY <1>3, <2>2, <2>4 DEF DownOK, Followed
<1>8. drop \/ DownOK'
  BY <1>1, <1>7, Zenon
<1>9. Reader(cli)'
  BY <1>4 DEF Reader
<1> QED BY <1>2, <1>3, <1>4, <1>5, <1>6, <1>8, <1>9 DEF Reads, Phases

\* The client's sending and its end, as far as the bytes to it go.
Upward ==
  /\ UNCHANGED <<out, drop, shut, srv>>
  /\ sent' \in [down : Seq(Sendable), up : Seq(Sendable)] /\ sent'.down = sent.down
  /\ net' \in [down : Seq(Byte), up : Seq(Byte)] /\ net'.down = net.down
  /\ Len(net'.up) <= Wire
  /\ cli' = cli \/ cli' = [cli EXCEPT !.phase = "exit"]
  /\ cli.phase # "exit"

LEMMA UpwardKeeps ==
  ASSUME WireInv, Upward, UpOK'
  PROVE  WireInv'
<1>1. WireShape /\ (drop \/ DownOK) /\ SoundIsServed /\ RoomLeft
  BY DEF WireInv
<1>2. Reader(cli) /\ cli = [in |-> cli.in, phase |-> cli.phase, got |-> cli.got]
      /\ Len(cli.in) <= ClientBuf /\ cli.phase \in Phases
  BY <1>1 DEF WireShape, Reader, WireTypeOK
<1>3. cli'.in = cli.in /\ cli'.got = cli.got /\ cli'.phase \in {cli.phase, "exit"}
      /\ Reader(cli)'
  BY <1>2 DEF Upward, Reader
<1>4. DownOK => DownOK'
  BY <1>3, DownStill DEF Upward, DownOK
<1>5. drop' = drop
  BY DEF Upward
<1>6. drop' \/ DownOK'
  BY <1>1, <1>4, <1>5, Zenon
<1>7. SoundIsServed'
  BY <1>1 DEF Upward, SoundIsServed
<1>8. RoomLeft'
  <2>1. srv'.phase = "read" => drop \/ Len(srv'.in) < InBuf
    BY <1>1 DEF Upward, RoomLeft
  <2> QED BY <1>5, <2>1, Zenon DEF RoomLeft
<1>9. WireTypeOK'
  <2>1. /\ drop \in BOOLEAN /\ shut \in BOOLEAN /\ out \in Seq(Byte) /\ Len(out) <= OutBuf
        /\ srv.phase \in Phases \ {"exit"} /\ srv.in \in Seq(Byte) /\ Len(srv.in) <= InBuf
        /\ Len(net.down) <= Wire /\ cli.in \in Seq(Byte)
    BY <1>1 DEF WireShape, WireTypeOK
  <2>2. drop' \in BOOLEAN /\ shut' \in BOOLEAN
    BY <2>1, Zenon DEF Upward
  <2>3. out' = out /\ srv' = srv /\ cli'.in = cli.in /\ cli'.phase \in Phases
    BY <1>2, <1>3 DEF Upward, Phases
  <2>4. net'.down \in Seq(Byte) /\ net'.up \in Seq(Byte) /\ Len(net'.up) <= Wire
        /\ Len(net'.down) <= Wire
    BY <2>1 DEF Upward
  <2> QED BY <1>2, <2>1, <2>2, <2>3, <2>4 DEF WireTypeOK
<1>10. WireShape'
  <2>1. srv' = srv /\ Reader(srv)
    BY <1>1 DEF Upward, WireShape
  <2> QED BY <1>3, <1>9, <2>1 DEF Upward, WireShape, Reader
<1> QED BY <1>6, <1>7, <1>8, <1>10 DEF WireInv

LEMMA RequestStep == WireInv /\ Request => WireInv'
<1> SUFFICES ASSUME WireInv, Request
             PROVE  Upward /\ UpOK'
  BY UpwardKeeps
<1>1. WireShape /\ UpOK
  BY DEF WireInv
<1>2. PICK m \in Requests :
        LET b == Encode(m)
            n == Least(Len(b), Wire - Len(net.up))
        IN /\ net' = [net EXCEPT !.up = @ \o First(b, n)]
           /\ IF b # <<>> /\ n = Len(b)
              THEN sent' = [sent EXCEPT !.up = Append(@, m)] /\ UNCHANGED cli
              ELSE cli' = [cli EXCEPT !.phase = "exit"] /\ UNCHANGED sent
  BY DEF Request
<1> DEFINE b == Encode(m)
           n == Least(Len(b), Wire - Len(net.up))
<1>3. /\ net.down \in Seq(Byte) /\ net.up \in Seq(Byte)
      /\ net = [down |-> net.down, up |-> net.up] /\ Len(net.up) \in 0 .. Wire
      /\ sent.down \in Seq(Sendable) /\ sent.up \in Seq(Sendable)
      /\ sent = [down |-> sent.down, up |-> sent.up]
      /\ srv.in \in Seq(Byte) /\ Wire \in Nat
      /\ cli = [in |-> cli.in, phase |-> cli.phase, got |-> cli.got]
  BY <1>1, WireShapeIs, WireAssumption
<1>4. b \in Seq(Byte) /\ Len(b) \in Nat
  BY EncodeIs
<1>5. /\ net' = [net EXCEPT !.up = @ \o First(b, n)]
      /\ IF b # <<>> /\ n = Len(b)
         THEN sent' = [sent EXCEPT !.up = Append(@, m)] /\ cli' = cli
         ELSE cli' = [cli EXCEPT !.phase = "exit"] /\ sent' = sent
  BY <1>2
<1>6. n \in 0 .. Len(b) /\ Len(net.up) + n <= Wire
  BY <1>3, <1>4 DEF Least
<1> HIDE DEF n
<1>7. First(b, n) \in Seq(Byte) /\ Len(First(b, n)) = n
  <2> HIDE DEF b
  <2> QED BY <1>4, <1>6, TakingIs DEF Taking
<1>8. /\ net' = [down |-> net.down, up |-> net.up \o First(b, n)]
      /\ net'.down = net.down /\ net'.up = net.up \o First(b, n)
  <2> HIDE DEF b
  <2>1. PICK x, y : net = [down |-> x, up |-> y]
    BY <1>3
  <2>2. net' = [down |-> x, up |-> y \o First(b, n)] /\ net.down = x /\ net.up = y
    BY <1>5, <2>1
  <2> QED BY <2>2
<1>9. net' \in [down : Seq(Byte), up : Seq(Byte)] /\ Len(net'.up) <= Wire
  <2> HIDE DEF b
  <2>1. Joined(net.up, First(b, n), Byte)
    BY <1>3, <1>7, JoinedIs
  <2>2. net.up \o First(b, n) \in Seq(Byte)
        /\ Len(net.up \o First(b, n)) = Len(net.up) + n
    BY <1>7, <2>1 DEF Joined
  <2> QED BY <1>3, <1>6, <1>8, <2>2
<1>10. Playing /\ UNCHANGED <<out, drop, shut, srv>>
  BY DEF Request
<1>11. Unfinished = {} /\ cli.phase # "exit"
  BY <1>10 DEF Playing, Unfinished
<1>12. Up \in Seq(Byte) /\ Up' = Up \o First(b, n)
  <2>1. Up' = srv.in \o (net.up \o First(b, n))
    BY <1>8, <1>10 DEF Up
  <2> HIDE DEF b
  <2>2. srv.in \o (net.up \o First(b, n)) = (srv.in \o net.up) \o First(b, n)
        /\ srv.in \o net.up \in Seq(Byte)
    BY <1>3, <1>7, Associates
  <2> QED BY <2>1, <2>2 DEF Up
<1>13. /\ srv.got \in Seq(Sendable) /\ IsPrefix(srv.got, sent.up)
       /\ Framed(srv.got, sent.up, Up, {}) /\ Len(srv.got) <= Len(sent.up)
  BY <1>1, <1>11 DEF UpOK, Followed, IsPrefix
<1>14. CASE b # <<>> /\ n = Len(b)
  <2>1. m \in Sendable
    BY <1>14 DEF Sendable
  <2>2. cli' = cli /\ sent' = [sent EXCEPT !.up = Append(@, m)]
    BY <1>5, <1>14
  <2>3. Append(sent.up, m) \in Seq(Sendable)
    BY <1>3, <2>1
  <2>4. sent'.up = Append(sent.up, m) /\ sent'.down = sent.down
        /\ sent' \in [down : Seq(Sendable), up : Seq(Sendable)]
    <3>1. PICK x, y : sent = [down |-> x, up |-> y]
      BY <1>3
    <3>2. sent' = [down |-> x, up |-> Append(y, m)] /\ sent.down = x /\ sent.up = y
      BY <2>2, <3>1
    <3> QED BY <1>3, <2>3, <3>2
  <2>5. First(b, n) = b
    <3> HIDE DEF b
    <3>1. First(b, n) \in Seq(Byte) /\ Len(First(b, n)) = Len(b)
          /\ \A i \in 1 .. Len(b) : First(b, n)[i] = b[i]
      BY <1>4, <1>6, <1>14, TakingIs DEF Taking
    <3> QED BY <1>4, <3>1, SeqEqual
  <2>6. Framed(srv.got, Append(sent.up, m), Up \o b, {})
    BY <1>3, <1>12, <1>13, <2>1, FrameSent
  <2>7. IsPrefix(srv.got, Append(sent.up, m))
    BY <1>3, <1>13, <2>1, PrefixGrows
  <2>8. Unfinished' = {} /\ Up' = Up \o b /\ srv' = srv
    <3>1. Unfinished' = {}
      BY <1>11, <2>2 DEF Unfinished
    <3> HIDE DEF b
    <3> QED BY <1>10, <1>12, <2>5, <3>1
  <2>9. UpOK'
    BY <1>13, <2>4, <2>6, <2>7, <2>8 DEF UpOK, Followed
  <2> HIDE DEF b
  <2> QED BY <1>8, <1>9, <1>10, <1>11, <2>2, <2>4, <2>9 DEF Upward
<1>15. CASE ~(b # <<>> /\ n = Len(b))
  <2>1. cli' = [cli EXCEPT !.phase = "exit"] /\ sent' = sent
    BY <1>5, <1>15
  <2>2. Unfinished' = Sendable
    <3>1. cli'.phase = "exit"
      BY <1>3, <2>1
    <3> QED BY <3>1 DEF Unfinished
  <2>3. Framed(srv.got, sent.up, Up \o First(b, n), Sendable)
    <3>1. CASE b = <<>>
      <4>1. n = 0 /\ First(b, n) = <<>>
        BY <1>6, <3>1 DEF First
      <4>2. Up \o First(b, n) = Up
        BY <1>12, <4>1
      <4>3. Framed(srv.got, sent.up, Up, Sendable)
        BY <1>13 DEF Framed
      <4> QED BY <4>2, <4>3
    <3>2. CASE b # <<>>
      <4>1. m \in Sendable
        BY <3>2 DEF Sendable
      <4>2. n \in Nat /\ n < Len(b)
        BY <1>4, <1>6, <1>15, <3>2
      <4> QED BY <1>3, <1>12, <1>13, <4>1, <4>2, FrameCutOff
    <3> QED BY <3>1, <3>2
  <2> HIDE DEF b
  <2>4. UpOK'
    BY <1>10, <1>12, <1>13, <2>1, <2>2, <2>3 DEF UpOK, Followed
  <2>5. sent' \in [down : Seq(Sendable), up : Seq(Sendable)]
    BY <1>1, <2>1 DEF WireShape
  <2> QED BY <1>8, <1>9, <1>10, <1>11, <2>1, <2>4, <2>5 DEF Upward
<1> QED BY <1>14, <1>15

LEMMA QuitStep == WireInv /\ Quit => WireInv'
<1> SUFFICES ASSUME WireInv, Quit
             PROVE  Upward /\ UpOK'
  BY UpwardKeeps
<1>1. WireShape /\ UpOK
  BY DEF WireInv
<1>2. /\ Playing /\ cli' = [cli EXCEPT !.phase = "exit"]
      /\ UNCHANGED <<sent, out, drop, shut, net, srv>>
  BY DEF Quit
<1>3. Unfinished = {} /\ cli.phase # "exit"
  BY <1>2 DEF Playing, Unfinished
<1>4. Framed(srv.got, sent.up, Up, Unfinished)'
  <2>1. Framed(srv.got, sent.up, Up, {}) /\ Up' = Up
    BY <1>1, <1>2, <1>3 DEF UpOK, Followed, Up
  <2> QED BY <1>2, <2>1 DEF Framed
<1>5. UpOK'
  BY <1>1, <1>2, <1>4 DEF UpOK, Followed
<1>6. Len(net.up) <= Wire
  BY <1>1, WireShapeIs, WireAssumption
<1> QED BY <1>1, <1>2, <1>3, <1>5, <1>6 DEF Upward, WireShape

\* The server's reading: what goes up, and when it stops.
Serves ==
  /\ UNCHANGED <<sent, out, cli>>
  /\ net' = [net EXCEPT !.up = net'.up]
  /\ net'.up \in Seq(Byte) /\ Len(net'.up) <= Wire
  /\ Reader(srv)' /\ Len(srv'.in) <= InBuf /\ srv'.phase \in Phases \ {"exit"}
  /\ drop' = drop /\ shut' \in BOOLEAN
  /\ UpOK' /\ SoundIsServed' /\ RoomLeft'

LEMMA ServesKeeps ==
  ASSUME WireInv, Serves
  PROVE  WireInv'
<1>1. WireShape /\ (drop \/ DownOK)
  BY DEF WireInv
<1>2. /\ net.down \in Seq(Byte) /\ net = [down |-> net.down, up |-> net.up]
      /\ Len(net.down) <= Wire
  BY <1>1, WireShapeIs, WireAssumption
<1>3. net'.down = net.down /\ net' \in [down : Seq(Byte), up : Seq(Byte)]
  BY <1>2 DEF Serves
<1>4. DownOK => DownOK'
  BY <1>3, DownStill DEF Serves, DownOK
<1>5. drop' = drop
  BY DEF Serves
<1>6. drop' \/ DownOK'
  BY <1>1, <1>4, <1>5, Zenon
<1>7. WireTypeOK'
  <2>1. /\ drop \in BOOLEAN /\ out \in Seq(Byte) /\ Len(out) <= OutBuf
        /\ cli.phase \in Phases /\ cli.in \in Seq(Byte) /\ Len(cli.in) <= ClientBuf
    BY <1>1 DEF WireShape, WireTypeOK
  <2>2. drop' \in BOOLEAN /\ shut' \in BOOLEAN
    BY <2>1, Zenon DEF Serves
  <2>3. out' = out /\ cli' = cli /\ srv'.in \in Seq(Byte) /\ Len(srv'.in) <= InBuf
        /\ srv'.phase \in Phases \ {"exit"}
        /\ net'.up \in Seq(Byte) /\ Len(net'.up) <= Wire
    BY DEF Serves, Reader
  <2> QED BY <1>2, <1>3, <2>1, <2>2, <2>3 DEF WireTypeOK
<1>8. WireShape'
  <2>1. UNCHANGED <<sent, cli>> /\ Reader(srv)'
    BY DEF Serves
  <2> QED BY <1>1, <1>3, <1>7, <2>1 DEF WireShape, Reader
<1> QED BY <1>6, <1>8 DEF WireInv, Serves

LEMMA ServerRecvStep == WireInv /\ ServerRecv => WireInv'
<1> SUFFICES ASSUME WireInv, ServerRecv
             PROVE  Serves
  BY ServesKeeps
<1>1. WireShape /\ UpOK /\ SoundIsServed /\ RoomLeft
  BY DEF WireInv
<1>2. /\ net.up \in Seq(Byte) /\ net = [down |-> net.down, up |-> net.up]
      /\ Len(net.up) <= Wire /\ Wire \in Nat
      /\ Reader(srv) /\ srv.in \in Seq(Byte) /\ Len(srv.in) <= InBuf /\ InBuf \in Nat
      /\ shut \in BOOLEAN
  BY <1>1, WireShapeIs, WireAssumption DEF WireShape, WireTypeOK
<1>3. ~drop /\ srv.phase = "read" /\ UNCHANGED <<sent, out, drop, cli>>
  BY DEF ServerRecv
<1>4. Len(srv.in) < InBuf
  BY <1>1, <1>3 DEF RoomLeft
<1>5. ASSUME NEW k \in Chunks, k <= Least(Len(net.up), InBuf - Len(srv.in)),
             srv' = [Taken(srv, First(net.up, k)) EXCEPT !.phase = "decode"],
             net' = [net EXCEPT !.up = Rest(@, k)], shut' = shut
      PROVE  Serves
  <2> DEFINE t == Taken(srv, First(net.up, k))
  <2>1. k \in 0 .. Len(net.up) /\ Len(srv.in) + k <= InBuf
    BY <1>2, <1>5, WireAssumption DEF Least
  <2>2. /\ t.in = srv.in \o First(net.up, k) /\ t.got = srv.got
        /\ Reader(t) /\ Len(t.in) = Len(srv.in) + k
        /\ Rest(net.up, k) \in Seq(Byte) /\ Len(Rest(net.up, k)) = Len(net.up) - k
        /\ (srv.in \o First(net.up, k)) \o Rest(net.up, k) = srv.in \o net.up
    BY <1>2, <2>1, TakenIs
  <2>3. srv' = [t EXCEPT !.phase = "decode"]
    BY <1>5
  <2> HIDE DEF t
  <2>4. srv'.in = t.in /\ srv'.got = t.got /\ srv'.phase = "decode" /\ Reader(srv')
    <3>1. PICK a, b, c : t = [in |-> a, phase |-> b, got |-> c]
      BY <2>2 DEF Reader
    <3>2. srv' = [in |-> a, phase |-> "decode", got |-> c] /\ t.in = a /\ t.got = c
      BY <2>3, <3>1
    <3> QED BY <2>2, <3>2 DEF Reader
  <2>5. net'.up = Rest(net.up, k) /\ net' = [net EXCEPT !.up = net'.up]
    BY <1>2, <1>5
  <2>6. Up' = Up
    BY <2>2, <2>4, <2>5 DEF Up
  <2>7. UpOK'
    BY <1>1, <1>3, <2>2, <2>4, <2>6 DEF UpOK, Followed, Unfinished
  <2>8. SoundIsServed' /\ RoomLeft'
    BY <2>4 DEF SoundIsServed, RoomLeft
  <2>9. Len(net'.up) <= Wire /\ Len(srv'.in) <= InBuf /\ srv'.phase \in Phases \ {"exit"}
    BY <1>2, <2>1, <2>2, <2>4, <2>5 DEF Phases
  <2>10. Reader(srv)'
    BY <2>4 DEF Reader
  <2>11. drop' = drop /\ shut' \in BOOLEAN
    BY <1>2, <1>3, <1>5
  <2> QED BY <1>3, <2>2, <2>5, <2>7, <2>8, <2>9, <2>10, <2>11 DEF Serves
<1>6. ASSUME IF net.up = <<>> THEN cli.phase = "exit" ELSE Len(srv.in) = InBuf,
             srv' = [srv EXCEPT !.phase = "eof"], shut' = TRUE, UNCHANGED net
      PROVE  Serves
  <2>1. cli.phase = "exit"
    BY <1>2, <1>4, <1>6
  <2>2. srv'.in = srv.in /\ srv'.phase = "eof" /\ srv'.got = srv.got /\ Reader(srv)'
    BY <1>2, <1>6 DEF Reader
  <2>3. net'.up = net.up /\ net' = [net EXCEPT !.up = net'.up]
    BY <1>2, <1>6
  <2>4. UpOK'
    BY <1>1, <1>3, <2>2, <2>3, UpStill
  <2>5. SoundIsServed' /\ RoomLeft'
    BY <1>3, <2>1, <2>2 DEF SoundIsServed, RoomLeft
  <2>6. drop' = drop /\ shut' \in BOOLEAN
    BY <1>3, <1>6
  <2> QED BY <1>2, <1>3, <2>2, <2>3, <2>4, <2>5, <2>6 DEF Serves, Phases
<1> QED BY <1>5, <1>6 DEF ServerRecv

LEMMA ServerDecodeStep == WireInv /\ ServerDecode => WireInv'
<1> SUFFICES ASSUME WireInv, ServerDecode
             PROVE  Serves
  BY ServesKeeps
<1>1. WireShape /\ UpOK /\ SoundIsServed /\ RoomLeft
  BY DEF WireInv
<1>2. /\ net.up \in Seq(Byte) /\ net = [down |-> net.down, up |-> net.up]
      /\ Len(net.up) <= Wire /\ sent.up \in Seq(Sendable)
      /\ Reader(srv) /\ srv.in \in Seq(Byte) /\ Len(srv.in) <= InBuf /\ InBuf \in Nat
      /\ shut \in BOOLEAN /\ drop \in BOOLEAN
      /\ MaxFrame \in Nat /\ InBuf >= MaxFrame + 2
  BY <1>1, WireShapeIs, WireAssumption, MaxFrameIs DEF WireShape, WireTypeOK
<1>3. srv.phase = "decode" /\ UNCHANGED <<sent, out, shut, net, cli>>
  BY DEF ServerDecode
<1>4. net'.up = net.up /\ net' = [net EXCEPT !.up = net'.up] /\ shut' \in BOOLEAN
  BY <1>2, <1>3
<1>5. CASE drop
  <2>1. srv' = [srv EXCEPT !.phase = "read"]
    BY <1>5 DEF ServerDecode
  <2>2. srv'.in = srv.in /\ srv'.phase = "read" /\ srv'.got = srv.got /\ Reader(srv)'
    BY <1>2, <2>1 DEF Reader
  <2>3. drop' = drop
    <3> DEFINE next == [srv EXCEPT !.phase = "read"]
               full == next.phase = "read" /\ Filled(next) /\ ~drop
    <3>1. ~full /\ next.phase # "malformed"
      BY <1>2, <1>5 DEF Reader
    <3>2. IF full \/ next.phase = "malformed" THEN drop' = TRUE ELSE UNCHANGED drop
      BY <1>5 DEF ServerDecode
    <3> HIDE DEF full, next
    <3> QED BY <3>1, <3>2, Zenon
  <2>4. UpOK'
    BY <1>1, <1>3, <1>4, <2>2, UpStill
  <2>5. drop'
    BY <1>5, <2>3, Zenon
  <2>6. SoundIsServed' /\ RoomLeft'
    BY <2>2, <2>5 DEF SoundIsServed, RoomLeft
  <2> QED BY <1>2, <1>3, <1>4, <2>2, <2>3, <2>4, <2>6 DEF Serves, Phases
<1>6. CASE ~drop
  <2> DEFINE next == Decoded(srv)
             full == next.phase = "read" /\ Filled(next) /\ ~drop
  <2>1. /\ Reader(next) /\ Len(next.in) <= Len(srv.in)
    BY <1>2, DecodedIs
  <2>2. /\ Followed(next, sent.up, next.in \o net.up, Unfinished)
        /\ \/ next.phase = "read" /\ Len(next.in) < MaxFrame + 2
           \/ next.phase = srv.phase
    <3>1. Unfinished \in SUBSET Sendable
      BY DEF Unfinished
    <3>2. Followed(srv, sent.up, srv.in \o net.up, Unfinished)
      BY <1>1 DEF UpOK, Up
    <3> QED BY <1>2, <3>1, <3>2, DecodedFollows
  <2>3. /\ srv' = IF full THEN [next EXCEPT !.phase = "full"] ELSE next
        /\ IF full \/ next.phase = "malformed" THEN drop' = TRUE ELSE UNCHANGED drop
    BY <1>6 DEF ServerDecode
  <2> HIDE DEF next
  <2>4. Len(next.in) \in Nat /\ next.in \in Seq(Byte)
    BY <2>1 DEF Reader
  <2>5. ~full /\ next.phase # "malformed"
    <3>1. next.phase = "read" => ~Filled(next)
      BY <1>2, <1>3, <2>2, <2>4 DEF Filled
    <3> QED BY <1>3, <2>2, <3>1
  <2>6. srv' = next /\ drop' = drop
    <3> HIDE DEF full
    <3> QED BY <2>3, <2>5, Zenon
  <2>7. next.phase \in {"read", "decode"} /\ (next.phase = "read" => Len(next.in) < InBuf)
    BY <1>2, <1>3, <2>2, <2>4
  <2>8. UpOK'
    BY <1>3, <2>2, <2>6 DEF UpOK, Up, Followed, Unfinished
  <2>9. SoundIsServed' /\ RoomLeft'
    BY <2>6, <2>7 DEF SoundIsServed, RoomLeft
  <2>10. Reader(srv)' /\ Len(srv'.in) <= InBuf /\ srv'.phase \in Phases \ {"exit"}
    <3>1. Len(srv.in) \in Nat
      BY <1>2
    <3> QED BY <1>2, <2>1, <2>4, <2>6, <2>7, <3>1 DEF Reader, Phases
  <2> QED BY <1>2, <1>3, <1>4, <2>6, <2>8, <2>9, <2>10 DEF Serves
<1> QED BY <1>2, <1>5, <1>6

LEMMA WireStutter == WireInv /\ UNCHANGED vars => WireInv'
<1> SUFFICES ASSUME WireInv, UNCHANGED vars
             PROVE  Downward
  BY DownwardKeeps
<1>1. WireShape
  BY DEF WireInv
<1>2. /\ sent' = sent /\ out' = out /\ drop' = drop /\ shut' = shut
      /\ net' = net /\ srv' = srv /\ cli' = cli
  BY DEF vars
<1>3. DownOK => DownOK'
  BY <1>2 DEF DownOK, Down, Followed
<1>4. drop' = TRUE \/ (drop' = drop /\ (DownOK => DownOK'))
  BY <1>2, <1>3, Zenon
<1>5. /\ sent \in [down : Seq(Sendable), up : Seq(Sendable)]
      /\ out \in Seq(Byte) /\ Len(out) <= OutBuf
      /\ net \in [down : Seq(Byte), up : Seq(Byte)] /\ Len(net.down) <= Wire
      /\ shut \in BOOLEAN
  BY <1>1 DEF WireShape, WireTypeOK
<1>6. shut' \in BOOLEAN
  BY <1>2, <1>5, Zenon
<1> QED BY <1>2, <1>4, <1>5, <1>6 DEF Downward

LEMMA WireStep == WireInv /\ [Next]_vars => WireInv'
<1> SUFFICES ASSUME WireInv, [Next]_vars
             PROVE  WireInv'
  OBVIOUS
<1>1. CASE Reply
  BY <1>1, ReplyStep
<1>2. CASE Writable
  <2>1. shut \in BOOLEAN
    BY DEF WireInv, WireShape, WireTypeOK
  <2>2. Flush(out) /\ UNCHANGED <<sent, srv, cli>> /\ shut' = shut
    BY <1>2 DEF Writable
  <2>3. shut' \in BOOLEAN
    BY <2>1, <2>2, Zenon
  <2> QED BY <2>2, <2>3, FlushStep
<1>3. CASE Sweep
  <2>1. Flush(out) /\ UNCHANGED <<sent, srv, cli>> /\ shut' = TRUE
    BY <1>3 DEF Sweep
  <2>2. shut' \in BOOLEAN
    BY <2>1, Zenon
  <2> QED BY <2>1, <2>2, FlushStep
<1>4. CASE ClientRecv
  BY <1>4, ClientRecvStep
<1>5. CASE ClientWaits
  BY <1>5, ClientWaitsStep
<1>6. CASE ClientDecode
  BY <1>6, ClientDecodeStep
<1>7. CASE Request
  BY <1>7, RequestStep
<1>8. CASE Quit
  BY <1>8, QuitStep
<1>9. CASE ServerRecv
  BY <1>9, ServerRecvStep
<1>10. CASE ServerDecode
  BY <1>10, ServerDecodeStep
<1>11. CASE UNCHANGED vars
  BY <1>11, WireStutter
<1> QED BY <1>1, <1>2, <1>3, <1>4, <1>5, <1>6, <1>7, <1>8, <1>9, <1>10, <1>11 DEF Next

-----------------------------------------------------------------------------
(* Results.                                                                *)

LEMMA WireInvImplies == WireInv => NothingGarbled
<1> SUFFICES ASSUME WireInv
             PROVE  NothingGarbled
  OBVIOUS
<1>1. WireTypeOK /\ SoundIsServed /\ IsPrefix(srv.got, sent.up) /\ (drop \/ DownOK)
  BY DEF WireInv, WireShape, UpOK, Followed
<1>2. DownOK => IsPrefix(cli.got, sent.down) /\ cli.phase # "malformed"
  BY DEF DownOK, Followed
<1>3. drop \/ (IsPrefix(cli.got, sent.down) /\ cli.phase # "malformed")
  BY <1>1, <1>2, Zenon
<1> QED BY <1>1, <1>3 DEF NothingGarbled

\* However the stream is cut, by sends that find little room and recvs that return
\* little, what the server and the client handle is what the other sent, whole and in
\* order; send_msg, read_conn and poll_incoming write no buffer past its end, and no
\* sound client is refused for bytes the server misread.
THEOREM NothingIsGarbled == Spec => []NothingGarbled
<1>1. Init => WireInv
  BY WireStarts
<1>2. WireInv /\ [Next]_vars => WireInv'
  BY WireStep
<1>3. WireInv => NothingGarbled
  BY WireInvImplies
<1> QED BY <1>1, <1>2, <1>3, PTL DEF Spec

-----------------------------------------------------------------------------
(* Every message in its real size, handed over byte by byte.               *)

\* What a sample's field may be.
LEMMA ValueIs ==
  ASSUME NEW field, field[2] \in Widths, NEW k \in 1 .. 8, NEW kind
  PROVE  Value(field, k, kind) \in ValuesOf(field)
<1>1. ASSUME NEW n \in 0 .. NameLen
      PROVE  Name16(n) \in Seq(Byte \ {0}) /\ Len(Name16(n)) = n
  <2>1. \A i \in 1 .. n : 64 + i \in Byte \ {0}
    BY DEF NameLen, Byte
  <2>2. Name16(n) \in [1 .. n -> Byte \ {0}]
    BY <2>1 DEF Name16
  <2> QED BY <2>2 DEF NameLen
<1>2. CASE field[2] = 1
  <2>1. Value(field, k, kind) \in Byte
    BY <1>2 DEF Value, NameLen, Byte
  <2> QED BY <1>2, <2>1 DEF ValuesOf, NameLen
<1>3. CASE field[2] = 2
  <2>1. Value(field, k, kind) \in Short
    BY <1>3 DEF Value, NameLen, Short
  <2> QED BY <1>3, <2>1 DEF ValuesOf, NameLen
<1>4. CASE field[2] = 4
  <2>1. Value(field, k, kind) \in {<<0, 0>>, <<65535, 65535>>, <<258 + k, 1027 + k>>}
    BY <1>4 DEF Value, NameLen
  <2>2. \A n : n \in {0, 65535, 258 + k, 1027 + k} => n \in Short
    BY DEF Short
  <2>3. Value(field, k, kind) \in Short \X Short
    BY <2>1, <2>2
  <2> QED BY <1>4, <2>3 DEF ValuesOf, NameLen
<1>5. CASE field[2] = NameLen
  <2>1. Value(field, k, kind) \in {Name16(0), Name16(16), Name16(5)}
    BY <1>5 DEF Value, NameLen
  <2>2. \A n \in {0, 16, 5} : n \in 0 .. NameLen /\ n <= NameLen
    BY DEF NameLen
  <2>3. PICK n \in {0, 16, 5} : Value(field, k, kind) = Name16(n)
    BY <2>1
  <2>4. n \in 0 .. NameLen /\ n <= NameLen
    BY <2>2
  <2>5. Name16(n) \in Seq(Byte \ {0}) /\ Len(Name16(n)) = n
    BY <1>1, <2>4
  <2>6. Len(Name16(n)) <= NameLen
    BY <2>4, <2>5
  <2>7. Value(field, k, kind) \in {s \in Seq(Byte \ {0}) : Len(s) <= NameLen}
    BY <2>3, <2>5, <2>6
  <2> HIDE DEF Name16, Value
  <2> QED BY <1>5, <2>7 DEF ValuesOf, NameLen
<1> QED BY <1>2, <1>3, <1>4, <1>5 DEF Widths

\* What a message says of its tail fits in its field.
LEMMA CounterIs ==
  ASSUME NEW type \in Types, NEW n \in Sizes(type), NEW k \in 1 .. Len(Written[type]),
         Written[type][k][1] = Counter(type)
  PROVE  n \in ValuesOf(Written[type][k])
<1>1. Sound(Written[type])
  BY WrittenSound
<1>2. CASE type = "HELLO"
  <2>1. 4 \in 1 .. Len(Written[type]) /\ Written[type][4] = <<"token_len", 1>> /\ Counter(type) = "token_len"
    BY <1>2 DEF Written, U8, Counter
  <2>2. k = 4
    BY <1>1, <2>1 DEF Sound
  <2>3. n \in Byte
    BY <1>2 DEF Sizes, MaxToken, Byte
  <2> QED BY <2>1, <2>2, <2>3 DEF ValuesOf, NameLen
<1>3. CASE type = "AUTH"
  <2>1. 1 \in 1 .. Len(Written[type]) /\ Written[type][1] = <<"token_len", 2>> /\ Counter(type) = "token_len"
    BY <1>3 DEF Written, U16, Counter
  <2>2. k = 1
    BY <1>1, <2>1 DEF Sound
  <2>3. n \in Short
    BY <1>3 DEF Sizes, Short
  <2> QED BY <2>1, <2>2, <2>3 DEF ValuesOf, NameLen
<1>4. CASE type = "EVENTS"
  <2>1. 2 \in 1 .. Len(Written[type]) /\ Written[type][2] = <<"n", 1>> /\ Counter(type) = "n"
    BY <1>4 DEF Written, U8, Counter
  <2>2. k = 2
    BY <1>1, <2>1 DEF Sound
  <2>3. n \in Byte
    BY <1>4 DEF Sizes, MaxEvents, Byte
  <2> QED BY <2>1, <2>2, <2>3 DEF ValuesOf, NameLen
<1>5. CASE type \notin {"HELLO", "AUTH", "EVENTS"}
  <2>1. Counter(type) = "none"
    BY <1>5 DEF Counter
  <2> QED BY <1>1, <2>1 DEF Sound
<1> QED BY <1>2, <1>3, <1>4, <1>5

LEMMA BodyLength ==
  ASSUME NEW m, IsMessage(m)
  PROVE  Len(Body(m)) = LastEnd(m.type) + TailLen(m.type, m) /\ TailLen(m.type, m) \in Nat
<1> DEFINE f == Written[m.type]
<1>1. Fielded(m, f)
  BY MessageIs
<1>2. Len(Body(m)) = Ends(f)[Len(f)] + Len(m.tail)
  BY <1>1, BodyIs DEF LaidOut
<1>3. LastEnd(m.type) = Ends(f)[Len(f)]
  BY DEF LastEnd, End
<1>4. Len(m.tail) = TailLen(m.type, m) /\ m.tail \in Seq(Byte)
  BY <1>1 DEF Fielded
<1> QED BY <1>2, <1>3, <1>4

\* A sample is a message, and fits in a frame.
LEMMA SampleIs ==
  ASSUME NEW type \in Types, NEW kind, NEW n \in Sizes(type)
  PROVE  IsMessage(Message(type, kind, n)) /\ ~TooLong(RealFrame, Message(type, kind, n))
<1> DEFINE m == Message(type, kind, n)
           f == Written[type]
           D == Names(f) \cup {"type", "tail"}
           size == TailLen(type, [token_len |-> n, n |-> n])
           at(name) == CHOOSE k \in DOMAIN f : f[k][1] = name
           tail == [i \in 1 .. size |-> (7 * i) % 256]
           Of(name) == CASE name = "type"        -> type
                         [] name = "tail"        -> tail
                         [] name = Counter(type) -> n
                         [] OTHER                -> Value(f[at(name)], at(name), kind)
<1>1. m = [name \in D |-> Of(name)]
  BY DEF Message
<1>2. Sound(f)
  BY WrittenSound
<1>3. n \in Nat /\ size \in Nat
  <2>1. n \in Nat
    BY DEF Sizes, MaxToken, MaxEvents
  <2> QED BY <2>1 DEF TailLen, MaxParts
<1>4. tail \in Seq(Byte) /\ Len(tail) = size
  <2>1. \A i \in 1 .. size : (7 * i) % 256 \in Byte
    BY <1>3 DEF Byte
  <2> HIDE DEF size
  <2>2. tail \in [1 .. size -> Byte]
    BY <2>1
  <2> QED BY <1>3, <2>2
<1> HIDE DEF size, tail
<1>5. Counter(type) \notin {"type", "tail"}
  BY DEF Counter
<1>6. Of("type") = type /\ Of("tail") = tail
  BY <1>5
<1>7. ASSUME NEW k \in 1 .. Len(f)
      PROVE  /\ f[k][1] \in Names(f)
             /\ Of(f[k][1]) = IF f[k][1] = Counter(type) THEN n ELSE Value(f[k], k, kind)
  <2>1. k \in DOMAIN f /\ \A j \in DOMAIN f : f[j][1] = f[k][1] => j = k
    BY <1>2 DEF Sound
  <2>2. at(f[k][1]) = k
    BY <2>1
  <2>3. f[k][1] # "type" /\ f[k][1] # "tail"
    BY <1>2 DEF Sound
  <2> HIDE DEF at
  <2> QED BY <2>1, <2>2, <2>3 DEF Names
<1>8. ASSUME NEW k \in 1 .. Len(f)
      PROVE  Of(f[k][1]) \in ValuesOf(f[k])
  <2>1. CASE f[k][1] # Counter(type)
    <3>1. Of(f[k][1]) = Value(f[k], k, kind)
      BY <1>7, <2>1
    <3> HIDE DEF f, Of
    <3>2. k \in 1 .. 8
      BY <1>2 DEF Sound
    <3>3. f[k][2] \in Widths
      BY <1>2 DEF Sound
    <3> QED BY <3>1, <3>2, <3>3, ValueIs
  <2>2. CASE f[k][1] = Counter(type)
    <3>1. Of(f[k][1]) = n
      BY <1>7, <2>2
    <3> HIDE DEF Of
    <3>2. n \in ValuesOf(f[k])
      BY <2>2, CounterIs
    <3> QED BY <3>1, <3>2
  <2> QED BY <2>1, <2>2
<1>9. /\ type = "HELLO" \/ type = "AUTH" => Of("token_len") = n /\ "token_len" \in D
      /\ type = "EVENTS" => Of("n") = n /\ "n" \in D
  <2>1. /\ type = "HELLO" => 4 \in 1 .. Len(f) /\ f[4][1] = "token_len" /\ Counter(type) = "token_len"
        /\ type = "AUTH" => 1 \in 1 .. Len(f) /\ f[1][1] = "token_len" /\ Counter(type) = "token_len"
        /\ type = "EVENTS" => 2 \in 1 .. Len(f) /\ f[2][1] = "n" /\ Counter(type) = "n"
    BY DEF Written, U8, U16, Counter
  <2> HIDE DEF Of, f
  <2> QED BY <1>7, <2>1
<1> HIDE DEF Of, f
<1>10. \A name \in D : m[name] = Of(name)
  BY <1>1
<1>11. m.type = type /\ m.tail = tail
  BY <1>6, <1>10
<1>12. /\ type = "HELLO" \/ type = "AUTH" => m.token_len = n
       /\ type = "EVENTS" => m.n = n
  BY <1>9, <1>10
<1>13. m = [name \in D |-> m[name]]
  BY <1>1
<1> HIDE DEF m
<1>14. TailLen(type, m) = size
  BY <1>12 DEF TailLen, size
<1>15. \A k \in DOMAIN f : m[f[k][1]] \in ValuesOf(f[k])
  <2> SUFFICES ASSUME NEW k \in DOMAIN f
               PROVE  m[f[k][1]] \in ValuesOf(f[k])
    OBVIOUS
  <2>1. k \in 1 .. Len(f)
    BY <1>2 DEF Sound
  <2> QED BY <1>7, <1>8, <1>10, <2>1
<1>16. IsMessage(m)
  BY <1>4, <1>11, <1>13, <1>14, <1>15 DEF IsMessage, f
<1>17. Len(Body(m)) = LastEnd(type) + size
  BY <1>11, <1>14, <1>16, BodyLength
<1>18. LastEnd(type) \in Nat /\ LastEnd(type) + size + 1 <= RealFrame
  <2>1. CASE type = "HELLO"
    <3>1. size = n /\ n <= 200
      BY <2>1 DEF size, TailLen, Sizes, MaxToken
    <3> QED BY <1>3, <2>1, <3>1, LastEnds DEF RealFrame
  <2>2. CASE type = "AUTH"
    <3>1. size = n /\ n <= 509
      BY <2>2 DEF size, TailLen, Sizes
    <3> QED BY <1>3, <2>2, <3>1, LastEnds DEF RealFrame
  <2>3. CASE type = "EVENTS"
    <3>1. size = 7 * n /\ n <= 60
      BY <2>3 DEF size, TailLen, Sizes, MaxEvents
    <3> QED BY <1>3, <2>3, <3>1, LastEnds DEF RealFrame
  <2>4. CASE type \notin {"HELLO", "AUTH", "EVENTS"}
    <3>1. size <= 4 * 36
      BY <2>4 DEF size, TailLen, MaxParts
    <3>2. LastEnd(type) \in 0 .. 30
      BY <2>4, LastEnds, TypesAre
    <3> QED BY <1>3, <3>1, <3>2 DEF RealFrame
  <2> QED BY <2>1, <2>2, <2>3, <2>4
<1>19. Limited(m)
  <2>1. /\ type = "HELLO" => n <= MaxToken
        /\ type = "AUTH" => n <= MaxAuthToken
        /\ type = "EVENTS" => n <= MaxEvents
    BY DEF Sizes, MaxToken, MaxAuthToken, MaxEvents
  <2> QED BY <1>11, <1>12, <2>1 DEF Limited
<1>20. ~TooLong(RealFrame, m)
  <2>1. /\ ~(m.type = "HELLO" /\ m.token_len > MaxToken)
        /\ ~(m.type = "AUTH" /\ m.token_len > MaxAuthToken)
        /\ ~(m.type = "EVENTS" /\ m.n > MaxEvents)
    BY <1>3, <1>11, <1>12, <1>19 DEF Limited, MaxToken, MaxAuthToken, MaxEvents
  <2>2. ~(Len(Body(m)) + 1 > RealFrame)
    BY <1>3, <1>17, <1>18 DEF RealFrame
  <2> QED BY <2>1, <2>2 DEF TooLong
<1> QED BY <1>16, <1>20 DEF m

FeedInv ==
  /\ msg \in Samples(Types) \cup {Nothing} /\ fed \in Nat
  /\ msg # Nothing => fed <= Len(EncodeIn(RealFrame, msg)) + 1

\* The beginning of two frames of a message, one after the other.
LEMMA StreamRead ==
  ASSUME NEW m, IsMessage(m), ~TooLong(RealFrame, m), NEW n \in Nat,
         n <= Len(EncodeIn(RealFrame, m)) + 1
  PROVE  DecodeIn(RealFrame, SubSeq(Stream(m), 1, n)) =
           (IF n < Len(EncodeIn(RealFrame, m)) THEN Wait
            ELSE [ret |-> 1, msg |-> m, used |-> Len(EncodeIn(RealFrame, m))])
<1> DEFINE b == EncodeIn(RealFrame, m)
           s == b \o b
           buf == First(s, n)
           max == RealFrame
<1>1. max \in Short /\ max \in Nat
  BY DEF RealFrame, Short
<1>2. FrameIn(max, b) /\ DecodeIn(max, b) = [ret |-> 1, msg |-> m, used |-> Len(b)]
  BY <1>1, MessagesReadBack
<1>3. SubSeq(Stream(m), 1, n) = buf
  BY DEF Stream, First
<1> HIDE DEF b, max
<1>4. b \in Seq(Byte) /\ Len(b) \in Nat /\ Len(b) >= 3 /\ n <= Len(b) + 1
  BY <1>1, <1>2 DEF FrameIn, b
<1>5. Joined(b, b, Byte)
  BY <1>4, JoinedIs
<1>6. s \in Seq(Byte) /\ Len(s) = Len(b) + Len(b) /\ \A i \in 1 .. Len(b) : s[i] = b[i]
  BY <1>5 DEF Joined
<1> HIDE DEF s
<1>7. n \in 0 .. Len(s)
  BY <1>4, <1>6
<1>8. Taking(s, n, Byte)
  BY <1>6, <1>7, TakingIs
<1>9. buf \in Seq(Byte) /\ Len(buf) = n /\ \A i \in 1 .. n : buf[i] = s[i]
  BY <1>8 DEF Taking
<1> HIDE DEF buf
<1>10. Agree(buf, b)
  <2> SUFFICES ASSUME NEW i \in 1 .. Least(Len(buf), Len(b))
               PROVE  buf[i] = b[i]
    BY DEF Agree
  <2>1. i \in 1 .. n /\ i \in 1 .. Len(b)
    BY <1>4, <1>9 DEF Least
  <2> QED BY <1>6, <1>9, <2>1
<1>11. CASE n < Len(b)
  <2>1. Len(buf) < Len(b)
    BY <1>9, <1>11
  <2>2. DecodeIn(max, buf) = Wait
    BY <1>1, <1>2, <1>9, <1>10, <2>1, BeginningWaits
  <2> QED BY <1>3, <1>11, <2>2 DEF b, max
<1>12. CASE ~(n < Len(b))
  <2>1. Len(buf) >= Len(b)
    BY <1>4, <1>9, <1>12
  <2>2. DecodeIn(max, buf) = DecodeIn(max, b)
    BY <1>1, <1>2, <1>9, <1>10, <2>1, WholeIsRead
  <2> QED BY <1>2, <1>3, <1>12, <2>2 DEF b, max
<1> QED BY <1>11, <1>12

LEMMA FeedInvImplies == FeedInv => FramesReadBack
<1> SUFFICES ASSUME FeedInv, msg # Nothing
             PROVE  DecodeIn(RealFrame, SubSeq(Stream(msg), 1, fed)) =
                      (IF fed < Len(EncodeIn(RealFrame, msg)) THEN Wait
                       ELSE [ret |-> 1, msg |-> msg, used |-> Len(EncodeIn(RealFrame, msg))])
  BY DEF FramesReadBack
<1>1. PICK type \in Types, kind \in {"zero", "most", "mixed"} :
        \E n \in Sizes(type) : msg = Message(type, kind, n)
  BY DEF FeedInv, Samples
<1>2. PICK n \in Sizes(type) : msg = Message(type, kind, n)
  BY <1>1
<1>3. IsMessage(msg) /\ ~TooLong(RealFrame, msg)
  BY <1>2, SampleIs
<1>4. fed \in Nat /\ fed <= Len(EncodeIn(RealFrame, msg)) + 1
  BY DEF FeedInv
<1> QED BY <1>3, <1>4, StreamRead

\* Encoder, decoder and the table of sizes, which say the fields of a message each in
\* its own way, agree on every type of message, whatever is said and received between:
\* the decoder waits for the last byte of a frame, gives back what was encoded and
\* takes nothing of what follows it.
THEOREM FramesAreReadBack == WireSpec => []FramesReadBack
<1> DEFINE all == <<vars, msg, fed>>
<1>1. WireInit => FeedInv
  <2> SUFFICES ASSUME WireInit PROVE FeedInv
    OBVIOUS
  <2>1. msg \in Samples(Types) \cup {Nothing} /\ fed = 0
    BY DEF WireInit
  <2>2. ASSUME msg # Nothing PROVE 0 <= Len(EncodeIn(RealFrame, msg)) + 1
    <3>1. PICK type \in Types, kind \in {"zero", "most", "mixed"} :
            \E n \in Sizes(type) : msg = Message(type, kind, n)
      BY <2>1, <2>2 DEF Samples
    <3>2. IsMessage(msg) /\ ~TooLong(RealFrame, msg)
      BY <3>1, SampleIs
    <3>3. RealFrame \in Short
      BY DEF RealFrame, Short
    <3>4. EncodeIn(RealFrame, msg) \in Seq(Byte)
      BY <3>2, <3>3, MessagesReadBack DEF FrameIn
    <3> QED BY <3>4
  <2> QED BY <2>1, <2>2 DEF FeedInv
<1>2. FeedInv /\ [WireNext]_all => FeedInv'
  <2> SUFFICES ASSUME FeedInv, [WireNext]_all
               PROVE  FeedInv'
    OBVIOUS
  <2>1. CASE Feed
    BY <2>1 DEF Feed, FeedInv
  <2>2. CASE UNCHANGED <<msg, fed>>
    BY <2>2 DEF FeedInv
  <2> QED BY <2>1, <2>2 DEF WireNext
<1>3. FeedInv => FramesReadBack
  BY FeedInvImplies
<1> QED BY <1>1, <1>2, <1>3, PTL DEF WireSpec
===============================================================================
