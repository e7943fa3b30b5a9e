-------------------------- MODULE LengthHeaderCodec --------------------------
(***************************************************************************)
(* The chat example's LengthHeaderCodec (src/examples/chat/codec.h): every *)
(* message goes out as a 4-byte big-endian int32 length followed by its    *)
(* bytes; onMessage takes as many whole messages off the input Buffer as   *)
(* it holds, leaves a partial one for the next read, and shuts the         *)
(* connection down on a length outside 0..65536.                           *)
(*                                                                         *)
(* A Buffer is a sequence of byte values and the decoder a recursive      *)
(* operator; ChatServer feeds it the peer's frames in arbitrary segments.  *)
(***************************************************************************)
EXTENDS Integers, Sequences, SequencesExt

\* sizeof(int32_t)
HEADER_LENGTH == 4

\* The largest length onMessage accepts.
MaxLength == 65536

\* Four bytes in network order, read as a host int32_t (networkToHost32,
\* then the two's-complement conversion to int32_t: the top byte carries
\* the sign).
NetworkToHost32(b) ==
    LET top == IF b[1] >= 128 THEN b[1] - 256 ELSE b[1]
    IN ((top * 256 + b[2]) * 256 + b[3]) * 256 + b[4]

\* hostToNetwork32 of a non-negative int32, as the four bytes it stores.
HostToNetwork32(n) ==
    <<(n \div 2^24) % 256, (n \div 2^16) % 256, (n \div 256) % 256, n % 256>>

\* send(conn, message): append the message, prepend its length.
Encode(msg) == HostToNetwork32(Len(msg)) \o msg

\* len > 65536 || len < 0
InvalidLength(len) == len > MaxLength \/ len < 0

\* Mutant: a frame is taken only when more than it is buffered.
CompleteStrict(buf, len) == Len(buf) > len + HEADER_LENGTH

\* buf->readableBytes() >= len + HEADER_LENGTH
Complete(buf, len) == Len(buf) >= len + HEADER_LENGTH

\* onMessage(conn, buf): the messages handed to the string callback in
\* order, the bytes left in the Buffer, and whether conn->shutdown() ran.
RECURSIVE OnMessage(_)
OnMessage(buf) ==
    LET len == NetworkToHost32(SubSeq(buf, 1, HEADER_LENGTH))
        stop(sd) == [msgs |-> <<>>, rest |-> buf, shutdown |-> sd]
    IN
    IF Len(buf) < HEADER_LENGTH THEN stop(FALSE)
    ELSE IF InvalidLength(len) THEN stop(TRUE)
    ELSE IF ~Complete(buf, len) THEN stop(FALSE)
    ELSE LET after == OnMessage(SubSeq(buf, HEADER_LENGTH + len + 1, Len(buf)))
         IN [after EXCEPT !.msgs =
                 <<SubSeq(buf, HEADER_LENGTH + 1, HEADER_LENGTH + len)>> \o @]

----------------------------------------------------------------------------

\* What a peer's sends put on the wire, in order.
Frames(ms) == FlattenSeq([i \in DOMAIN ms |-> Encode(ms[i])])

=============================================================================
