------------------------------ MODULE Framing ------------------------------
(***************************************************************************)
(* How OnRead cuts the bytes of a connection into packets: clients         *)
(* (CSocketServerEx), world servers (CSocketServer), the log and billing   *)
(* connections (CLogSocket, CIPSocket) read a length of two bytes and then *)
(* a body whose first byte is the protocol; the GM port (CSocketInt) reads *)
(* lines.  What is not a whole packet stays in the buffer for the next     *)
(* read.                                                                   *)
(*                                                                         *)
(* A byte has ByteSize values (256 in the code), the buffer BufferSize     *)
(* bytes (20480), a line LineMax (255).  The packets posted and all bytes  *)
(* received are histories.  Who handles the packets is in IOSocket.        *)
(***************************************************************************)
EXTENDS Integers, Sequences

CONSTANTS ByteSize, BufferSize, LineMax,
          MaxProtocol,  \* AQ_MAX, AS_MAX, IA_MAX; the byte 0 ends a line here
          MaxBytes      \* bytes of a connection: bounds the history

ASSUME FramingAssumption ==
  /\ ByteSize \in Nat \ {0} /\ LineMax \in Nat \ {0} /\ BufferSize \in Nat
  /\ LineMax < BufferSize /\ BufferSize > 2 /\ MaxProtocol \in Nat /\ MaxBytes \in Nat

VARIABLES
  class,           \* the class of the connection
  received,        \* history: every byte so far
  buffer,          \* the m_size bytes of m_pReadBuf
  pi, start,       \* the place in the buffer, and where the line began
  mode, packetLen, \* kept between two calls of OnRead
  posted,          \* history: <<place in the stream, length>> of what was handed on
  doing            \* "waiting" for a read, in the "loop" of OnRead, or "closed"

frameVars == <<class, received, buffer, pi, start, mode, packetLen, posted, doing>>

Bytes == 0..ByteSize - 1
Newline == 0

\* how many bytes must be there before the length is looked at
Needed == IF class = "client" THEN 2 ELSE 3

\* the length of the body from the two bytes at place i of s, counted from 0;
\* PacketSizeType is always 3
BodyLength(s, i) ==
  s[i + 1] + s[i + 2] * ByteSize + (IF class = "billing" THEN 1 ELSE -2)

BadLength(n) == n <= 0 \/ n > BufferSize

\* CLogSocket compares an unsigned byte with zero: it refuses every packet
Refused(protocol) == class = "log" \/ protocol >= MaxProtocol

\* where place i of the buffer is in the stream
Place(i) == Len(received) - Len(buffer) + i

FrameInit ==
  /\ class \in {"client", "world", "log", "billing", "gm"}
  /\ received = <<>> /\ buffer = <<>> /\ pi = 0 /\ start = 0
  /\ mode = "len" /\ packetLen = 0 /\ posted = <<>> /\ doing = "waiting"

\* a read completes with some of the bytes that are under way
Receive ==
  /\ doing = "waiting"
  /\ \E n \in 1..BufferSize - Len(buffer) : \E chunk \in [1..n -> Bytes] :
       /\ Len(received) + n <= MaxBytes
       /\ received' = received \o chunk
       /\ buffer' = buffer \o chunk
  /\ pi' = 0 /\ start' = 0 /\ doing' = "loop"
  /\ UNCHANGED <<class, mode, packetLen, posted>>

\* CIOSocket::Read keeps the bytes from place i on
ReadMore(i) ==
  /\ buffer' = SubSeq(buffer, i + 1, Len(buffer))
  /\ pi' = 0 /\ start' = 0 /\ doing' = "waiting"
  /\ UNCHANGED <<class, received, mode, packetLen, posted>>

Close ==
  /\ doing' = "closed"
  /\ UNCHANGED <<class, received, buffer, pi, start, mode, packetLen, posted>>

Post(i, n) == posted' = Append(posted, <<Place(i), n>>)

\* the loop of the four classes with packets
InLoop == doing = "loop" /\ class # "gm"
Short(n) == pi + n > Len(buffer)

Incomplete ==
  /\ InLoop
  /\ pi >= Len(buffer) \/ Short(IF mode = "len" THEN Needed ELSE packetLen)
  /\ ReadMore(pi)

ReadLength ==
  /\ InLoop /\ mode = "len" /\ ~Short(Needed)
  /\ packetLen' = BodyLength(buffer, pi)
  /\ IF BadLength(packetLen')
       THEN doing' = "closed" /\ UNCHANGED <<pi, mode>>
       ELSE pi' = pi + 2 /\ mode' = "body" /\ UNCHANGED doing
  /\ UNCHANGED <<class, received, buffer, start, posted>>

\* the bug of a length that is read again from the body's next bytes
NextMode_Body == "body"
NextMode == "len"

ReadBody ==
  /\ InLoop /\ mode = "body" /\ ~Short(packetLen)
  /\ IF Refused(buffer[pi + 1]) THEN Close
     ELSE /\ Post(pi, packetLen)
          /\ pi' = pi + packetLen /\ mode' = NextMode
          /\ UNCHANGED <<class, received, buffer, start, packetLen, doing>>

\* CSocketInt::OnRead: a byte ends the line if it is a newline or comes after
\* LineMax others; either way it is overwritten
ScanLine ==
  /\ doing = "loop" /\ class = "gm"
  /\ IF pi >= Len(buffer) THEN ReadMore(start)
     ELSE /\ pi' = pi + 1
          /\ IF pi - start >= LineMax \/ buffer[pi + 1] = Newline
               THEN Post(start, pi - start) /\ start' = pi + 1
               ELSE UNCHANGED <<posted, start>>
          /\ UNCHANGED <<class, received, buffer, mode, packetLen, doing>>

FrameNext == Receive \/ Incomplete \/ ReadLength \/ ReadBody \/ ScanLine

FrameSpec == FrameInit /\ [][FrameNext]_frameVars

-----------------------------------------------------------------------------
(* Properties *)

FrameTypeOK ==
  /\ received \in Seq(Bytes) /\ buffer \in Seq(Bytes) /\ posted \in Seq(Nat \X Nat)
  /\ pi \in Nat /\ start \in Nat /\ packetLen \in Int
  /\ mode \in {"len", "body"} /\ doing \in {"waiting", "loop", "closed"}

\* The same stream read at once, from place p on: what is handed on, and whether
\* the connection is closed for a bad length or protocol.
Whole ==
  LET n == Len(received)
      Ok == [packets |-> <<>>, closed |-> FALSE]
      Bad == [packets |-> <<>>, closed |-> TRUE]
      First(p, len, rest) == [rest EXCEPT !.packets = <<<<p, len>>>> \o @]
      parsed[p \in 0..n] ==
        IF p + Needed > n THEN Ok
        ELSE LET len == BodyLength(received, p) IN
             IF BadLength(len) THEN Bad
             ELSE IF p + 2 + len > n THEN Ok
             ELSE IF Refused(received[p + 3]) THEN Bad
             ELSE First(p + 2, len, parsed[p + 2 + len])
      split[p \in 0..n] ==
        LET ends == {k \in 0..LineMax : p + k < n /\ (k = LineMax \/ received[p + k + 1] = Newline)}
            k == CHOOSE j \in ends : \A i \in ends : j <= i
        IN  IF ends = {} THEN Ok ELSE First(p, k, split[p + k + 1])
  IN  IF class = "gm" THEN split[0] ELSE parsed[0]

\* What is handed on does not depend on how the network cuts the stream: between
\* two reads it is what the whole stream so far contains, no packet is lost, split
\* or joined with the next, and the connection is closed for a bad packet only.
PacketsAsSent ==
  doing # "loop" => Whole = [packets |-> posted, closed |-> doing = "closed"]
=============================================================================
