--------------------------------- MODULE Framing -------------------------------
(***************************************************************************)
(* From the bytes of the TLS stream to the packets the engine is given:    *)
(* the HTTP response, the hand-over of what came with it, PacketReader and *)
(* the read branch of the connection task (http.rs, packet.rs,             *)
(* connection.rs:148-208).  TLS may cut the stream anywhere.               *)
(*                                                                         *)
(* `stream` is all the server will ever send and never changes; `read` of  *)
(* its bytes have arrived.  `done` and `starts` are history variables.     *)
(***************************************************************************)
EXTENDS Wire

CONSTANTS
  CR, LF,
  Accepted,             \* header texts that say HTTP/ and 200 in the first line
  Streams,              \* what the server may send
  MaxUnansweredEchoes   \* MAX_UNANSWERED_ECHOES

ASSUME FramingAssumption ==
  /\ CR \in Byte /\ LF \in Byte /\ CR # LF
  /\ Streams \subseteq Seq(Byte)
  /\ MaxUnansweredEchoes \in Nat

VARIABLES
  stream,      \* the server's bytes, arrived or not
  read,        \* how many have arrived
  buf,         \* http_buf, then PacketReader.buf
  mode,        \* where the task is
  unanswered,  \* unanswered_echoes
  delivered,   \* what the engine was given, in order
  done,        \* history: bytes that have left buf
  starts       \* history: where in the stream each delivered packet began

framingVars == <<stream, read, buf, mode, unanswered, delivered, done, starts>>

Modes == {"http",       \* reading the response
          "greeted",    \* in select!, nothing read since the response
          "select",     \* in select!
          "decoding",   \* in the loop over next_packet
          "refused",    \* parse_response failed
          "malformed",  \* next_packet failed
          "over"}       \* the task ended in another way

Waiting == mode \in {"greeted", "select"}
Over    == mode \in {"refused", "malformed", "over"}

FramingInit ==
  /\ stream \in Streams /\ read = 0
  /\ buf = <<>> /\ mode = "http" /\ unanswered = 0
  /\ delivered = <<>> /\ done = 0 /\ starts = <<>>

-------------------------------------------------------------------------------
(* parse_response.  The header ends at the first blank line. *)
BlankLineAt(s, p) == SubSeq(s, p + 1, p + 4) = <<CR, LF, CR, LF>>

HeaderEndsAt(s, p) ==
  /\ p \in 0 .. Len(s) - 4 /\ BlankLineAt(s, p)
  /\ \A q \in 0 .. p - 1 : ~BlankLineAt(s, q)

Arrived(n) == SubSeq(stream, read + 1, read + n)

Receive(n) == /\ n \in 1 .. Len(stream) - read
              /\ read' = read + n
              /\ UNCHANGED <<stream, delivered, starts>>

HttpReadsOn(n) ==        \* Incomplete
  /\ mode = "http" /\ Receive(n)
  /\ buf' = buf \o Arrived(n)
  /\ \A p \in 0 .. Len(buf') : ~HeaderEndsAt(buf', p)
  /\ UNCHANGED <<mode, unanswered, done>>

WrongHttpAccepted(n) ==       \* starts the reader empty
  /\ mode = "http" /\ Receive(n)
  /\ \E p \in 0 .. read' :
       /\ HeaderEndsAt(buf \o Arrived(n), p) /\ SubSeq(buf \o Arrived(n), 1, p) \in Accepted
       /\ done' = p + 4
       /\ buf' = <<>>
  /\ mode' = "greeted"
  /\ UNCHANGED unanswered

(* Whatever follows the blank line goes to the PacketReader. *)
HttpAccepted(n) ==
  /\ mode = "http" /\ Receive(n)
  /\ \E p \in 0 .. read' :
       /\ HeaderEndsAt(buf \o Arrived(n), p) /\ SubSeq(buf \o Arrived(n), 1, p) \in Accepted
       /\ done' = p + 4
       /\ buf' = SubSeq(buf \o Arrived(n), p + 5, Len(buf) + n)
  /\ mode' = "greeted"
  /\ UNCHANGED unanswered

HttpRefused(n) ==
  /\ mode = "http" /\ Receive(n)
  /\ buf' = buf \o Arrived(n)
  /\ \E p \in 0 .. read' : HeaderEndsAt(buf', p) /\ SubSeq(buf', 1, p) \notin Accepted
  /\ mode' = "refused"
  /\ UNCHANGED <<unanswered, done>>

-------------------------------------------------------------------------------
(* The read branch. *)
ReadBranch(n) ==
  /\ Waiting /\ Receive(n)
  /\ buf' = buf \o Arrived(n)
  /\ unanswered' = 0
  /\ mode' = "decoding"
  /\ UNCHANGED done

Consume(length) ==
  /\ delivered' = Append(delivered, Meaning(OnePacket(buf)))
  /\ starts' = Append(starts, done)
  /\ done' = done + length
  /\ buf' = SubSeq(buf, length + 1, Len(buf))
  /\ UNCHANGED <<stream, read, unanswered>>

WrongNextPacket ==       \* drains the buffer with the packet
  /\ mode = "decoding" /\ ~Incomplete(buf) /\ GoodHeader(buf) /\ WellFormed(OnePacket(buf))
  /\ Consume(Len(buf))
  /\ UNCHANGED mode

NextPacket ==
  /\ mode = "decoding" /\ ~Incomplete(buf) /\ GoodHeader(buf) /\ WellFormed(OnePacket(buf))
  /\ Consume(LengthField(buf))
  /\ UNCHANGED mode

NoMorePackets ==
  /\ mode = "decoding" /\ Incomplete(buf)
  /\ mode' = "select"
  /\ UNCHANGED <<stream, read, buf, unanswered, delivered, done, starts>>

NextPacketFails ==
  /\ mode = "decoding" /\ ~Incomplete(buf) /\ ~(GoodHeader(buf) /\ WellFormed(OnePacket(buf)))
  /\ mode' = "malformed"
  /\ UNCHANGED <<stream, read, buf, unanswered, delivered, done, starts>>

-------------------------------------------------------------------------------
(* A read returned nothing or failed, a write failed, the engine or the     *)
(* worker ended the connection.                                             *)
TaskEnds ==
  /\ ~Over
  /\ mode' = "over"
  /\ UNCHANGED <<stream, read, buf, unanswered, delivered, done, starts>>

WrongKeepalive ==        \* does not count
  /\ Waiting
  /\ UNCHANGED framingVars

WrongKeepaliveLimit ==   \* one echo too many
  /\ Waiting
  /\ IF unanswered > MaxUnansweredEchoes
     THEN mode' = "over" /\ UNCHANGED unanswered
     ELSE unanswered' = unanswered + 1 /\ UNCHANGED mode
  /\ UNCHANGED <<stream, read, buf, delivered, done, starts>>

(* The idle timer: an Echo-Request, or the end. *)
Keepalive ==
  /\ Waiting
  /\ IF unanswered >= MaxUnansweredEchoes
     THEN mode' = "over" /\ UNCHANGED unanswered
     ELSE unanswered' = unanswered + 1 /\ UNCHANGED mode
  /\ UNCHANGED <<stream, read, buf, delivered, done, starts>>

FramingNext ==
  \/ \E n \in 1 .. Len(stream) : HttpReadsOn(n) \/ HttpAccepted(n) \/ HttpRefused(n) \/ ReadBranch(n)
  \/ NextPacket \/ NoMorePackets \/ NextPacketFails
  \/ TaskEnds \/ Keepalive

(* The task decodes what it has and the timer ticks; the server owes nothing. *)
FramingSpec ==
  /\ FramingInit /\ [][FramingNext]_framingVars
  /\ WF_framingVars(NextPacket \/ NoMorePackets \/ NextPacketFails)
  /\ WF_framingVars(Keepalive)

-------------------------------------------------------------------------------
(* Every variable has its type. *)
FramingTypeOK ==
  /\ stream \in Seq(Byte) /\ buf \in Seq(Byte)
  /\ read \in 0 .. Len(stream) /\ done \in 0 .. read
  /\ mode \in Modes
  /\ unanswered \in 0 .. MaxUnansweredEchoes
  /\ starts \in Seq(0 .. Len(stream))
  /\ Len(delivered) = Len(starts)

(* What has arrived and not yet left is in the buffer, byte for byte: none  *)
(* is lost, doubled or moved between the response and the packets, or       *)
(* between two reads (connection.rs:165-166, packet.rs:300-325).            *)
NoByteLost == buf = SubSeq(stream, done + 1, read)

(* The packet that begins at p, by the length the server wrote there. *)
LengthAt(p) == Number(stream[p + 3], stream[p + 4])
PacketAt(p) == SubSeq(stream, p + 1, p + LengthAt(p))

MalformedAt(p) ==
  LET rest == SubSeq(stream, p + 1, Len(stream))
  IN ~Incomplete(rest) /\ ~(GoodHeader(rest) /\ WellFormed(OnePacket(rest)))

(* Where the next packet begins after n have been delivered. *)
StartOf(n) == IF n <= Len(starts) THEN starts[n] ELSE done

(* What the engine is given depends on the stream alone, and not on how TLS *)
(* cuts it: the first packet begins behind the response, each other one     *)
(* where the one before ends, each is decoded from its own bytes, and it is *)
(* the stream that is malformed, never a cut (packet.rs:291-326).           *)
CutIndependent ==
  /\ mode \notin {"http", "refused", "over"} => HeaderEndsAt(stream, StartOf(1) - 4)
  /\ \A i \in DOMAIN delivered :
       /\ delivered[i] = Meaning(PacketAt(starts[i]))
       /\ StartOf(i + 1) = starts[i] + LengthAt(starts[i])
  /\ mode = "malformed" => MalformedAt(done)

(* The Protocol-Reject of a frame can be taken apart again by the server    *)
(* just as long as three more headers fit in a packet: nothing cuts the     *)
(* frame to what fits (lcp.rs:164-174, packet.rs:193).                      *)
Whole(pkt) ==
  /\ ~Incomplete(pkt) /\ GoodHeader(pkt) /\ OnePacket(pkt) = pkt
  /\ LET lcp == Meaning(pkt).payload
     IN Meaning(pkt).proto = LcpProtocol /\ Number(lcp[3], lcp[4]) = Len(lcp)

RejectsFit ==
  \A i \in DOMAIN delivered :
    delivered[i].kind = "Ppp" =>
      LET frame == BigEndian(delivered[i].proto) \o delivered[i].payload
      IN Whole(ProtocolReject(0, frame)) <=> Len(frame) + 3 * HeaderLen < Radix * Radix

(* A packet that arrived together with the response is looked at only after *)
(* the next read (connection.rs:165-201).  Sooner or later one comes, if    *)
(* only as the answer to a keepalive, or the connection is given up.        *)
HeldBack == mode = "greeted" /\ ~Incomplete(buf)
HeldBackIsHandled == HeldBack ~> (delivered # <<>> \/ Over)
===============================================================================
