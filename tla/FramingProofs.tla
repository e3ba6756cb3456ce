----------------------------- MODULE FramingProofs -----------------------------
(***************************************************************************)
(* Theorems about Framing, for every radix, every stream of bytes and      *)
(* every way of cutting it; about the formats of Wire, for every message;  *)
(* and about every conversation made of them.                              *)
(***************************************************************************)
EXTENDS Conversations, SequenceTheorems, WellFoundedInduction, TLAPS

(***************************************************************************)
(* Slices.  The bytes of s behind the first a, up to and with the b-th.    *)
(***************************************************************************)
LEMMA SliceProperties ==
  ASSUME NEW S, NEW s \in Seq(S), NEW b \in 0 .. Len(s), NEW a \in 0 .. b
  PROVE  /\ SubSeq(s, a + 1, b) \in Seq(S)
         /\ Len(SubSeq(s, a + 1, b)) = b - a
         /\ \A i \in 1 .. b - a : SubSeq(s, a + 1, b)[i] = s[a + i]
<1>1. \A i \in a + 1 .. b : s[i] \in S
  OBVIOUS
<1> QED
  BY <1>1, SubSeqProperties

(* A slice followed by the next one is the slice of both. *)
LEMMA SliceJoins ==
  ASSUME NEW S, NEW s \in Seq(S), NEW c \in 0 .. Len(s), NEW b \in 0 .. c, NEW a \in 0 .. b
  PROVE  SubSeq(s, a + 1, b) \o SubSeq(s, b + 1, c) = SubSeq(s, a + 1, c)
<1>1. /\ a + 1 \in 1 .. Len(s) + 1
      /\ b \in (a + 1) - 1 .. Len(s)
      /\ c \in b .. Len(s)
  OBVIOUS
<1> QED
  BY <1>1, ConcatAdjacentSubSeq

(* A slice of a slice is a slice. *)
LEMMA SliceOfSlice ==
  ASSUME NEW S, NEW s \in Seq(S), NEW b \in 0 .. Len(s), NEW a \in 0 .. b,
         NEW d \in 0 .. b - a, NEW c \in 0 .. d
  PROVE  SubSeq(SubSeq(s, a + 1, b), c + 1, d) = SubSeq(s, a + c + 1, a + d)
<1> DEFINE u == SubSeq(s, a + 1, b)
<1>1. u \in Seq(S) /\ Len(u) = b - a /\ \A i \in 1 .. b - a : u[i] = s[a + i]
  BY SliceProperties
<1>2. /\ a + d \in 0 .. Len(s) /\ a + c \in 0 .. a + d
      /\ (a + d) - (a + c) = d - c
  OBVIOUS
<1>3. /\ SubSeq(s, a + c + 1, a + d) \in Seq(S)
      /\ Len(SubSeq(s, a + c + 1, a + d)) = d - c
      /\ \A i \in 1 .. d - c : SubSeq(s, a + c + 1, a + d)[i] = s[a + c + i]
  BY <1>2, SliceProperties
<1> HIDE DEF u
<1>4. /\ SubSeq(u, c + 1, d) \in Seq(S)
      /\ Len(SubSeq(u, c + 1, d)) = d - c
      /\ \A i \in 1 .. d - c : SubSeq(u, c + 1, d)[i] = u[c + i]
  BY <1>1, SliceProperties
<1>5. \A i \in 1 .. d - c : SubSeq(u, c + 1, d)[i] = SubSeq(s, a + c + 1, a + d)[i]
  BY <1>1, <1>3, <1>4
<1>6. SubSeq(u, c + 1, d) = SubSeq(s, a + c + 1, a + d)
  BY <1>3, <1>4, <1>5, SeqEqual
<1> QED
  BY <1>6 DEF u

-------------------------------------------------------------------------------
(* The strengthening: nothing leaves the buffer before the response is over. *)
NothingDoneYet == mode = "http" => done = 0 /\ starts = <<>>

FramingIInv == FramingTypeOK /\ NoByteLost /\ NothingDoneYet

(* The invariant holds before the first read.                               *)
LEMMA FramingInitIInv == FramingInit => FramingIInv
<1> SUFFICES ASSUME FramingInit PROVE FramingIInv
  OBVIOUS
<1>1. FramingTypeOK
  BY FramingAssumption DEF FramingInit, FramingTypeOK, Modes
<1>2. NoByteLost
  BY <1>1, SubSeqEmpty DEF FramingInit, FramingTypeOK, NoByteLost
<1> QED
  BY <1>1, <1>2 DEF FramingIInv, FramingInit, NothingDoneYet

(* What a read adds to the buffer is the next slice of the stream. *)
LEMMA ReceiveJoins ==
  ASSUME FramingIInv, NEW n \in Nat, Receive(n)
  PROVE  /\ read' \in Nat /\ read' \in 0 .. Len(stream) /\ done \in 0 .. read' /\ read' = read + n
         /\ stream' = stream /\ starts' = starts /\ delivered' = delivered
         /\ buf \o Arrived(n) = SubSeq(stream, done + 1, read')
         /\ buf \o Arrived(n) \in Seq(Byte)
         /\ Len(buf) + n = read' - done
         /\ Len(buf \o Arrived(n)) = read' - done
<1> USE DEF FramingIInv, FramingTypeOK, NoByteLost, Receive, Arrived
<1>1. /\ stream \in Seq(Byte) /\ read \in 0 .. Len(stream) /\ done \in 0 .. read
      /\ read + n \in 0 .. Len(stream) /\ read \in 0 .. read + n
      /\ done \in 0 .. read + n
  OBVIOUS
<1>2. buf \o Arrived(n) = SubSeq(stream, done + 1, read + n)
  BY <1>1, SliceJoins
<1>3. Len(buf) = read - done
  BY <1>1, SliceProperties
<1>4. /\ SubSeq(stream, done + 1, read + n) \in Seq(Byte)
      /\ Len(SubSeq(stream, done + 1, read + n)) = read + n - done
  <2> HIDE DEF FramingIInv, FramingTypeOK, NoByteLost, Receive, Arrived
  <2> QED
    BY <1>1, SliceProperties
<1> QED
  BY <1>1, <1>2, <1>3, <1>4

(* A packet that is taken off the front leaves the rest of the slice. *)
LEMMA ConsumeRest ==
  ASSUME FramingIInv, NEW length \in 0 .. Len(buf), Consume(length)
  PROVE  /\ done' = done + length /\ done' \in 0 .. read /\ UNCHANGED <<stream, read>>
         /\ buf' \in Seq(Byte) /\ buf' = SubSeq(stream, done' + 1, read)
<1> USE DEF FramingIInv, FramingTypeOK, NoByteLost, Consume
<1>1. /\ stream \in Seq(Byte) /\ read \in 0 .. Len(stream) /\ done \in 0 .. read
      /\ Len(buf) = read - done
  BY SliceProperties
<1>2. /\ length \in 0 .. read - done /\ read - done \in 0 .. read - done
      /\ done + length \in 0 .. read /\ done + (read - done) = read
  BY <1>1
<1>3. SubSeq(buf, length + 1, read - done) = SubSeq(stream, done + length + 1, read)
  BY <1>1, <1>2, SliceOfSlice
<1>4. SubSeq(stream, done + length + 1, read) \in Seq(Byte)
  BY <1>1, <1>2, SliceProperties
<1> QED
  BY <1>1, <1>2, <1>3, <1>4

(* Where next_packet succeeds, the length it goes by lies within the buffer. *)
LEMMA PacketFits ==
  ASSUME FramingIInv, ~Incomplete(buf), GoodHeader(buf)
  PROVE  LengthField(buf) \in HeaderLen .. Len(buf)
<1>1. buf \in Seq(Byte) /\ Len(buf) >= 4
  BY DEF FramingIInv, FramingTypeOK, Incomplete, HeaderLen
<1>2. buf[3] \in Byte /\ buf[4] \in Byte
  BY <1>1
<1>3. LengthField(buf) \in Nat
  BY <1>2, WireAssumption DEF LengthField, Number, Byte
<1> QED
  BY <1>1, <1>3 DEF Incomplete, GoodHeader, HeaderLen

(* The response, whose text is the first p bytes, is taken off the buffer. *)
ResponseTaken(n, p) == /\ HeaderEndsAt(buf \o Arrived(n), p)
                       /\ done' = p + 4
                       /\ buf' = SubSeq(buf \o Arrived(n), p + 5, Len(buf) + n)

LEMMA RestOfResponse ==
  ASSUME NEW s \in Seq(Byte), NEW r \in 0 .. Len(s), NEW p \in Nat,
         HeaderEndsAt(SubSeq(s, 1, r), p)
  PROVE  /\ p + 4 \in 0 .. r
         /\ SubSeq(SubSeq(s, 1, r), p + 5, r) = SubSeq(s, (p + 4) + 1, r)
         /\ SubSeq(s, (p + 4) + 1, r) \in Seq(Byte)
<1>1. Len(SubSeq(s, 0 + 1, r)) = r - 0
  BY SliceProperties
<1>2. p \in 0 .. Len(SubSeq(s, 1, r)) - 4
  BY DEF HeaderEndsAt
<1>3. Len(SubSeq(s, 1, r)) = r
  BY <1>1
<1>4. p + 4 \in 0 .. r
  BY <1>2, <1>3
<1>5. SubSeq(SubSeq(s, 0 + 1, r), (p + 4) + 1, r) = SubSeq(s, 0 + (p + 4) + 1, 0 + r)
  BY <1>4, SliceOfSlice
<1>6. SubSeq(s, (p + 4) + 1, r) \in Seq(Byte)
  BY <1>4, SliceProperties
<1>7. 0 + (p + 4) = p + 4 /\ 0 + r = r /\ 0 + 1 = 1 /\ (p + 4) + 1 = p + 5
  OBVIOUS
<1> QED
  BY <1>4, <1>5, <1>6, <1>7

LEMMA ResponseRest ==
  ASSUME FramingIInv, mode = "http", NEW n \in Nat, Receive(n), NEW p \in Nat, ResponseTaken(n, p)
  PROVE  /\ done' \in 0 .. read' /\ read' \in 0 .. Len(stream) /\ stream' = stream
         /\ starts' = starts /\ delivered' = delivered
         /\ buf' \in Seq(Byte) /\ buf' = SubSeq(stream, done' + 1, read')
         /\ HeaderEndsAt(SubSeq(stream, 1, read'), p) /\ done' = p + 4
<1>1. done = 0 /\ stream \in Seq(Byte)
  BY DEF FramingIInv, FramingTypeOK, NothingDoneYet
<1>2. /\ read' \in Nat /\ read' \in 0 .. Len(stream) /\ stream' = stream
      /\ starts' = starts /\ delivered' = delivered
      /\ buf \o Arrived(n) = SubSeq(stream, done + 1, read') /\ Len(buf) + n = read' - done
  BY ReceiveJoins
<1>3. 0 + 1 = 1 /\ read' - 0 = read'
  <2>1. 0 + 1 = 1 /\ \A r \in Nat : r - 0 = r
    OBVIOUS
  <2>2. read' \in Nat
    BY <1>2
  <2> QED
    BY <2>1, <2>2, Zenon
<1>4. buf \o Arrived(n) = SubSeq(stream, 1, read') /\ Len(buf) + n = read'
  BY <1>1, <1>2, <1>3
<1>5. HeaderEndsAt(SubSeq(stream, 1, read'), p) /\ done' = p + 4
  BY <1>4 DEF ResponseTaken
<1>6. buf' = SubSeq(SubSeq(stream, 1, read'), p + 5, read')
  BY <1>4 DEF ResponseTaken
<1>7. /\ p + 4 \in 0 .. read'
      /\ SubSeq(SubSeq(stream, 1, read'), p + 5, read') = SubSeq(stream, (p + 4) + 1, read')
      /\ SubSeq(stream, (p + 4) + 1, read') \in Seq(Byte)
  BY <1>1, <1>2, <1>5, RestOfResponse
<1> QED
  BY <1>2, <1>5, <1>6, <1>7

(* A step of the task keeps the invariant. *)
LEMMA NextFramingIInv == FramingIInv /\ [FramingNext]_framingVars => FramingIInv'
<1> SUFFICES ASSUME FramingIInv, [FramingNext]_framingVars PROVE FramingIInv'
  OBVIOUS
<1>t. FramingTypeOK /\ NoByteLost /\ NothingDoneYet
  BY DEF FramingIInv
<1>0. MaxUnansweredEchoes \in Nat
  BY FramingAssumption
<1>1. CASE \E n \in 1 .. Len(stream) : HttpReadsOn(n) \/ HttpRefused(n) \/ ReadBranch(n)
  <2>1. PICK n \in 1 .. Len(stream) : HttpReadsOn(n) \/ HttpRefused(n) \/ ReadBranch(n)
    BY <1>1
  <2>2. n \in Nat /\ Receive(n) /\ buf' = buf \o Arrived(n) /\ done' = done
    BY <1>t, <2>1 DEF HttpReadsOn, HttpRefused, ReadBranch, FramingTypeOK
  <2>3. /\ read' \in 0 .. Len(stream) /\ done \in 0 .. read'
        /\ stream' = stream /\ starts' = starts /\ delivered' = delivered
        /\ buf' = SubSeq(stream, done + 1, read') /\ buf' \in Seq(Byte)
    BY <2>2, ReceiveJoins
  <2>4. mode' \in {"http", "refused", "decoding"} /\ (mode' = "http" => mode = "http")
        /\ unanswered' \in {0, unanswered}
    BY <1>t, <2>1 DEF HttpReadsOn, HttpRefused, ReadBranch
  <2>5. NothingDoneYet'
    BY <1>t, <2>2, <2>3, <2>4 DEF NothingDoneYet
  <2>6. NoByteLost'
    BY <2>2, <2>3 DEF NoByteLost
  <2>7. unanswered' \in 0 .. MaxUnansweredEchoes
    BY <1>t, <1>0, <2>4 DEF FramingTypeOK
  <2>8. FramingTypeOK'
    BY <1>t, <2>2, <2>3, <2>4, <2>7 DEF FramingTypeOK, Modes
  <2> QED
    BY <2>5, <2>6, <2>8 DEF FramingIInv
<1>2. CASE \E n \in 1 .. Len(stream) : HttpAccepted(n)
  <2>1. PICK n \in 1 .. Len(stream) : HttpAccepted(n)
    BY <1>2
  <2>2. n \in Nat /\ Receive(n) /\ mode = "http" /\ mode' = "greeted" /\ unanswered' = unanswered
    BY <1>t, <2>1 DEF HttpAccepted, FramingTypeOK
  <2>3. read' \in Nat
    BY <2>2, ReceiveJoins
  <2>4. \E p \in Nat : ResponseTaken(n, p)
    <3>1. PICK p \in 0 .. read' :
            /\ HeaderEndsAt(buf \o Arrived(n), p) /\ done' = p + 4
            /\ buf' = SubSeq(buf \o Arrived(n), p + 5, Len(buf) + n)
      BY <2>1 DEF HttpAccepted
    <3>2. ResponseTaken(n, p)
      BY <3>1 DEF ResponseTaken
    <3> QED
      BY <2>3, <3>1, <3>2
  <2>5. /\ done' \in 0 .. read' /\ read' \in 0 .. Len(stream) /\ stream' = stream
        /\ starts' = starts /\ delivered' = delivered
        /\ buf' \in Seq(Byte) /\ buf' = SubSeq(stream, done' + 1, read')
    BY <2>2, <2>4, ResponseRest
  <2> QED
    BY <1>t, <2>2, <2>5
    DEF FramingIInv, FramingTypeOK, NoByteLost, NothingDoneYet, Modes
<1>3. CASE NextPacket
  <2>1. LengthField(buf) \in 0 .. Len(buf) /\ Consume(LengthField(buf)) /\ mode' = mode
        /\ mode = "decoding"
    BY <1>3, PacketFits DEF NextPacket, HeaderLen
  <2>2. /\ done' \in 0 .. read /\ UNCHANGED <<stream, read>>
        /\ buf' \in Seq(Byte) /\ buf' = SubSeq(stream, done' + 1, read)
    BY <2>1, ConsumeRest
  <2>3. starts' \in Seq(0 .. Len(stream)) /\ Len(delivered') = Len(starts')
    <3>1. done \in 0 .. Len(stream) /\ starts \in Seq(0 .. Len(stream))
          /\ Len(delivered) = Len(starts)
      BY <1>t DEF FramingTypeOK
    <3> QED
      BY <2>1, <3>1 DEF Consume
  <2> QED
    BY <1>t, <2>1, <2>2, <2>3
    DEF FramingIInv, FramingTypeOK, NoByteLost, NothingDoneYet, Consume
<1>4. CASE \/ NoMorePackets \/ NextPacketFails \/ TaskEnds \/ Keepalive
           \/ UNCHANGED framingVars
  <2>1. UNCHANGED <<stream, read, buf, delivered, done, starts>>
    BY <1>4 DEF NoMorePackets, NextPacketFails, TaskEnds, Keepalive, framingVars
  <2>2. mode' \in Modes /\ (mode' = "http" => mode = "http")
    BY <1>t, <1>4 DEF NoMorePackets, NextPacketFails, TaskEnds, Keepalive, Waiting, framingVars,
                      Modes, FramingTypeOK
  <2>3. unanswered' \in 0 .. MaxUnansweredEchoes
    BY <1>t, <1>0, <1>4 DEF NoMorePackets, NextPacketFails, TaskEnds, Keepalive, framingVars,
                            FramingTypeOK
  <2> QED
    BY <1>t, <2>1, <2>2, <2>3 DEF FramingIInv, FramingTypeOK, NoByteLost, NothingDoneYet
<1> QED
  BY <1>1, <1>2, <1>3, <1>4 DEF FramingNext

(* The reader's cursors stay within the stream, whatever the server sends   *)
(* and however it is cut.                                                   *)
THEOREM FramingIsTyped == FramingSpec => []FramingTypeOK
<1>1. FramingIInv => FramingTypeOK
  BY DEF FramingIInv
<1> QED
  BY <1>1, FramingInitIInv, NextFramingIInv, PTL DEF FramingSpec

(* No byte is lost, doubled or moved between the response and the packets   *)
(* or between two reads, in any stream.                                     *)
THEOREM FramingLosesNothing == FramingSpec => []NoByteLost
<1>1. FramingIInv => NoByteLost
  BY DEF FramingIInv
<1> QED
  BY <1>1, FramingInitIInv, NextFramingIInv, PTL DEF FramingSpec

-------------------------------------------------------------------------------
(* A blank line that has arrived is one of the stream, and the other way round. *)
LEMMA BlankLineInStream ==
  ASSUME NEW s \in Seq(Byte), NEW r \in 0 .. Len(s), NEW q \in Nat, q + 4 \in 0 .. r
  PROVE  BlankLineAt(SubSeq(s, 1, r), q) = BlankLineAt(s, q)
<1>1. SubSeq(SubSeq(s, 0 + 1, r), q + 1, q + 4) = SubSeq(s, 0 + q + 1, 0 + (q + 4))
  BY SliceOfSlice
<1>2. 0 + 1 = 1 /\ 0 + q + 1 = q + 1 /\ 0 + (q + 4) = q + 4
  OBVIOUS
<1> QED
  BY <1>1, <1>2 DEF BlankLineAt

(* What has arrived of a response is enough to see where its text ends. *)
LEMMA HeaderInStream ==
  ASSUME NEW s \in Seq(Byte), NEW r \in 0 .. Len(s), NEW p \in Nat,
         HeaderEndsAt(SubSeq(s, 1, r), p)
  PROVE  HeaderEndsAt(s, p)
<1>1. p + 4 \in 0 .. r
  BY RestOfResponse
<1>2. p \in 0 .. Len(s) - 4
  BY <1>1
<1>3. \A q \in 0 .. p : q \in Nat /\ q + 4 \in 0 .. r
  BY <1>1
<1>4. \A q \in 0 .. p : BlankLineAt(SubSeq(s, 1, r), q) = BlankLineAt(s, q)
  BY <1>3, BlankLineInStream
<1>5. BlankLineAt(SubSeq(s, 1, r), p) /\ \A q \in 0 .. p - 1 : ~BlankLineAt(SubSeq(s, 1, r), q)
  BY DEF HeaderEndsAt
<1>6. p \in 0 .. p /\ \A q \in 0 .. p - 1 : q \in 0 .. p
  OBVIOUS
<1>7. BlankLineAt(s, p) /\ \A q \in 0 .. p - 1 : ~BlankLineAt(s, q)
  BY <1>4, <1>5, <1>6
<1> QED
  BY <1>2, <1>7 DEF HeaderEndsAt

(* All the length field takes to be read is the first four bytes. *)
LEMMA LengthInStream ==
  ASSUME NEW s \in Seq(Byte), NEW b \in 0 .. Len(s), NEW a \in 0 .. b, b - a >= 4
  PROVE  /\ LengthField(SubSeq(s, a + 1, b)) = Number(s[a + 3], s[a + 4])
         /\ SubSeq(s, a + 1, b)[1] = s[a + 1]
<1>1. \A i \in 1 .. b - a : SubSeq(s, a + 1, b)[i] = s[a + i]
  BY SliceProperties
<1>2. 1 \in 1 .. b - a /\ 3 \in 1 .. b - a /\ 4 \in 1 .. b - a
  OBVIOUS
<1> QED
  BY <1>1, <1>2 DEF LengthField

(* A whole packet at the front of the buffer is the packet that begins      *)
(* there in the stream.                                                     *)
LEMMA PacketInStream ==
  ASSUME NEW s \in Seq(Byte), NEW b \in 0 .. Len(s), NEW a \in 0 .. b,
         NEW l \in 0 .. b - a, LengthField(SubSeq(s, a + 1, b)) = l
  PROVE  /\ OnePacket(SubSeq(s, a + 1, b)) = SubSeq(s, a + 1, a + l)
         /\ OnePacket(SubSeq(s, a + 1, b)) \in Seq(Byte)
<1>1. SubSeq(SubSeq(s, a + 1, b), 0 + 1, l) = SubSeq(s, a + 0 + 1, a + l)
  BY SliceOfSlice
<1>2. 0 + 1 = 1 /\ a + 0 + 1 = a + 1 /\ a + l \in 0 .. Len(s) /\ a \in 0 .. a + l
  OBVIOUS
<1>3. SubSeq(s, a + 1, a + l) \in Seq(Byte)
  BY <1>2, SliceProperties
<1> QED
  BY <1>1, <1>2, <1>3 DEF OnePacket

(* A packet that next_packet finds is whole in the stream, too. *)
LEMMA FrontInStream ==
  ASSUME FramingIInv, ~Incomplete(buf), GoodHeader(buf)
  PROVE  LET rest == SubSeq(stream, done + 1, Len(stream))
         IN ~Incomplete(rest) /\ GoodHeader(rest) /\ OnePacket(rest) = OnePacket(buf)
<1> DEFINE rest == SubSeq(stream, done + 1, Len(stream))
<1>1. /\ stream \in Seq(Byte) /\ read \in 0 .. Len(stream) /\ done \in 0 .. read
      /\ Len(stream) \in 0 .. Len(stream) /\ done \in 0 .. Len(stream)
      /\ buf = SubSeq(stream, done + 1, read)
  BY DEF FramingIInv, FramingTypeOK, NoByteLost
<1>2. Len(buf) = read - done /\ Len(rest) = Len(stream) - done
  BY <1>1, SliceProperties
<1>3. LengthField(buf) \in HeaderLen .. Len(buf)
  BY PacketFits
<1>4. LengthField(buf) \in 0 .. read - done /\ LengthField(buf) \in 0 .. Len(stream) - done
      /\ read - done >= 4 /\ Len(stream) - done >= 4
  BY <1>1, <1>2, <1>3 DEF HeaderLen
<1>5. LengthField(buf) = LengthField(rest) /\ buf[1] = rest[1]
  BY <1>1, <1>4, LengthInStream
<1>6. OnePacket(buf) = SubSeq(stream, done + 1, done + LengthField(buf))
  BY <1>1, <1>4, PacketInStream
<1>7. OnePacket(rest) = SubSeq(stream, done + 1, done + LengthField(buf))
  BY <1>1, <1>4, <1>5, PacketInStream
<1>8. Len(rest) = Len(stream) - done /\ LengthField(rest) \in 0 .. Len(stream) - done
  BY <1>2, <1>4, <1>5
<1> HIDE DEF rest
<1>9. GoodHeader(rest)
  BY <1>5 DEF GoodHeader
<1>10. ~Incomplete(rest)
  BY <1>1, <1>4, <1>8 DEF Incomplete, HeaderLen
<1> QED
  BY <1>6, <1>7, <1>9, <1>10 DEF rest

(* A packet next_packet fails on is malformed in the stream: more of it     *)
(* would not have helped.                                                   *)
LEMMA MalformedInStream ==
  ASSUME FramingIInv, ~Incomplete(buf), ~(GoodHeader(buf) /\ WellFormed(OnePacket(buf)))
  PROVE  MalformedAt(done)
<1> DEFINE rest == SubSeq(stream, done + 1, Len(stream))
<1>1. /\ stream \in Seq(Byte) /\ read \in 0 .. Len(stream) /\ done \in 0 .. read
      /\ Len(stream) \in 0 .. Len(stream) /\ done \in 0 .. Len(stream)
      /\ buf = SubSeq(stream, done + 1, read)
  BY DEF FramingIInv, FramingTypeOK, NoByteLost
<1>2. CASE ~GoodHeader(buf)
  <2>1. Len(buf) = read - done /\ Len(rest) = Len(stream) - done /\ Len(buf) >= 4
    BY <1>1, SliceProperties DEF Incomplete, HeaderLen
  <2>2. read - done >= 4 /\ Len(stream) - done >= 4
    BY <1>1, <2>1
  <2>3. LengthField(buf) = LengthField(rest) /\ buf[1] = rest[1] /\ Len(rest) >= 4
    BY <1>1, <2>1, <2>2, LengthInStream
  <2> HIDE DEF rest
  <2>4. ~Incomplete(rest) /\ ~(GoodHeader(rest) /\ WellFormed(OnePacket(rest)))
    BY <1>2, <2>3 DEF GoodHeader, Incomplete, HeaderLen
  <2> QED
    BY <2>4 DEF MalformedAt, rest
<1>3. CASE GoodHeader(buf)
  <2>1. ~Incomplete(rest) /\ OnePacket(rest) = OnePacket(buf)
    BY <1>3, FrontInStream
  <2>2. ~WellFormed(OnePacket(rest))
    BY <1>3, <2>1
  <2> QED
    BY <2>1, <2>2 DEF MalformedAt
<1> QED
  BY <1>2, <1>3

-------------------------------------------------------------------------------
(* The strengthening for CutIndependent, which Append needs. *)
DeliveredIsASequence == delivered \in Seq({Meaning(pkt) : pkt \in Seq(Byte)})

CutIInv == FramingIInv /\ CutIndependent /\ DeliveredIsASequence

LEMMA FramingInitCutIInv == FramingInit => CutIInv
<1> SUFFICES ASSUME FramingInit PROVE CutIInv
  OBVIOUS
<1>1. FramingIInv
  BY FramingInitIInv
<1>2. CutIndependent /\ DeliveredIsASequence
  BY DEF FramingInit, CutIndependent, DeliveredIsASequence
<1> QED
  BY <1>1, <1>2 DEF CutIInv

(* A step that delivers nothing leaves the packets as they were. *)
LEMMA NothingDelivered ==
  ASSUME CutIInv, UNCHANGED <<stream, delivered, starts, done>>,
         mode' \notin {"http", "refused", "over"} => mode \notin {"http", "refused", "over"},
         mode' = "malformed" => MalformedAt(done)
  PROVE  CutIndependent' /\ DeliveredIsASequence'
<1>1. \A n : StartOf(n)' = StartOf(n)
  BY DEF StartOf
<1>2. \A n : LengthAt(n)' = LengthAt(n)
  BY DEF LengthAt
<1> QED
  BY <1>1, <1>2 DEF CutIInv, CutIndependent, DeliveredIsASequence, StartOf, LengthAt, PacketAt,
                    MalformedAt

(* The response: the first packet begins where its text ends. *)
LEMMA CutHttpAccepted ==
  ASSUME CutIInv, NEW n \in Nat, HttpAccepted(n)
  PROVE  CutIndependent' /\ DeliveredIsASequence'
<1>1. FramingIInv /\ Receive(n) /\ mode = "http" /\ mode' = "greeted"
  BY DEF CutIInv, HttpAccepted
<1>2. starts = <<>> /\ stream \in Seq(Byte) /\ Len(delivered) = Len(starts)
  BY <1>1 DEF FramingIInv, FramingTypeOK, NothingDoneYet
<1>3. read' \in Nat
  BY <1>1, ReceiveJoins
<1>4. PICK p \in 0 .. read' : ResponseTaken(n, p)
  BY DEF HttpAccepted, ResponseTaken
<1>5. p \in Nat
  BY <1>3
<1>6. /\ read' \in 0 .. Len(stream) /\ stream' = stream /\ starts' = starts
      /\ delivered' = delivered
      /\ HeaderEndsAt(SubSeq(stream, 1, read'), p) /\ done' = p + 4
  BY <1>1, <1>4, <1>5, ResponseRest
<1>7. HeaderEndsAt(stream, p)
  BY <1>2, <1>5, <1>6, HeaderInStream
<1>8. StartOf(1)' = p + 4
  BY <1>2, <1>6 DEF StartOf
<1>9. StartOf(1)' - 4 = p
  BY <1>5, <1>8
<1>10. DeliveredIsASequence' /\ DOMAIN delivered' = {}
  BY <1>2, <1>6 DEF CutIInv, DeliveredIsASequence
<1> QED
  BY <1>1, <1>6, <1>7, <1>9, <1>10 DEF CutIndependent, HeaderEndsAt, BlankLineAt

(* A packet: it is the one of the stream, and the next begins where it ends. *)
LEMMA CutNextPacket ==
  ASSUME CutIInv, NextPacket
  PROVE  CutIndependent' /\ DeliveredIsASequence'
<1> DEFINE l == LengthField(buf)
           m == Meaning(OnePacket(buf))
           k == Len(starts)
<1>1. /\ FramingIInv /\ mode = "decoding" /\ mode' = mode
      /\ ~Incomplete(buf) /\ GoodHeader(buf) /\ stream' = stream
      /\ delivered' = Append(delivered, m) /\ starts' = Append(starts, done) /\ done' = done + l
  BY DEF CutIInv, NextPacket, Consume
<1>2. /\ stream \in Seq(Byte) /\ read \in 0 .. Len(stream) /\ done \in 0 .. read
      /\ buf = SubSeq(stream, done + 1, read) /\ starts \in Seq(0 .. Len(stream))
      /\ delivered \in Seq({Meaning(pkt) : pkt \in Seq(Byte)}) /\ Len(delivered) = k
      /\ k \in Nat
  BY <1>1 DEF CutIInv, FramingIInv, FramingTypeOK, NoByteLost, DeliveredIsASequence
<1>3. Len(buf) = read - done
  BY <1>2, SliceProperties
<1>4. l \in HeaderLen .. Len(buf)
  BY <1>1, PacketFits
<1>5. l \in 0 .. read - done /\ read - done >= 4
  BY <1>2, <1>3, <1>4 DEF HeaderLen
<1>6. /\ OnePacket(buf) = SubSeq(stream, done + 1, done + l)
      /\ OnePacket(buf) \in Seq(Byte)
  BY <1>2, <1>5, PacketInStream
<1>7. l = LengthAt(done)
  BY <1>2, <1>5, LengthInStream DEF LengthAt
<1>8. m = Meaning(PacketAt(done))
  BY <1>6, <1>7 DEF PacketAt
<1> HIDE DEF l, m
<1>9. m \in {Meaning(pkt) : pkt \in Seq(Byte)}
  BY <1>6 DEF m
<1>10. DeliveredIsASequence'
  BY <1>1, <1>2, <1>9 DEF DeliveredIsASequence
<1>11. /\ Len(starts') = k + 1 /\ starts'[k + 1] = done
       /\ \A i \in 1 .. k : starts'[i] = starts[i]
  BY <1>1, <1>2
<1>12. /\ DOMAIN delivered = 1 .. k /\ DOMAIN delivered' = 1 .. k + 1
       /\ delivered'[k + 1] = m
       /\ \A i \in 1 .. k : delivered'[i] = delivered[i]
  BY <1>1, <1>2, <1>9
<1>13. \A i \in 1 .. k + 1 : StartOf(i)' = StartOf(i)
  <2>1. \A i \in 1 .. k + 1 : StartOf(i)' = starts'[i]
    BY <1>2, <1>11 DEF StartOf
  <2>2. \A i \in 1 .. k : StartOf(i) = starts[i]
    BY <1>2 DEF StartOf
  <2>3. StartOf(k + 1) = done
    BY <1>2 DEF StartOf
  <2>4. \A i \in 1 .. k + 1 : i \in 1 .. k \/ i = k + 1
    BY <1>2
  <2> QED
    BY <1>11, <2>1, <2>2, <2>3, <2>4
<1>14. \A i \in Nat : i > k + 1 => StartOf(i)' = done + l
  BY <1>1, <1>2, <1>11 DEF StartOf
<1>15. /\ HeaderEndsAt(stream, StartOf(1) - 4)
       /\ \A i \in 1 .. k : /\ delivered[i] = Meaning(PacketAt(starts[i]))
                             /\ StartOf(i + 1) = starts[i] + LengthAt(starts[i])
  BY <1>1, <1>12 DEF CutIInv, CutIndependent
<1>16. \A q : LengthAt(q)' = LengthAt(q) /\ PacketAt(q)' = PacketAt(q)
  BY <1>1 DEF LengthAt, PacketAt
<1>17. StartOf(1)' = StartOf(1)
  BY <1>2, <1>13
<1>18. ASSUME NEW i \in 1 .. k + 1
       PROVE  /\ delivered'[i] = Meaning(PacketAt(starts'[i]))
              /\ StartOf(i + 1)' = starts'[i] + LengthAt(starts'[i])
  <2>1. CASE i \in 1 .. k
    <3>1. i + 1 \in 1 .. k + 1
      BY <1>2, <2>1
    <3>2. StartOf(i + 1)' = StartOf(i + 1)
      BY <1>13, <3>1
    <3>3. starts'[i] = starts[i] /\ delivered'[i] = delivered[i]
      BY <1>11, <1>12, <2>1
    <3>4. delivered[i] = Meaning(PacketAt(starts[i])) /\ StartOf(i + 1) = starts[i] + LengthAt(starts[i])
      BY <1>15, <2>1
    <3> QED
      BY <3>2, <3>3, <3>4
  <2>2. CASE i = k + 1
    <3>1. starts'[i] = done /\ delivered'[i] = m
      BY <1>11, <1>12, <2>2
    <3>2. i + 1 \in Nat /\ i + 1 > k + 1
      BY <1>2, <2>2
    <3>3. StartOf(i + 1)' = done + l
      BY <1>14, <3>2
    <3> QED
      BY <1>7, <1>8, <3>1, <3>3
  <2> QED
    BY <1>2, <2>1, <2>2
<1>19. \A i \in DOMAIN delivered' :
         /\ delivered'[i] = Meaning(PacketAt(starts[i])')
         /\ StartOf(i + 1)' = (starts[i] + LengthAt(starts[i]))'
  BY <1>1, <1>12, <1>16, <1>18 DEF PacketAt, LengthAt
<1>20. HeaderEndsAt(stream, StartOf(1) - 4)'
  BY <1>1, <1>15, <1>17 DEF HeaderEndsAt, BlankLineAt
<1>21. CutIndependent'
  BY <1>1, <1>19, <1>20 DEF CutIndependent
<1> QED
  BY <1>10, <1>21

(* A step of the task keeps it, too. *)
LEMMA NextCutIInv == CutIInv /\ [FramingNext]_framingVars => CutIInv'
<1> SUFFICES ASSUME CutIInv, [FramingNext]_framingVars PROVE CutIInv'
  OBVIOUS
<1>1. FramingIInv'
  BY NextFramingIInv DEF CutIInv
<1>2. FramingTypeOK
  BY DEF CutIInv, FramingIInv
<1>3. CASE \E n \in 1 .. Len(stream) : HttpReadsOn(n) \/ HttpRefused(n) \/ ReadBranch(n)
  <2>1. UNCHANGED <<stream, delivered, starts, done>>
    BY <1>3 DEF HttpReadsOn, HttpRefused, ReadBranch, Receive
  <2>2. \/ mode' = mode /\ mode = "http"
        \/ mode' = "refused"
        \/ mode \in {"greeted", "select"} /\ mode' = "decoding"
    BY <1>3 DEF HttpReadsOn, HttpRefused, ReadBranch, Waiting
  <2> QED
    BY <1>1, <2>1, <2>2, NothingDelivered DEF CutIInv
<1>4. CASE \E n \in 1 .. Len(stream) : HttpAccepted(n)
  <2>1. PICK n \in 1 .. Len(stream) : HttpAccepted(n)
    BY <1>4
  <2>2. n \in Nat
    BY <1>2, <2>1 DEF FramingTypeOK
  <2> QED
    BY <1>1, <2>1, <2>2, CutHttpAccepted DEF CutIInv
<1>5. CASE NextPacket
  BY <1>1, <1>5, CutNextPacket DEF CutIInv
<1>6. CASE NextPacketFails
  <2>1. /\ UNCHANGED <<stream, delivered, starts, done>>
        /\ mode = "decoding" /\ mode' = "malformed"
    BY <1>6 DEF NextPacketFails
  <2>2. MalformedAt(done)
    BY <1>6, MalformedInStream DEF CutIInv, NextPacketFails
  <2> QED
    BY <1>1, <2>1, <2>2, NothingDelivered DEF CutIInv
<1>7. CASE NoMorePackets \/ TaskEnds \/ Keepalive \/ UNCHANGED framingVars
  <2>1. UNCHANGED <<stream, delivered, starts, done>>
    BY <1>7 DEF NoMorePackets, TaskEnds, Keepalive, framingVars
  <2>2. \/ mode' = mode
        \/ mode = "decoding" /\ mode' = "select"
        \/ mode' = "over"
    BY <1>7 DEF NoMorePackets, TaskEnds, Keepalive, framingVars
  <2>3. mode = "malformed" => MalformedAt(done)
    BY DEF CutIInv, CutIndependent
  <2> QED
    BY <1>1, <2>1, <2>2, <2>3, NothingDelivered DEF CutIInv
<1> QED
  BY <1>3, <1>4, <1>5, <1>6, <1>7 DEF FramingNext

(* What the engine is given depends on the stream alone, for every stream   *)
(* and every way TLS may cut it.                                            *)
THEOREM FramingIsCutIndependent == FramingSpec => []CutIndependent
<1>1. CutIInv => CutIndependent
  BY DEF CutIInv
<1> QED
  BY <1>1, FramingInitCutIInv, NextCutIInv, PTL DEF FramingSpec

-------------------------------------------------------------------------------
(***************************************************************************)
(* Two bytes and the number they are.                                      *)
(***************************************************************************)
LEMMA NumberFits ==
  ASSUME NEW hi \in Byte, NEW lo \in Byte
  PROVE  Number(hi, lo) \in 0 .. Radix * Radix - 1
<1>1. /\ Radix \in Nat /\ hi \in Nat /\ lo \in Nat /\ hi <= Radix - 1 /\ lo <= Radix - 1
  BY WireAssumption DEF Byte
<1>2. hi * Radix <= (Radix - 1) * Radix /\ hi * Radix \in Nat
  BY <1>1
<1>3. (Radix - 1) * Radix = Radix * Radix - Radix
  BY <1>1
<1> QED
  BY <1>1, <1>2, <1>3 DEF Number

LEMMA BigEndianBytes ==
  ASSUME NEW n \in Nat
  PROVE  BigEndian(n) \in Seq(Byte) /\ Len(BigEndian(n)) = 2
         /\ BigEndian(n)[1] \in Byte /\ BigEndian(n)[2] \in Byte
<1>1. Radix \in Nat \ {0}
  BY WireAssumption
<1>2. n \div Radix \in Nat
  BY <1>1
<1>3. n % Radix \in Byte /\ (n \div Radix) % Radix \in Byte
  BY <1>1, <1>2 DEF Byte
<1> QED
  BY <1>3 DEF BigEndian

(* A number that fits in two bytes comes back from them. *)
LEMMA BigEndianNumber ==
  ASSUME NEW n \in 0 .. Radix * Radix - 1
  PROVE  Number(BigEndian(n)[1], BigEndian(n)[2]) = n
<1> DEFINE q == n \div Radix
<1>1. Radix \in Nat \ {0} /\ n \in Nat /\ n < Radix * Radix
  BY WireAssumption
<1>2. q \in Nat /\ n % Radix \in 0 .. Radix - 1 /\ n = Radix * q + (n % Radix)
  BY <1>1
<1> HIDE DEF q
<1>3. q < Radix
  <2>1. SUFFICES ASSUME q >= Radix PROVE FALSE
    BY <1>1, <1>2
  <2>2. Radix * q >= Radix * Radix
    BY <1>1, <1>2, <2>1
  <2> QED
    BY <1>1, <1>2, <2>2
<1>4. q % Radix = q
  BY <1>1, <1>2, <1>3
<1>5. q * Radix + (n % Radix) = n
  BY <1>1, <1>2
<1> QED
  BY <1>4, <1>5 DEF q, BigEndian, Number

-------------------------------------------------------------------------------
(***************************************************************************)
(* What is encoded comes back from decoding.                               *)
(***************************************************************************)
LEMMA BehindHeader ==
  ASSUME NEW S, NEW t \in Seq(S), NEW u \in Seq(S)
  PROVE  /\ t \o u \in Seq(S) /\ Len(t \o u) = Len(t) + Len(u)
         /\ \A i \in 1 .. Len(t) : (t \o u)[i] = t[i]
         /\ SubSeq(t \o u, Len(t) + 1, Len(t \o u)) = u
<1>1. /\ t \o u \in Seq(S) /\ Len(t \o u) = Len(t) + Len(u)
      /\ Len(t) \in Nat /\ Len(u) \in Nat
      /\ \A i \in 1 .. Len(t) + Len(u) : (t \o u)[i] = IF i <= Len(t) THEN t[i] ELSE u[i - Len(t)]
  BY ConcatProperties, LenProperties
<1> DEFINE v == t \o u
<1>2. \A i \in 1 .. Len(u) : v[Len(t) + i] = u[i]
  <2> SUFFICES ASSUME NEW i \in 1 .. Len(u) PROVE v[Len(t) + i] = u[i]
    OBVIOUS
  <2>1. Len(t) + i \in 1 .. Len(t) + Len(u) /\ ~(Len(t) + i <= Len(t)) /\ (Len(t) + i) - Len(t) = i
    BY <1>1
  <2> QED
    BY <1>1, <2>1
<1>3. v \in Seq(S) /\ Len(v) = Len(t) + Len(u)
  BY <1>1
<1>4. \A i \in 1 .. Len(t) : v[i] = t[i]
  BY <1>1
<1> HIDE DEF v
<1>5. /\ SubSeq(v, Len(t) + 1, Len(v)) \in Seq(S)
      /\ Len(SubSeq(v, Len(t) + 1, Len(v))) = Len(u)
      /\ \A i \in 1 .. Len(u) : SubSeq(v, Len(t) + 1, Len(v))[i] = v[Len(t) + i]
  BY <1>1, <1>3, SliceProperties
<1>6. SubSeq(v, Len(t) + 1, Len(v)) = u
  BY <1>1, <1>2, <1>5, SeqEqual
<1> QED
  BY <1>3, <1>4, <1>6 DEF v

LEMMA TwoAndTwo ==
  ASSUME NEW S, NEW t \in Seq(S), NEW u \in Seq(S), Len(t) = 2, Len(u) = 2
  PROVE  /\ t \o u \in Seq(S) /\ Len(t \o u) = HeaderLen
         /\ (t \o u)[1] = t[1] /\ (t \o u)[2] = t[2]
         /\ (t \o u)[3] = u[1] /\ (t \o u)[4] = u[2]
<1>1. t \o u \in Seq(S) /\ Len(t \o u) = 2 + 2
  BY ConcatProperties
<1>2. \A i \in 1 .. Len(t) + Len(u) :
        (t \o u)[i] = IF i <= Len(t) THEN t[i] ELSE u[i - Len(t)]
  BY ConcatProperties
<1>3. /\ 1 \in 1 .. Len(t) + Len(u) /\ 2 \in 1 .. Len(t) + Len(u)
      /\ 3 \in 1 .. Len(t) + Len(u) /\ 4 \in 1 .. Len(t) + Len(u)
      /\ 3 - Len(t) = 1 /\ 4 - Len(t) = 2 /\ 2 <= Len(t) /\ ~(3 <= Len(t)) /\ ~(4 <= Len(t))
      /\ 1 <= Len(t) /\ 2 + 2 = 4
  OBVIOUS
<1> QED
  BY <1>1, <1>2, <1>3 DEF HeaderLen

(* A packet of data, if its length fits in the field for it. *)
LEMMA DataPacket ==
  ASSUME NEW frame \in Seq(Byte)
  PROVE  LET pkt == EncodeData(frame)
         IN  /\ pkt \in Seq(Byte) /\ Len(pkt) = HeaderLen + Len(frame)
             /\ LengthField(pkt) \in 0 .. Radix * Radix - 1
             /\ SubSeq(pkt, HeaderLen + 1, Len(pkt)) = frame
             /\ pkt[1] = ProtoVersion /\ ~IsCtrl(pkt)
             /\ Len(pkt) < Radix * Radix => LengthField(pkt) = Len(pkt)
<1> DEFINE n == HeaderLen + Len(frame)
           t == <<ProtoVersion, 0>>
           h == t \o BigEndian(n)
<1>1. n \in Nat /\ Len(frame) \in Nat
  BY LenProperties DEF HeaderLen
<1>2. t \in Seq(Byte) /\ Len(t) = 2 /\ t[1] = ProtoVersion /\ t[2] = 0
  BY WireAssumption DEF Byte
<1> HIDE DEF n, t
<1>3. /\ BigEndian(n) \in Seq(Byte) /\ Len(BigEndian(n)) = 2
      /\ BigEndian(n)[1] \in Byte /\ BigEndian(n)[2] \in Byte
  BY <1>1, BigEndianBytes
<1>4. /\ h \in Seq(Byte) /\ Len(h) = HeaderLen
      /\ h[1] = ProtoVersion /\ h[2] = 0 /\ h[3] = BigEndian(n)[1] /\ h[4] = BigEndian(n)[2]
  BY <1>2, <1>3, TwoAndTwo
<1> HIDE DEF h
<1>5. EncodeData(frame) = h \o frame
  BY DEF EncodeData, h, t, n
<1>6. /\ h \o frame \in Seq(Byte) /\ Len(h \o frame) = n
      /\ (h \o frame)[1] = ProtoVersion /\ (h \o frame)[2] = 0
      /\ (h \o frame)[3] = BigEndian(n)[1] /\ (h \o frame)[4] = BigEndian(n)[2]
      /\ SubSeq(h \o frame, HeaderLen + 1, Len(h \o frame)) = frame
  <2>1. /\ h \o frame \in Seq(Byte) /\ Len(h \o frame) = Len(h) + Len(frame)
        /\ \A i \in 1 .. Len(h) : (h \o frame)[i] = h[i]
        /\ SubSeq(h \o frame, Len(h) + 1, Len(h \o frame)) = frame
    BY <1>4, BehindHeader
  <2>2. /\ (h \o frame)[1] = h[1] /\ (h \o frame)[2] = h[2]
        /\ (h \o frame)[3] = h[3] /\ (h \o frame)[4] = h[4]
    BY <1>4, <2>1 DEF HeaderLen
  <2>3. n = Len(h) + Len(frame)
    BY <1>4 DEF n
  <2>4. /\ h \o frame \in Seq(Byte) /\ Len(h \o frame) = n
        /\ SubSeq(h \o frame, HeaderLen + 1, Len(h \o frame)) = frame
    BY <1>4, <2>1, <2>3
  <2> QED
    BY <1>4, <2>2, <2>4, Zenon
<1>7. /\ LengthField(h \o frame) \in 0 .. Radix * Radix - 1
      /\ n < Radix * Radix => LengthField(h \o frame) = n
  <2>1. LengthField(h \o frame) = Number(BigEndian(n)[1], BigEndian(n)[2])
    BY <1>6 DEF LengthField
  <2>2. n < Radix * Radix => n \in 0 .. Radix * Radix - 1
    BY <1>1, WireAssumption
  <2> QED
    BY <1>3, <2>1, <2>2, NumberFits, BigEndianNumber
<1>8. ~IsCtrl(h \o frame)
  BY <1>6 DEF IsCtrl
<1> QED
  BY <1>5, <1>6, <1>7, <1>8 DEF n

(* A PPP frame, with Address and Control in front. *)
LEMMA PppFrameBytes ==
  ASSUME NEW proto \in 0 .. Radix * Radix - 1, NEW payload \in Seq(Byte)
  PROVE  LET frame == EncodePpp(proto, payload)
         IN  /\ frame \in Seq(Byte) /\ Len(frame) = 4 + Len(payload)
             /\ PppFrame(StripAddressControl(frame))
                  = [kind |-> "Ppp", proto |-> proto, payload |-> payload]
<1>1. /\ AddressControl \in Seq(Byte) /\ Len(AddressControl) = 2
      /\ AddressControl = <<AddressControl[1], AddressControl[2]>>
  <2>1. PICK x \in Byte, y \in Byte : AddressControl = <<x, y>>
    BY WireAssumption
  <2> QED
    BY <2>1
<1>2. /\ proto \in Nat /\ BigEndian(proto) \in Seq(Byte) /\ Len(BigEndian(proto)) = 2
      /\ Number(BigEndian(proto)[1], BigEndian(proto)[2]) = proto
  BY BigEndianBytes, BigEndianNumber, WireAssumption
<1> DEFINE a == AddressControl
           b == BigEndian(proto)
           u == b \o payload
<1> HIDE DEF a, b
<1>3. /\ u \in Seq(Byte) /\ Len(u) = 2 + Len(payload) /\ Len(payload) \in Nat
      /\ u[1] = b[1] /\ u[2] = b[2]
      /\ SubSeq(u, 3, Len(u)) = payload
  <2>1. b \in Seq(Byte) /\ Len(b) = 2
    BY <1>2 DEF b
  <2>2. /\ u \in Seq(Byte) /\ Len(u) = Len(b) + Len(payload)
        /\ \A i \in 1 .. Len(b) : u[i] = b[i]
        /\ SubSeq(u, Len(b) + 1, Len(u)) = payload
    BY <2>1, BehindHeader
  <2> HIDE DEF u
  <2>3. 2 + 1 = 3 /\ Len(payload) \in Nat
    BY LenProperties
  <2> QED
    BY <2>1, <2>2, <2>3
<1> DEFINE v == a \o u
<1>4. EncodePpp(proto, payload) = v
  <2>1. (a \o b) \o payload = a \o (b \o payload)
    BY <1>1, <1>2, ConcatAssociative DEF a, b
  <2> QED
    BY <2>1 DEF EncodePpp, a, b
<1> HIDE DEF u
<1>5. /\ v \in Seq(Byte) /\ Len(v) = 2 + Len(u) /\ v[1] = a[1] /\ v[2] = a[2]
      /\ SubSeq(v, 3, Len(v)) = u
  <2>1. a \in Seq(Byte) /\ Len(a) = 2
    BY <1>1 DEF a
  <2>2. /\ v \in Seq(Byte) /\ Len(v) = Len(a) + Len(u)
        /\ \A i \in 1 .. Len(a) : v[i] = a[i]
        /\ SubSeq(v, Len(a) + 1, Len(v)) = u
    BY <1>3, <2>1, BehindHeader
  <2> HIDE DEF v
  <2>3. 2 + 1 = 3
    OBVIOUS
  <2> QED
    BY <2>1, <2>2, <2>3
<1> HIDE DEF v
<1>6. StripAddressControl(v) = u
  <2>1. Len(v) >= 2 /\ <<v[1], v[2]>> = AddressControl
    BY <1>1, <1>3, <1>5 DEF a
  <2> QED
    BY <1>5, <2>1 DEF StripAddressControl
<1>7. PppFrame(u) = [kind |-> "Ppp", proto |-> proto, payload |-> payload]
  <2>1. ~(Len(u) < 2)
    BY <1>3
  <2>2. Number(u[1], u[2]) = proto
    BY <1>2, <1>3 DEF b
  <2> QED
    BY <1>3, <2>1, <2>2, Zenon DEF PppFrame
<1> QED
  BY <1>3, <1>4, <1>5, <1>6, <1>7

(***************************************************************************)
(* Packets whose length field tells their length.                          *)
(***************************************************************************)
Sound(pkt) ==
  /\ pkt \in Seq(Byte) /\ Len(pkt) \in Nat /\ Len(pkt) >= HeaderLen
  /\ pkt[1] = ProtoVersion /\ LengthField(pkt) = Len(pkt) /\ WellFormed(pkt)

(* Where the bytes of pkt are in s, behind the first p. *)
Lies(s, p, pkt) ==
  p \in Nat /\ p + Len(pkt) <= Len(s) /\ \A i \in 1 .. Len(pkt) : s[p + i] = pkt[i]

LEMMA LiesSlice ==
  ASSUME NEW S, NEW s \in Seq(S), NEW pkt \in Seq(S), NEW p \in Nat, Lies(s, p, pkt)
  PROVE  SubSeq(s, p + 1, p + Len(pkt)) = pkt
<1> DEFINE b == p + Len(pkt)
<1>1. b \in 0 .. Len(s) /\ p \in 0 .. b /\ b - p = Len(pkt)
  BY LenProperties DEF Lies
<1> DEFINE x == SubSeq(s, p + 1, b)
<1> HIDE DEF b
<1>2. x \in Seq(S) /\ Len(x) = Len(pkt) /\ \A i \in 1 .. Len(pkt) : x[i] = s[p + i]
  BY <1>1, SliceProperties
<1> HIDE DEF x
<1>3. \A i \in 1 .. Len(pkt) : x[i] = pkt[i]
  BY <1>2 DEF Lies
<1>4. x = pkt
  BY <1>2, <1>3, SeqEqual
<1> QED
  BY <1>4 DEF x, b

(* The decoder takes such a packet whole from wherever it lies, once it has  *)
(* all arrived.                                                              *)
LEMMA TakenWhole ==
  ASSUME NEW s \in Seq(Byte), NEW pkt, Sound(pkt), NEW p, Lies(s, p, pkt),
         NEW b \in p + Len(pkt) .. Len(s)
  PROVE  LET v == SubSeq(s, p + 1, b)
         IN ~Incomplete(v) /\ GoodHeader(v) /\ LengthField(v) = Len(pkt) /\ OnePacket(v) = pkt
<1> DEFINE v == SubSeq(s, p + 1, b)
<1>1. /\ pkt \in Seq(Byte) /\ Len(pkt) \in Nat /\ Len(pkt) >= 4 /\ pkt[1] = ProtoVersion
      /\ Number(pkt[3], pkt[4]) = Len(pkt)
      /\ p \in Nat /\ p + Len(pkt) <= Len(s) /\ \A i \in 1 .. Len(pkt) : s[p + i] = pkt[i]
      /\ Len(s) \in Nat
  BY LenProperties DEF Sound, Lies, LengthField, HeaderLen
<1>2. b \in 0 .. Len(s) /\ p \in 0 .. b /\ b - p >= Len(pkt)
  BY <1>1
<1>3. Len(v) = b - p
  BY <1>2, SliceProperties
<1>4. LengthField(v) = Number(s[p + 3], s[p + 4]) /\ v[1] = s[p + 1]
  BY <1>1, <1>2, LengthInStream
<1>5. s[p + 1] = pkt[1] /\ s[p + 3] = pkt[3] /\ s[p + 4] = pkt[4]
  BY <1>1
<1>6. LengthField(v) = Len(pkt) /\ v[1] = ProtoVersion
  BY <1>1, <1>4, <1>5
<1>7. OnePacket(v) = SubSeq(s, p + 1, p + Len(pkt))
  <2>1. Len(pkt) \in 0 .. b - p
    BY <1>1, <1>2
  <2> QED
    BY <1>2, <1>6, <2>1, PacketInStream
<1>8. OnePacket(v) = pkt
  BY <1>1, <1>7, LiesSlice
<1> HIDE DEF v
<1>9. GoodHeader(v) /\ ~Incomplete(v)
  BY <1>1, <1>2, <1>3, <1>6 DEF GoodHeader, Incomplete, HeaderLen
<1> QED
  BY <1>6, <1>8, <1>9 DEF v

LEMMA TakenFromFront ==
  ASSUME NEW pkt, Sound(pkt), NEW rest \in Seq(Byte)
  PROVE  ~Incomplete(pkt \o rest) /\ GoodHeader(pkt \o rest) /\ OnePacket(pkt \o rest) = pkt
<1> DEFINE v == pkt \o rest
<1>1. pkt \in Seq(Byte) /\ Len(pkt) \in Nat
  BY DEF Sound
<1>2. /\ v \in Seq(Byte) /\ Len(v) = Len(pkt) + Len(rest) /\ Len(rest) \in Nat
      /\ \A i \in 1 .. Len(pkt) : v[i] = pkt[i]
  BY <1>1, BehindHeader, LenProperties
<1> HIDE DEF v
<1>3. Lies(v, 0, pkt)
  BY <1>1, <1>2 DEF Lies
<1>4. Len(v) \in 0 + Len(pkt) .. Len(v)
  BY <1>1, <1>2
<1>5. SubSeq(v, 0 + 1, Len(v)) = v
  BY <1>2
<1>6. ~Incomplete(v) /\ GoodHeader(v) /\ OnePacket(v) = pkt
  <2> DEFINE p == 0
             w == SubSeq(v, p + 1, Len(v))
  <2>1. v \in Seq(Byte) /\ Lies(v, p, pkt) /\ Len(v) \in p + Len(pkt) .. Len(v)
    BY <1>2, <1>3, <1>4
  <2> HIDE DEF p
  <2>2. ~Incomplete(w) /\ GoodHeader(w) /\ OnePacket(w) = pkt
    BY <2>1, TakenWhole
  <2>3. w = v
    BY <1>5 DEF p
  <2> QED
    BY <2>2, <2>3
<1> QED
  BY <1>6 DEF v

LEMMA DataSound ==
  ASSUME NEW frame \in Seq(Byte), Len(EncodeData(frame)) < Radix * Radix
  PROVE  /\ Sound(EncodeData(frame))
         /\ Meaning(EncodeData(frame)) = PppFrame(StripAddressControl(frame))
<1> DEFINE pkt == EncodeData(frame)
<1>1. /\ pkt \in Seq(Byte) /\ Len(pkt) = HeaderLen + Len(frame)
      /\ SubSeq(pkt, HeaderLen + 1, Len(pkt)) = frame
      /\ pkt[1] = ProtoVersion /\ ~IsCtrl(pkt)
      /\ Len(pkt) < Radix * Radix => LengthField(pkt) = Len(pkt)
  BY DataPacket
<1>2. Len(pkt) < Radix * Radix
  OBVIOUS
<1> HIDE DEF pkt
<1>3. Len(pkt) \in Nat /\ Len(pkt) >= HeaderLen
  BY <1>1, LenProperties DEF HeaderLen
<1>4. Sound(pkt)
  BY <1>1, <1>2, <1>3 DEF Sound, WellFormed
<1>5. Meaning(pkt) = PppFrame(StripAddressControl(frame))
  BY <1>1 DEF Meaning
<1> QED
  BY <1>4, <1>5 DEF pkt

(* Every PPP frame that fits in a packet comes back as it was sent: the     *)
(* decoder takes it whole, from the front of any buffer that holds it, and  *)
(* finds the protocol and the payload (packet.rs:193-209, ppp.rs:61-97).    *)
THEOREM PppComesBack ==
  ASSUME NEW proto \in 0 .. Radix * Radix - 1, NEW payload \in Seq(Byte),
         Len(payload) + 2 * HeaderLen < Radix * Radix, NEW rest \in Seq(Byte)
  PROVE  LET pkt == EncodeData(EncodePpp(proto, payload))
         IN  /\ ~Incomplete(pkt \o rest) /\ GoodHeader(pkt \o rest)
             /\ OnePacket(pkt \o rest) = pkt /\ WellFormed(pkt)
             /\ Meaning(pkt) = [kind |-> "Ppp", proto |-> proto, payload |-> payload]
<1> DEFINE frame == EncodePpp(proto, payload)
           pkt == EncodeData(frame)
<1>1. /\ frame \in Seq(Byte) /\ Len(frame) = 4 + Len(payload) /\ Len(payload) \in Nat
      /\ PppFrame(StripAddressControl(frame)) = [kind |-> "Ppp", proto |-> proto, payload |-> payload]
  BY PppFrameBytes, LenProperties
<1> HIDE DEF frame
<1>2. Len(pkt) < Radix * Radix
  <2>1. Len(pkt) = HeaderLen + Len(frame)
    BY <1>1, DataPacket
  <2>2. Radix * Radix \in Nat
    BY WireAssumption
  <2> HIDE DEF pkt
  <2> QED
    BY <1>1, <2>1, <2>2 DEF HeaderLen
<1>3. Sound(pkt) /\ Meaning(pkt) = [kind |-> "Ppp", proto |-> proto, payload |-> payload]
  BY <1>1, <1>2, DataSound
<1> HIDE DEF pkt
<1>4. ~Incomplete(pkt \o rest) /\ GoodHeader(pkt \o rest) /\ OnePacket(pkt \o rest) = pkt
  BY <1>3, TakenFromFront
<1> QED
  BY <1>3, <1>4 DEF Sound, pkt, frame

(* An LCP frame: its length follows the code and the identifier. *)
LEMMA CpBytes ==
  ASSUME NEW code \in Byte, NEW id \in Byte, NEW data \in Seq(Byte)
  PROVE  LET cp == EncodeCp(code, id, data)
         IN  /\ cp \in Seq(Byte) /\ Len(cp) = HeaderLen + Len(data)
             /\ Len(cp) < Radix * Radix => Number(cp[3], cp[4]) = Len(cp)
<1> DEFINE n == HeaderLen + Len(data)
           t == <<code, id>>
           h == t \o BigEndian(n)
<1>1. n \in Nat /\ Len(data) \in Nat
  BY LenProperties DEF HeaderLen
<1>2. t \in Seq(Byte) /\ Len(t) = 2
  OBVIOUS
<1> HIDE DEF n, t
<1>3. BigEndian(n) \in Seq(Byte) /\ Len(BigEndian(n)) = 2
  BY <1>1, BigEndianBytes
<1>4. /\ h \in Seq(Byte) /\ Len(h) = HeaderLen
      /\ h[3] = BigEndian(n)[1] /\ h[4] = BigEndian(n)[2]
  <2> DEFINE b == BigEndian(n)
  <2>1. t \in Seq(Byte) /\ Len(t) = 2 /\ b \in Seq(Byte) /\ Len(b) = 2
    BY <1>2, <1>3
  <2> HIDE DEF b
  <2>2. /\ t \o b \in Seq(Byte) /\ Len(t \o b) = HeaderLen
        /\ (t \o b)[3] = b[1] /\ (t \o b)[4] = b[2]
    BY <2>1, TwoAndTwo
  <2> QED
    BY <2>2 DEF b
<1> HIDE DEF h
<1>5. EncodeCp(code, id, data) = h \o data
  BY DEF EncodeCp, h, t, n
<1>6. /\ h \o data \in Seq(Byte) /\ Len(h \o data) = n
      /\ (h \o data)[3] = h[3] /\ (h \o data)[4] = h[4]
  <2>1. /\ h \o data \in Seq(Byte) /\ Len(h \o data) = Len(h) + Len(data)
        /\ \A i \in 1 .. Len(h) : (h \o data)[i] = h[i]
    BY <1>4, BehindHeader
  <2>2. n = Len(h) + Len(data)
    BY <1>4 DEF n
  <2>3. (h \o data)[3] = h[3] /\ (h \o data)[4] = h[4]
    BY <1>4, <2>1 DEF HeaderLen
  <2> QED
    BY <2>1, <2>2, <2>3
<1>7. n < Radix * Radix => Number(BigEndian(n)[1], BigEndian(n)[2]) = n
  <2>1. n < Radix * Radix => n \in 0 .. Radix * Radix - 1
    BY <1>1, WireAssumption
  <2> QED
    BY <2>1, BigEndianNumber
<1>8. n < Radix * Radix => Number((h \o data)[3], (h \o data)[4]) = n
  BY <1>4, <1>6, <1>7, Zenon
<1> QED
  BY <1>5, <1>6, <1>8 DEF n

(***************************************************************************)
(* Protocol-Rejects.                                                       *)
(***************************************************************************)
LEMMA RejectIsWhole ==
  ASSUME NEW frame \in Seq(Byte)
  PROVE  Whole(ProtocolReject(0, frame)) <=> Len(frame) + 3 * HeaderLen < Radix * Radix
<1> DEFINE cp == EncodeCp(RejectCode, 0, frame)
           ppp == EncodePpp(LcpProtocol, cp)
           pkt == EncodeData(ppp)
<1>0. /\ RejectCode \in Byte /\ 0 \in Byte /\ LcpProtocol \in 0 .. Radix * Radix - 1
      /\ Radix * Radix \in Nat /\ HeaderLen = 4 /\ Len(frame) \in Nat
  BY WireAssumption, LenProperties DEF Byte, HeaderLen
<1>1. /\ cp \in Seq(Byte) /\ Len(cp) = HeaderLen + Len(frame)
      /\ Len(cp) < Radix * Radix => Number(cp[3], cp[4]) = Len(cp)
  BY <1>0, CpBytes
<1> HIDE DEF cp
<1>2. ppp \in Seq(Byte) /\ Len(ppp) = 4 + Len(cp)
  BY <1>0, <1>1, PppFrameBytes
<1> HIDE DEF ppp
<1>3. /\ pkt \in Seq(Byte) /\ Len(pkt) = HeaderLen + Len(ppp)
      /\ LengthField(pkt) \in 0 .. Radix * Radix - 1
  BY <1>2, DataPacket
<1> HIDE DEF pkt
<1>4. Len(pkt) = Len(frame) + 3 * HeaderLen
  BY <1>0, <1>1, <1>2, <1>3
<1>5. CASE Len(frame) + 3 * HeaderLen < Radix * Radix
  <2>1. Len(cp) + 2 * HeaderLen < Radix * Radix /\ Len(cp) < Radix * Radix
    BY <1>0, <1>1, <1>5
  <2>2. /\ ~Incomplete(pkt \o <<>>) /\ GoodHeader(pkt \o <<>>) /\ OnePacket(pkt \o <<>>) = pkt
        /\ Meaning(pkt) = [kind |-> "Ppp", proto |-> LcpProtocol, payload |-> cp]
    BY <1>0, <1>1, <2>1, EmptySeq, PppComesBack DEF pkt, ppp
  <2>3. pkt \o <<>> = pkt
    BY <1>3, ConcatEmptySeq
  <2>4. Meaning(pkt).payload = cp /\ Meaning(pkt).proto = LcpProtocol
    BY <2>2
  <2>5. Number(cp[3], cp[4]) = Len(cp)
    BY <1>1, <2>1
  <2>6. Whole(pkt)
    BY <2>2, <2>3, <2>4, <2>5 DEF Whole
  <2> QED
    BY <1>5, <2>6 DEF ProtocolReject, pkt, ppp, cp
<1>6. CASE ~(Len(frame) + 3 * HeaderLen < Radix * Radix)
  <2>1. LengthField(pkt) \in 0 .. Len(pkt) /\ LengthField(pkt) # Len(pkt) /\ Len(pkt) \in Nat
    BY <1>0, <1>3, <1>4, <1>6
  <2>2. Len(SubSeq(pkt, 0 + 1, LengthField(pkt))) = LengthField(pkt) - 0
    BY <1>3, <2>1, SliceProperties
  <2>3. OnePacket(pkt) # pkt
    BY <2>1, <2>2 DEF OnePacket
  <2>4. ~Whole(pkt)
    BY <2>3 DEF Whole
  <2> QED
    BY <1>6, <2>4 DEF ProtocolReject, pkt, ppp, cp
<1> QED
  BY <1>5, <1>6

(* What the engine is given of a PPP frame is a number and bytes. *)
LEMMA MeaningOfFrame ==
  ASSUME NEW pkt \in Seq(Byte), Meaning(pkt).kind = "Ppp"
  PROVE  Meaning(pkt).proto \in Nat /\ Meaning(pkt).payload \in Seq(Byte)
<1>1. ASSUME NEW s \in Seq(Byte), NEW k \in Nat
      PROVE  SubSeq(s, k + 1, Len(s)) \in Seq(Byte)
  <2>0. Len(s) \in Nat
    BY LenProperties
  <2>1. CASE k <= Len(s)
    BY <2>0, <2>1, SliceProperties
  <2>2. CASE k > Len(s)
    <3>1. SubSeq(s, k + 1, Len(s)) = <<>>
      BY <2>0, <2>2
    <3> QED
      BY <3>1, EmptySeq
  <2> QED
    BY <2>0, <2>1, <2>2
<1>2. SubSeq(pkt, 4 + 1, Len(pkt)) \in Seq(Byte)
  BY <1>1
<1> DEFINE body == SubSeq(pkt, HeaderLen + 1, Len(pkt))
           u == StripAddressControl(body)
<1>3. body \in Seq(Byte)
  BY <1>2 DEF HeaderLen
<1> HIDE DEF body
<1>4. u \in Seq(Byte)
  <2>1. SubSeq(body, 2 + 1, Len(body)) \in Seq(Byte) /\ 2 + 1 = 3
    BY <1>1, <1>3
  <2> QED
    BY <1>3, <2>1 DEF StripAddressControl
<1> HIDE DEF u
<1>5. Meaning(pkt) = PppFrame(u)
  <2>1. ~IsCtrl(pkt)
    BY DEF Meaning
  <2> QED
    BY <2>1 DEF Meaning, u, body
<1>6. ~(Len(u) < 2)
  BY <1>5 DEF PppFrame
<1>7. Meaning(pkt) = [kind |-> "Ppp", proto |-> Number(u[1], u[2]), payload |-> SubSeq(u, 3, Len(u))]
  BY <1>5, <1>6 DEF PppFrame
<1>8. Number(u[1], u[2]) \in Nat
  <2>1. u[1] \in Byte /\ u[2] \in Byte
    BY <1>4, <1>6, ElementOfSeq, LenProperties
  <2> QED
    BY <2>1, NumberFits
<1>9. SubSeq(u, 3, Len(u)) \in Seq(Byte)
  <2>1. SubSeq(u, 2 + 1, Len(u)) \in Seq(Byte) /\ 2 + 1 = 3
    BY <1>1, <1>4
  <2> QED
    BY <2>1
<1> QED
  BY <1>7, <1>8, <1>9

(* Whatever frame the engine rejects, the Protocol-Reject can be taken apart *)
(* again just as long as three more headers fit in a packet: for a radix of  *)
(* 256, up to 65523 bytes (lcp.rs:164-174).                                 *)
THEOREM FramingRejectsFit == FramingSpec => []RejectsFit
<1>1. CutIInv => RejectsFit
  <2> SUFFICES ASSUME CutIInv, NEW i \in DOMAIN delivered, delivered[i].kind = "Ppp"
               PROVE  LET frame == BigEndian(delivered[i].proto) \o delivered[i].payload
                      IN Whole(ProtocolReject(0, frame)) <=> Len(frame) + 3 * HeaderLen < Radix * Radix
    BY DEF RejectsFit
  <2>1. PICK pkt \in Seq(Byte) : delivered[i] = Meaning(pkt)
    BY DEF CutIInv, DeliveredIsASequence
  <2>2. delivered[i].proto \in Nat /\ delivered[i].payload \in Seq(Byte)
    BY <2>1, MeaningOfFrame
  <2>3. BigEndian(delivered[i].proto) \o delivered[i].payload \in Seq(Byte)
    BY <2>2, BigEndianBytes, ConcatProperties
  <2> QED
    BY <2>3, RejectIsWhole
<1> QED
  BY <1>1, FramingInitCutIInv, NextCutIInv, PTL DEF FramingSpec

-------------------------------------------------------------------------------
(***************************************************************************)
(* Order.  `at` says where the packets of the stream begin, by the lengths *)
(* written in them, and where the last of them ends.                       *)
(***************************************************************************)
Divides(at) ==
  /\ at \in Seq(Nat) /\ at # <<>>
  /\ HeaderEndsAt(stream, at[1] - 4)
  /\ \A i \in 1 .. Len(at) - 1 : at[i + 1] = at[i] + LengthAt(at[i])

DeliveredInOrder ==
  \A at \in Seq(Nat) : Divides(at) =>
    \A i \in DOMAIN delivered :
      i < Len(at) => delivered[i] = Meaning(SubSeq(stream, at[i] + 1, at[i + 1]))

(* The strengthening: each packet delivered was begun where `at` says, and   *)
(* so will be the next.                                                     *)
InStep(at) ==
  /\ \A i \in 1 .. Len(starts) : i <= Len(at) => starts[i] = at[i]
  /\ mode \notin {"http", "refused", "over"} /\ Len(starts) < Len(at)
       => done = at[Len(starts) + 1]

OrderInv == \A at \in Seq(Nat) : Divides(at) => InStep(at)

(* A text ends at its first blank line and nowhere else. *)
LEMMA HeaderEndsOnce ==
  ASSUME NEW s, NEW p \in Int, NEW q \in Int, HeaderEndsAt(s, p), HeaderEndsAt(s, q)
  PROVE  p = q
<1>1. /\ p >= 0 /\ q >= 0 /\ BlankLineAt(s, p) /\ BlankLineAt(s, q)
      /\ \A k \in 0 .. p - 1 : ~BlankLineAt(s, k)
      /\ \A k \in 0 .. q - 1 : ~BlankLineAt(s, k)
  BY DEF HeaderEndsAt
<1> QED
  BY <1>1

LEMMA NextOrder ==
  ASSUME CutIInv, CutIInv', OrderInv, [FramingNext]_framingVars PROVE OrderInv'
<1> SUFFICES ASSUME NEW at \in Seq(Nat), Divides(at)' PROVE InStep(at)'
  BY DEF OrderInv
<1> DEFINE k == Len(starts)
<1>0. /\ starts \in Seq(0 .. Len(stream)) /\ k \in Nat /\ done \in Int /\ Len(at) \in Nat
      /\ Len(stream) \in Nat
  BY LenProperties DEF CutIInv, FramingIInv, FramingTypeOK
<1>1. stream' = stream
  BY DEF FramingNext, HttpReadsOn, HttpAccepted, HttpRefused, ReadBranch, Receive, NextPacket,
         Consume, NoMorePackets, NextPacketFails, TaskEnds, Keepalive, framingVars
<1>2. Divides(at)
  BY <1>1 DEF Divides, HeaderEndsAt, BlankLineAt, LengthAt
<1>3. InStep(at)
  BY <1>2 DEF OrderInv
<1>4. ASSUME starts' = starts, done' = done,
             mode' \notin {"http", "refused", "over"} => mode \notin {"http", "refused", "over"}
      PROVE  InStep(at)'
  BY <1>3, <1>4 DEF InStep
<1>5. ASSUME NEW n \in 1 .. Len(stream), HttpAccepted(n) PROVE InStep(at)'
  <2>1. starts = <<>> /\ starts' = starts /\ mode' = "greeted"
    BY <1>5 DEF HttpAccepted, Receive, CutIInv, FramingIInv, NothingDoneYet
  <2>2. HeaderEndsAt(stream, done' - 4)
    <3>1. HeaderEndsAt(stream, StartOf(1) - 4)'
      BY <2>1 DEF CutIInv, CutIndependent
    <3>2. StartOf(1)' = done'
      BY <2>1 DEF StartOf
    <3> QED
      BY <1>1, <3>1, <3>2 DEF HeaderEndsAt, BlankLineAt
  <2>3. done' = at[1]
    <3>1. at[1] \in Nat
      BY <1>2, <1>0 DEF Divides
    <3>2. done' \in Int
      BY DEF CutIInv, FramingIInv, FramingTypeOK
    <3>3. done' - 4 = at[1] - 4
      BY <1>2, <2>2, <3>1, <3>2, HeaderEndsOnce DEF Divides
    <3> QED
      BY <3>1, <3>2, <3>3
  <2> QED
    BY <2>1, <2>3 DEF InStep
<1>6. CASE NextPacket
  <2>1. /\ mode = "decoding" /\ mode' = "decoding" /\ starts' = Append(starts, done)
    BY <1>6 DEF NextPacket, Consume
  <2>2. done \in 0 .. Len(stream)
    BY DEF CutIInv, FramingIInv, FramingTypeOK
  <2>3. /\ Len(starts') = k + 1 /\ starts'[k + 1] = done
        /\ \A i \in 1 .. k : starts'[i] = starts[i]
    BY <1>0, <2>1, <2>2
  <2>4. ASSUME NEW i \in 1 .. k + 1, i <= Len(at) PROVE starts'[i] = at[i]
    BY <1>0, <1>3, <2>1, <2>3, <2>4 DEF InStep
  <2>5. ASSUME k + 1 < Len(at) PROVE done' = at[k + 2]
    <3>1. starts'[k + 1] = at[k + 1]
      <4>1. k + 1 \in 1 .. k + 1 /\ k + 1 <= Len(at)
        BY <1>0, <2>5
      <4> QED
        BY <2>4, <4>1
    <3>2. k + 1 \in DOMAIN delivered'
      <4>1. Len(delivered') = k + 1 /\ DOMAIN delivered' = 1 .. Len(delivered')
        BY <2>3, LenProperties DEF CutIInv, FramingIInv, FramingTypeOK, DeliveredIsASequence
      <4> QED
        BY <1>0, <4>1
    <3>3. done' = starts'[k + 1] + LengthAt(starts'[k + 1])
      <4>1. \A i \in DOMAIN delivered' : StartOf(i + 1)' = (starts[i] + LengthAt(starts[i]))'
        BY DEF CutIInv, CutIndependent
      <4>2. PICK j \in Nat : j = k + 1
        BY <1>0
      <4>3. ~(j + 1 <= Len(starts'))
        BY <2>3, <4>2
      <4>4. StartOf(j + 1)' = done'
        BY <4>3 DEF StartOf
      <4>5. StartOf(j + 1)' = (starts[j] + LengthAt(starts[j]))'
        BY <3>2, <4>1, <4>2
      <4>6. LengthAt(starts[j])' = LengthAt(starts'[j])
        BY <1>1 DEF LengthAt
      <4> QED
        BY <4>2, <4>4, <4>5, <4>6
    <3>4. at[(k + 1) + 1] = at[k + 1] + LengthAt(at[k + 1])
      BY <1>0, <1>2, <2>5 DEF Divides
    <3>5. (k + 1) + 1 = k + 2
      BY <1>0
    <3> QED
      BY <3>1, <3>3, <3>4, <3>5
  <2> QED
    BY <1>0, <2>1, <2>3, <2>4, <2>5 DEF InStep
<1>7. CASE NoMorePackets \/ NextPacketFails \/ TaskEnds \/ Keepalive \/ UNCHANGED framingVars
  BY <1>4, <1>7 DEF NoMorePackets, NextPacketFails, TaskEnds, Keepalive, Waiting, framingVars
<1>8. ASSUME NEW n \in 1 .. Len(stream), HttpReadsOn(n) \/ HttpRefused(n) \/ ReadBranch(n)
      PROVE  InStep(at)'
  BY <1>4, <1>8 DEF HttpReadsOn, HttpRefused, ReadBranch, Receive, Waiting
<1> QED
  BY <1>5, <1>6, <1>7, <1>8 DEF FramingNext

(* However TLS cuts the stream, what the engine is given is the packets of  *)
(* the stream in their order, none left out and none doubled: the i-th is   *)
(* decoded from the bytes between the i-th boundary and the next            *)
(* (packet.rs:291-326).                                                     *)
THEOREM FramingDeliversInOrder == FramingSpec => []DeliveredInOrder
<1>1. FramingInit => OrderInv
  BY DEF FramingInit, OrderInv, InStep
<1>2. CutIInv /\ OrderInv => DeliveredInOrder
  <2> SUFFICES ASSUME CutIInv, OrderInv, NEW at \in Seq(Nat), Divides(at),
                      NEW i \in DOMAIN delivered, i < Len(at)
               PROVE  delivered[i] = Meaning(SubSeq(stream, at[i] + 1, at[i + 1]))
    BY DEF DeliveredInOrder
  <2>1. /\ i \in 1 .. Len(starts) /\ Len(starts) \in Nat /\ Len(at) \in Nat
    BY LenProperties DEF CutIInv, FramingIInv, FramingTypeOK, DeliveredIsASequence
  <2>2. starts[i] = at[i]
    BY <2>1 DEF OrderInv, InStep
  <2>3. at[i + 1] = at[i] + LengthAt(at[i])
    BY <2>1 DEF Divides
  <2>4. delivered[i] = Meaning(PacketAt(starts[i]))
    BY DEF CutIInv, CutIndependent
  <2> QED
    BY <2>2, <2>3, <2>4 DEF PacketAt
<1>3. CutIInv /\ CutIInv' /\ OrderInv /\ [FramingNext]_framingVars => OrderInv'
  BY NextOrder
<1> QED
  BY <1>1, <1>2, <1>3, FramingInitCutIInv, NextCutIInv, PTL DEF FramingSpec

-------------------------------------------------------------------------------
(***************************************************************************)
(* Induction.  The library's induction theorems take an operator; these    *)
(* say the same of sets and functions, from the order of the naturals.     *)
(***************************************************************************)
LEMMA LeastNumber ==
  ASSUME NEW T, T \subseteq Nat, T # {}
  PROVE  \E m \in T : \A k \in T : m <= k
<1>1. PICK m \in T : \A k \in T : <<k, m>> \notin OpToRel(<, Nat)
  BY NatLessThanWellFounded, WFMin
<1>2. \A k \in T : ~(k < m)
  BY <1>1 DEF OpToRel
<1> QED
  BY <1>2

LEMMA SetInduction ==
  ASSUME NEW G, 0 \in G, \A n \in Nat : n \in G => n + 1 \in G
  PROVE  Nat \subseteq G
<1>1. SUFFICES ASSUME Nat \ G # {} PROVE FALSE
  OBVIOUS
<1>2. PICK m \in Nat \ G : \A k \in Nat \ G : m <= k
  BY <1>1, LeastNumber
<1>3. m # 0 /\ m - 1 \in Nat /\ m - 1 \notin Nat \ G
  BY <1>2
<1>4. (m - 1) + 1 \in G
  BY <1>3
<1> QED
  BY <1>2, <1>4

(* A function may be defined by its first value and a step from each to the *)
(* next.                                                                    *)
Recursion(f, N, S, a, step) ==
  f \in [0 .. N -> S] /\ f[0] = a /\ \A n \in 1 .. N : f[n] = step[<<n, f[n - 1]>>]

LEMMA RecursionExists ==
  ASSUME NEW N \in Nat, NEW S, NEW a \in S, NEW step \in [(1 .. N) \X S -> S]
  PROVE  \E f : Recursion(f, N, S, a, step)
<1> DEFINE Good(f, k) == f[0] = a /\ \A n \in 1 .. k : f[n] = step[<<n, f[n - 1]>>]
           G == {k \in Nat : k <= N => \E f \in [0 .. k -> S] : Good(f, k)}
<1>1. 0 \in G
  <2>1. [n \in 0 .. 0 |-> a] \in [0 .. 0 -> S] /\ Good([n \in 0 .. 0 |-> a], 0)
    OBVIOUS
  <2> QED
    BY <2>1
<1>2. ASSUME NEW k \in Nat, k \in G PROVE k + 1 \in G
  <2> SUFFICES ASSUME k + 1 <= N PROVE \E f \in [0 .. k + 1 -> S] : Good(f, k + 1)
    OBVIOUS
  <2>1. PICK f \in [0 .. k -> S] : Good(f, k)
    BY <1>2
  <2> DEFINE g == [n \in 0 .. k + 1 |-> IF n = k + 1 THEN step[<<k + 1, f[k]>>] ELSE f[n]]
  <2>2. f[k] \in S /\ k + 1 \in 1 .. N /\ step[<<k + 1, f[k]>>] \in S
    OBVIOUS
  <2>3. g \in [0 .. k + 1 -> S]
    BY <2>2
  <2>4. g[k + 1] = step[<<k + 1, f[k]>>] /\ \A n \in 0 .. k : g[n] = f[n]
    OBVIOUS
  <2> HIDE DEF g
  <2>5. ASSUME NEW n \in 1 .. k + 1 PROVE g[n] = step[<<n, g[n - 1]>>]
    <3>1. CASE n = k + 1
      <4>1. n - 1 = k /\ k \in 0 .. k
        BY <3>1
      <4> QED
        BY <2>4, <3>1, <4>1
    <3>2. CASE n # k + 1
      <4>1. n \in 1 .. k /\ n \in 0 .. k /\ n - 1 \in 0 .. k
        BY <3>2
      <4> QED
        BY <2>1, <2>4, <4>1
    <3> QED
      BY <3>1, <3>2
  <2>6. g[0] = a
    BY <2>1, <2>4
  <2> QED
    BY <2>3, <2>5, <2>6
<1> HIDE DEF G
<1>3. N \in G
  BY <1>1, <1>2, SetInduction
<1> QED
  BY <1>3 DEF G, Recursion

(* Two functions that begin the same and step the same are the same. *)
LEMMA RecursionUnique ==
  ASSUME NEW N \in Nat, NEW f, NEW g, f[0] = g[0],
         \A n \in 1 .. N : f[n - 1] = g[n - 1] => f[n] = g[n]
  PROVE  \A n \in 0 .. N : f[n] = g[n]
<1> DEFINE G == {k \in Nat : k <= N => f[k] = g[k]}
<1>1. 0 \in G
  OBVIOUS
<1>2. ASSUME NEW k \in Nat, k \in G PROVE k + 1 \in G
  <2>1. SUFFICES ASSUME k + 1 <= N PROVE f[k + 1] = g[k + 1]
    OBVIOUS
  <2>2. k + 1 \in 1 .. N /\ (k + 1) - 1 = k /\ f[k] = g[k]
    BY <1>2, <2>1
  <2> QED
    BY <2>2
<1> HIDE DEF G
<1>3. Nat \subseteq G
  BY <1>1, <1>2, SetInduction
<1> QED
  BY <1>3 DEF G

(* FlattenSeq appends one sequence after the other. *)
Runs(f, N, s, S) ==
  /\ \A n \in 1 .. N : s[n] \in Seq(S)
  /\ f \in [0 .. N -> Seq(S)] /\ f[0] = <<>>
  /\ \A n \in 1 .. N : f[n] = f[n - 1] \o s[n]

LEMMA FlattenRuns ==
  ASSUME NEW S, NEW s \in Seq(Seq(S))
  PROVE  \E f : Runs(f, Len(s), s, S) /\ f[Len(s)] = FlattenSeq(s)
<1> DEFINE N == Len(s)
           step == [x \in (1 .. N) \X Seq(S) |-> x[2] \o s[x[1]]]
<1>1. N \in Nat /\ \A n \in 1 .. N : s[n] \in Seq(S)
  BY LenProperties
<1>2. <<>> \in Seq(S)
  BY EmptySeq
<1>3. step \in [(1 .. N) \X Seq(S) -> Seq(S)]
  BY <1>1, ConcatProperties
<1>4. \A n \in 1 .. N : \A t \in Seq(S) : step[<<n, t>>] = t \o s[n]
  OBVIOUS
<1> HIDE DEF step, N
<1>p. PICK f : Recursion(f, N, Seq(S), <<>>, step)
  BY <1>1, <1>2, <1>3, RecursionExists
<1>5. f \in [0 .. N -> Seq(S)] /\ f[0] = <<>> /\ \A n \in 1 .. N : f[n] = step[<<n, f[n - 1]>>]
  BY <1>p DEF Recursion
<1>6. \A n \in 1 .. N : f[n] = f[n - 1] \o s[n]
  <2> SUFFICES ASSUME NEW n \in 1 .. N PROVE f[n] = f[n - 1] \o s[n]
    OBVIOUS
  <2>1. n - 1 \in 0 .. N
    BY <1>1
  <2>2. f[n - 1] \in Seq(S)
    BY <1>5, <2>1
  <2> QED
    BY <1>4, <1>5, <2>2
<1>7. CASE N = 0
  <2>1. s = <<>>
    BY <1>7, EmptySeq DEF N
  <2>2. FlattenSeq(s) = s
    BY <1>7 DEF FlattenSeq, N
  <2> QED
    BY <1>1, <1>5, <1>6, <1>7, <2>1, <2>2 DEF N, Runs
<1>8. CASE N # 0
  <2> DEFINE Defines(h) == h = [i \in 1 .. N |-> IF i = 1 THEN s[i] ELSE h[i - 1] \o s[i]]
             flatten == CHOOSE h : Defines(h)
  <2>1. FlattenSeq(s) = flatten[N]
    BY <1>8, Zenon DEF FlattenSeq, N
  <2>2. f[1] = s[1]
    <3>1. 1 \in 1 .. N /\ 1 - 1 = 0
      BY <1>1, <1>8
    <3>2. f[1] = <<>> \o s[1] /\ s[1] \in Seq(S)
      BY <1>1, <1>5, <1>6, <3>1
    <3> QED
      BY <3>2, ConcatEmptySeq
  <2>3. Defines([i \in 1 .. N |-> f[i]])
    <3> DEFINE r == [i \in 1 .. N |-> f[i]]
    <3>1. \A i \in 1 .. N : r[i] = f[i]
      OBVIOUS
    <3>2. ASSUME NEW i \in 1 .. N PROVE r[i] = IF i = 1 THEN s[i] ELSE r[i - 1] \o s[i]
      <4>1. CASE i = 1
        BY <2>2, <3>1, <4>1
      <4>2. CASE i # 1
        <5>1. i - 1 \in 1 .. N
          BY <1>1, <4>2
        <5> QED
          BY <1>6, <3>1, <4>2, <5>1
      <4> QED
        BY <4>1, <4>2
    <3>3. r = [i \in 1 .. N |-> r[i]]
      OBVIOUS
    <3> HIDE DEF r
    <3>4. [i \in 1 .. N |-> r[i]] = [i \in 1 .. N |-> IF i = 1 THEN s[i] ELSE r[i - 1] \o s[i]]
      BY <3>2
    <3> QED
      BY <3>3, <3>4, Zenon DEF r
  <2>4. Defines(flatten)
    BY <2>3, Zenon
  <2> HIDE DEF flatten
  <2>5. \A i \in 1 .. N : flatten[i] = IF i = 1 THEN s[i] ELSE flatten[i - 1] \o s[i]
    <3> SUFFICES ASSUME NEW i \in 1 .. N
                 PROVE  flatten[i] = IF i = 1 THEN s[i] ELSE flatten[i - 1] \o s[i]
      OBVIOUS
    <3> DEFINE h == [j \in 1 .. N |-> IF j = 1 THEN s[j] ELSE flatten[j - 1] \o s[j]]
    <3>1. h[i] = IF i = 1 THEN s[i] ELSE flatten[i - 1] \o s[i]
      OBVIOUS
    <3>2. flatten = h
      BY <2>4, Zenon
    <3> QED
      BY <3>1, <3>2, Zenon
  <2> DEFINE g == [i \in 0 .. N |-> IF i = 0 THEN f[0] ELSE flatten[i]]
  <2>6. g[0] = f[0] /\ \A i \in 1 .. N : g[i] = flatten[i]
    BY <1>1
  <2> HIDE DEF g
  <2>7. ASSUME NEW n \in 1 .. N, f[n - 1] = g[n - 1] PROVE f[n] = g[n]
    <3>1. CASE n = 1
      BY <2>2, <2>5, <2>6, <3>1
    <3>2. CASE n # 1
      <4>1. n - 1 \in 1 .. N
        BY <1>1, <3>2
      <4>2. f[n] = f[n - 1] \o s[n] /\ flatten[n] = flatten[n - 1] \o s[n]
        BY <1>6, <2>5, <3>2
      <4>3. g[n - 1] = flatten[n - 1] /\ g[n] = flatten[n]
        BY <2>6, <4>1
      <4> QED
        BY <2>7, <4>2, <4>3, Zenon
    <3> QED
      BY <3>1, <3>2
  <2>8. \A n \in 0 .. N : f[n] = g[n]
    <3>1. \A n \in 1 .. N : f[n - 1] = g[n - 1] => f[n] = g[n]
      BY <2>7
    <3>2. N \in Nat /\ f[0] = g[0]
      BY <1>1, <2>6
    <3> QED
      BY <3>1, <3>2, RecursionUnique, Zenon
  <2>9. f[N] = flatten[N]
    <3>1. N \in 0 .. N /\ N \in 1 .. N
      BY <1>1, <1>8
    <3> QED
      BY <2>6, <2>8, <3>1
  <2> QED
    BY <1>1, <1>5, <1>6, <2>1, <2>9 DEF N, Runs
<1> QED
  BY <1>7, <1>8

(* What has been appended stays in front. *)
Begins(t, u, S) == \E v \in Seq(S) : u = t \o v

LEMMA RunsArePrefixes ==
  ASSUME NEW S, NEW N \in Nat, NEW s, NEW f, Runs(f, N, s, S)
  PROVE  \A n \in 0 .. N : Begins(f[n], f[N], S)
<1>0. /\ \A n \in 1 .. N : s[n] \in Seq(S)
      /\ f \in [0 .. N -> Seq(S)] /\ \A n \in 1 .. N : f[n] = f[n - 1] \o s[n]
  BY DEF Runs
<1> DEFINE P(k) == k <= N => \A n \in 0 .. k : \E t \in Seq(S) : f[k] = f[n] \o t
           G == {k \in Nat : P(k)}
<1>1. ASSUME NEW k \in 0 .. N PROVE \E t \in Seq(S) : f[k] = f[k] \o t
  <2>1. f[k] \in Seq(S) /\ <<>> \in Seq(S)
    BY <1>0, EmptySeq
  <2>2. f[k] \o <<>> = f[k]
    BY <2>1, ConcatEmptySeq
  <2> QED
    BY <2>1, <2>2, Zenon
<1>2. P(0)
  <2>1. 0 \in 0 .. N /\ \A n \in 0 .. 0 : n = 0
    OBVIOUS
  <2> QED
    BY <1>1, <2>1, Zenon
<1>3. ASSUME NEW k \in Nat, P(k) PROVE P(k + 1)
  <2> SUFFICES ASSUME k + 1 <= N, NEW n \in 0 .. k + 1
               PROVE  \E t \in Seq(S) : f[k + 1] = f[n] \o t
    BY Zenon
  <2>1. CASE n = k + 1
    <3>1. k + 1 \in 0 .. N
      OBVIOUS
    <3> QED
      BY <1>1, <2>1, <3>1, Zenon
  <2>2. CASE n # k + 1
    <3>1. /\ n \in 0 .. k /\ k + 1 \in 1 .. N /\ (k + 1) - 1 = k /\ n \in 0 .. N /\ k \in 0 .. N
          /\ k <= N
      BY <2>2
    <3>2. PICK t \in Seq(S) : f[k] = f[n] \o t
      BY <1>3, <3>1, Zenon
    <3>3. f[k + 1] = f[k] \o s[k + 1] /\ s[k + 1] \in Seq(S)
      BY <1>0, <3>1
    <3>4. f[n] \in Seq(S)
      BY <1>0, <3>1
    <3> DEFINE u == s[k + 1]
               v == f[n]
    <3>5. v \in Seq(S) /\ u \in Seq(S)
      BY <3>3, <3>4
    <3> HIDE DEF u, v
    <3>6. (v \o t) \o u = v \o (t \o u) /\ t \o u \in Seq(S)
      BY <3>5, ConcatAssociative, ConcatProperties
    <3>7. f[k + 1] = v \o (t \o u)
      BY <3>2, <3>3, <3>6, Zenon DEF u, v
    <3> QED
      BY <3>6, <3>7, Zenon DEF v
  <2> QED
    BY <2>1, <2>2
<1> HIDE DEF P
<1>4. 0 \in G
  BY <1>2, Zenon
<1>5. ASSUME NEW k \in Nat, k \in G PROVE k + 1 \in G
  <2>1. P(k) /\ k + 1 \in Nat
    BY <1>5
  <2>2. P(k + 1)
    BY <1>3, <2>1, Zenon
  <2> QED
    BY <2>1, <2>2, Zenon
<1> HIDE DEF G
<1>6. N \in G
  BY <1>4, <1>5, SetInduction
<1>7. P(N) /\ N <= N
  BY <1>6 DEF G
<1> QED
  BY <1>7, Zenon DEF P, Begins

(* The runs are at least as long as so many shortest pieces. *)
LEMMA RunsGrow ==
  ASSUME NEW S, NEW N \in Nat, NEW s, NEW f, Runs(f, N, s, S),
         NEW least \in Nat, \A n \in 1 .. N : Len(s[n]) >= least
  PROVE  Len(f[N]) >= least * N
<1>0. /\ \A n \in 1 .. N : s[n] \in Seq(S)
      /\ f \in [0 .. N -> Seq(S)] /\ \A n \in 1 .. N : f[n] = f[n - 1] \o s[n]
  BY DEF Runs
<1> DEFINE G == {k \in Nat : k <= N => Len(f[k]) >= least * k}
<1>1. 0 \in G
  <2>1. f[0] \in Seq(S)
    BY <1>0
  <2> QED
    BY <2>1, LenProperties
<1>2. ASSUME NEW k \in Nat, k \in G PROVE k + 1 \in G
  <2> SUFFICES ASSUME k + 1 <= N PROVE Len(f[k + 1]) >= least * (k + 1)
    OBVIOUS
  <2>1. /\ k \in 0 .. N /\ k + 1 \in 1 .. N /\ (k + 1) - 1 = k
        /\ Len(f[k]) >= least * k
    BY <1>2
  <2>2. f[k] \in Seq(S) /\ s[k + 1] \in Seq(S) /\ f[k + 1] = f[k] \o s[k + 1]
        /\ Len(s[k + 1]) >= least
    BY <1>0, <2>1
  <2>3. Len(f[k + 1]) = Len(f[k]) + Len(s[k + 1]) /\ Len(f[k]) \in Nat /\ Len(s[k + 1]) \in Nat
    BY <2>2, ConcatProperties, LenProperties
  <2> DEFINE x == least * k
             y == Len(f[k])
             z == Len(s[k + 1])
  <2>4. least * (k + 1) = x + least /\ x \in Nat
    OBVIOUS
  <2>5. y \in Nat /\ z \in Nat /\ y >= x /\ z >= least /\ Len(f[k + 1]) = y + z
    BY <2>1, <2>2, <2>3
  <2> HIDE DEF x, y, z
  <2> QED
    BY <2>4, <2>5
<1> HIDE DEF G
<1>3. N \in G
  BY <1>1, <1>2, SetInduction
<1> QED
  BY <1>3 DEF G

-------------------------------------------------------------------------------
(* The piece in the middle of three. *)
LEMMA Middle ==
  ASSUME NEW S, NEW t \in Seq(S), NEW u \in Seq(S), NEW v \in Seq(S)
  PROVE  LET w == t \o u \o v
         IN  /\ w \in Seq(S) /\ Len(w) = Len(t) + Len(u) + Len(v)
             /\ Len(t) \in Nat /\ Len(u) \in Nat /\ Len(v) \in Nat
             /\ \A i \in 1 .. Len(t) : w[i] = t[i]
             /\ \A i \in 1 .. Len(u) : w[Len(t) + i] = u[i]
<1> DEFINE w == t \o u \o v
<1>1. /\ t \o u \in Seq(S) /\ Len(t \o u) = Len(t) + Len(u)
      /\ \A i \in 1 .. Len(t) : (t \o u)[i] = t[i]
      /\ SubSeq(t \o u, Len(t) + 1, Len(t \o u)) = u
  BY BehindHeader
<1>2. /\ w \in Seq(S) /\ Len(w) = Len(t \o u) + Len(v)
      /\ \A i \in 1 .. Len(t \o u) : w[i] = (t \o u)[i]
  BY <1>1, BehindHeader
<1>3. Len(t) \in Nat /\ Len(u) \in Nat /\ Len(v) \in Nat
  BY LenProperties
<1>4. \A i \in 1 .. Len(u) : (t \o u)[Len(t) + i] = u[i]
  <2> DEFINE x == t \o u
  <2> HIDE DEF x
  <2>1. x \in Seq(S) /\ Len(x) = Len(t) + Len(u) /\ SubSeq(x, Len(t) + 1, Len(x)) = u
    BY <1>1 DEF x
  <2>2. \A i \in 1 .. Len(u) : SubSeq(x, Len(t) + 1, Len(x))[i] = x[Len(t) + i]
    <3>1. Len(x) \in 0 .. Len(x) /\ Len(t) \in 0 .. Len(x) /\ Len(x) - Len(t) = Len(u)
      BY <1>3, <2>1
    <3> QED
      BY <2>1, <3>1, SliceProperties
  <2> QED
    BY <2>1, <2>2 DEF x
<1> DEFINE x == t \o u
<1> HIDE DEF x, w
<1>5. /\ x \in Seq(S) /\ Len(x) = Len(t) + Len(u) /\ \A i \in 1 .. Len(t) : x[i] = t[i]
      /\ \A i \in 1 .. Len(u) : x[Len(t) + i] = u[i]
      /\ w \in Seq(S) /\ Len(w) = Len(x) + Len(v)
      /\ \A i \in 1 .. Len(x) : w[i] = x[i]
  BY <1>1, <1>2, <1>4 DEF x
<1>6. \A i \in 1 .. Len(t) : w[i] = t[i]
  BY <1>3, <1>5
<1>7. \A i \in 1 .. Len(u) : w[Len(t) + i] = u[i]
  <2> SUFFICES ASSUME NEW i \in 1 .. Len(u) PROVE w[Len(t) + i] = u[i]
    OBVIOUS
  <2>1. Len(t) + i \in 1 .. Len(x)
    BY <1>3, <1>5
  <2> QED
    BY <1>5, <2>1
<1>8. Len(w) = Len(t) + Len(u) + Len(v)
  BY <1>3, <1>5
<1> QED
  BY <1>3, <1>5, <1>6, <1>7, <1>8 DEF w

LEMMA MiddleElement ==
  ASSUME NEW S, NEW t \in Seq(S), NEW u \in Seq(S), NEW v \in Seq(S), NEW i \in 1 .. Len(u)
  PROVE  (t \o u \o v)[Len(t) + i] = u[i]
BY Middle

LEMMA MiddleSlice ==
  ASSUME NEW S, NEW t \in Seq(S), NEW u \in Seq(S), NEW v \in Seq(S),
         NEW b \in 0 .. Len(u), NEW a \in 0 .. b
  PROVE  SubSeq(t \o u \o v, Len(t) + a + 1, Len(t) + b) = SubSeq(u, a + 1, b)
<1> DEFINE w == t \o u \o v
           p == Len(t) + a
           q == Len(t) + b
<1>1. /\ w \in Seq(S) /\ Len(w) = Len(t) + Len(u) + Len(v)
      /\ Len(t) \in Nat /\ Len(u) \in Nat /\ Len(v) \in Nat
      /\ \A i \in 1 .. Len(u) : w[Len(t) + i] = u[i]
  BY Middle
<1>2. /\ SubSeq(u, a + 1, b) \in Seq(S) /\ Len(SubSeq(u, a + 1, b)) = b - a
      /\ \A i \in 1 .. b - a : SubSeq(u, a + 1, b)[i] = u[a + i]
  BY SliceProperties
<1> HIDE DEF w
<1>3. q \in 0 .. Len(w) /\ p \in 0 .. q /\ q - p = b - a
  BY <1>1
<1> HIDE DEF p, q
<1>4. /\ SubSeq(w, p + 1, q) \in Seq(S) /\ Len(SubSeq(w, p + 1, q)) = q - p
      /\ \A i \in 1 .. q - p : SubSeq(w, p + 1, q)[i] = w[p + i]
  BY <1>1, <1>3, SliceProperties
<1>5. \A i \in 1 .. b - a : w[p + i] = u[a + i]
  <2> SUFFICES ASSUME NEW i \in 1 .. b - a PROVE w[p + i] = u[a + i]
    OBVIOUS
  <2>1. a + i \in 1 .. Len(u) /\ Len(t) + (a + i) = p + i
    BY <1>1 DEF p
  <2> QED
    BY <1>1, <2>1
<1>6. SubSeq(w, p + 1, q) = SubSeq(u, a + 1, b)
  <2> DEFINE x == SubSeq(w, p + 1, q)
             y == SubSeq(u, a + 1, b)
  <2>1. x \in Seq(S) /\ y \in Seq(S) /\ Len(x) = b - a /\ Len(y) = b - a
    BY <1>2, <1>3, <1>4
  <2>2. \A i \in 1 .. b - a : x[i] = y[i]
    BY <1>2, <1>3, <1>4, <1>5
  <2> HIDE DEF x, y
  <2>3. x = y
    BY <2>1, <2>2, SeqEqual
  <2> QED
    BY <2>3 DEF x, y
<1> QED
  BY <1>6 DEF p, q, w

(* The bytes of an attribute. *)
LEMMA AttrBytes ==
  ASSUME NEW a \in Attributes
  PROVE  LET e == EncodeAttr(a)
         IN  /\ e \in Seq(Byte) /\ Len(e) = HeaderLen + Len(a.data) /\ Len(e) >= HeaderLen
             /\ Len(a.data) \in Nat /\ e[2] = a.type
             /\ Len(e) < Radix * Radix => Number(e[3], e[4]) = Len(e)
             /\ SubSeq(e, HeaderLen + 1, Len(e)) = a.data
<1> DEFINE n == HeaderLen + Len(a.data)
           t == <<0, a.type>>
           h == t \o BigEndian(n)
<1>0. a.type \in Byte /\ a.data \in Seq(Byte) /\ 0 \in Byte
  BY WireAssumption DEF Attributes, Byte
<1>1. n \in Nat /\ Len(a.data) \in Nat /\ n >= HeaderLen
  BY <1>0, LenProperties DEF HeaderLen
<1>2. t \in Seq(Byte) /\ Len(t) = 2 /\ t[2] = a.type
  BY <1>0
<1> HIDE DEF n, t
<1>3. BigEndian(n) \in Seq(Byte) /\ Len(BigEndian(n)) = 2
  BY <1>1, BigEndianBytes
<1>4. /\ h \in Seq(Byte) /\ Len(h) = HeaderLen /\ h[2] = a.type
      /\ h[3] = BigEndian(n)[1] /\ h[4] = BigEndian(n)[2]
  BY <1>2, <1>3, TwoAndTwo
<1> HIDE DEF h
<1> DEFINE d == a.data
           e == h \o d
<1>5. EncodeAttr(a) = e
  BY DEF EncodeAttr, h, t, n
<1> HIDE DEF d
<1>6. /\ e \in Seq(Byte) /\ Len(e) = n /\ e[2] = a.type
      /\ e[3] = BigEndian(n)[1] /\ e[4] = BigEndian(n)[2]
      /\ SubSeq(e, HeaderLen + 1, Len(e)) = d
  <2>1. d \in Seq(Byte)
    BY <1>0 DEF d
  <2>2. /\ e \in Seq(Byte) /\ Len(e) = Len(h) + Len(d)
        /\ \A i \in 1 .. Len(h) : e[i] = h[i]
        /\ SubSeq(e, Len(h) + 1, Len(e)) = d
    BY <1>4, <2>1, BehindHeader
  <2> HIDE DEF e
  <2>3. e[2] = h[2] /\ e[3] = h[3] /\ e[4] = h[4]
    BY <1>4, <2>2 DEF HeaderLen
  <2>4. n = Len(h) + Len(d)
    BY <1>4 DEF n, d
  <2> QED
    BY <1>4, <2>2, <2>3, <2>4, Zenon
<1> HIDE DEF e
<1>7. n < Radix * Radix => Number(e[3], e[4]) = n
  <2>1. n < Radix * Radix => n \in 0 .. Radix * Radix - 1
    BY <1>1, WireAssumption
  <2>2. n < Radix * Radix => Number(BigEndian(n)[1], BigEndian(n)[2]) = n
    BY <2>1, BigEndianNumber
  <2> QED
    BY <1>6, <2>2, Zenon
<1> QED
  BY <1>0, <1>1, <1>5, <1>6, <1>7 DEF n, d

(* An attribute is read back from wherever it stands in a packet. *)
LEMMA AttrInPacket ==
  ASSUME NEW a \in Attributes, Len(EncodeAttr(a)) < Radix * Radix,
         NEW t \in Seq(Byte), NEW v \in Seq(Byte), NEW attrs
  PROVE  NextAttr(t \o EncodeAttr(a) \o v, [ok |-> TRUE, pos |-> Len(t), attrs |-> attrs])
           = [ok |-> TRUE, pos |-> Len(t) + Len(EncodeAttr(a)), attrs |-> Append(attrs, a)]
<1> DEFINE e == EncodeAttr(a)
           w == t \o e \o v
           x == [ok |-> TRUE, pos |-> Len(t), attrs |-> attrs]
<1>1. /\ e \in Seq(Byte) /\ Len(e) = HeaderLen + Len(a.data) /\ Len(a.data) \in Nat
      /\ Len(e) >= HeaderLen /\ e[2] = a.type
      /\ Number(e[3], e[4]) = Len(e) /\ SubSeq(e, HeaderLen + 1, Len(e)) = a.data
  BY AttrBytes
<1> HIDE DEF e
<1>2. /\ Len(w) = Len(t) + Len(e) + Len(v)
      /\ Len(t) \in Nat /\ Len(e) \in Nat /\ Len(v) \in Nat
      /\ \A i \in 1 .. Len(e) : w[Len(t) + i] = e[i]
  <2>1. e \in Seq(Byte)
    BY <1>1
  <2> QED
    BY <2>1, Middle
<1> HIDE DEF w
<1>3. /\ w[Len(t) + 2] = a.type /\ w[Len(t) + 3] = e[3] /\ w[Len(t) + 4] = e[4]
  BY <1>1, <1>2 DEF HeaderLen
<1>4. AttrLen(w, Len(t)) = Len(e)
  BY <1>1, <1>3 DEF AttrLen
<1>5. AttrFits(w, Len(t))
  BY <1>1, <1>2, <1>4 DEF AttrFits, HeaderLen
<1>6. AttrAt(w, Len(t)) = a
  <2>1. HeaderLen \in 0 .. Len(e) /\ Len(e) \in 0 .. Len(e)
    BY <1>1, <1>2 DEF HeaderLen
  <2>2. SubSeq(w, Len(t) + HeaderLen + 1, Len(t) + Len(e)) = a.data
    <3>1. e \in Seq(Byte) /\ SubSeq(e, HeaderLen + 1, Len(e)) = a.data
      BY <1>1
    <3>2. SubSeq(w, Len(t) + HeaderLen + 1, Len(t) + Len(e)) = SubSeq(e, HeaderLen + 1, Len(e))
      BY <2>1, <3>1, MiddleSlice DEF w
    <3> QED
      BY <3>1, <3>2
  <2>3. AttrAt(w, Len(t)) = [type |-> a.type, data |-> a.data]
    BY <1>3, <1>4, <2>2 DEF AttrAt
  <2> QED
    BY <2>3 DEF Attributes
<1>7. NextAttr(w, x) = [ok |-> TRUE, pos |-> x.pos + AttrLen(w, x.pos),
                        attrs |-> Append(x.attrs, AttrAt(w, x.pos))]
  BY <1>5 DEF NextAttr
<1>8. x.pos = Len(t) /\ x.attrs = attrs
  OBVIOUS
<1> QED
  BY <1>4, <1>6, <1>7, <1>8 DEF w, e

(* The attributes are where a walk over the packet ends. *)
LEMMA AttrsAtTheEnd ==
  ASSUME NEW pkt, NEW N \in Nat, N = Number(pkt[7], pkt[8]), NEW w,
         w[0] = NoAttrs, \A n \in 1 .. N : w[n] = NextAttr(pkt, w[n - 1])
  PROVE  AttrsOf(pkt) = w[N]
<1> DEFINE Defines(h) == h = [n \in 0 .. N |-> IF n = 0 THEN NoAttrs ELSE NextAttr(pkt, h[n - 1])]
           after == CHOOSE h : Defines(h)
           r == [n \in 0 .. N |-> w[n]]
<1>1. AttrsOf(pkt) = after[N]
  BY Zenon DEF AttrsOf
<1>2. Defines(r)
  <2>1. \A n \in 0 .. N : r[n] = w[n]
    OBVIOUS
  <2>2. ASSUME NEW n \in 0 .. N PROVE r[n] = IF n = 0 THEN NoAttrs ELSE NextAttr(pkt, r[n - 1])
    <3>1. CASE n = 0
      BY <2>1, <3>1
    <3>2. CASE n # 0
      <4>1. n - 1 \in 0 .. N /\ n \in 1 .. N
        BY <3>2
      <4> QED
        BY <2>1, <3>2, <4>1
    <3> QED
      BY <3>1, <3>2
  <2>3. r = [n \in 0 .. N |-> r[n]]
    OBVIOUS
  <2> HIDE DEF r
  <2>4. [n \in 0 .. N |-> r[n]] = [n \in 0 .. N |-> IF n = 0 THEN NoAttrs ELSE NextAttr(pkt, r[n - 1])]
    BY <2>2
  <2> QED
    BY <2>3, <2>4, Zenon
<1>3. Defines(after)
  BY <1>2, Zenon
<1> HIDE DEF after
<1>4. \A n \in 0 .. N : after[n] = IF n = 0 THEN NoAttrs ELSE NextAttr(pkt, after[n - 1])
  <2> SUFFICES ASSUME NEW n \in 0 .. N
               PROVE  after[n] = IF n = 0 THEN NoAttrs ELSE NextAttr(pkt, after[n - 1])
    OBVIOUS
  <2> DEFINE h == [k \in 0 .. N |-> IF k = 0 THEN NoAttrs ELSE NextAttr(pkt, after[k - 1])]
  <2>1. h[n] = IF n = 0 THEN NoAttrs ELSE NextAttr(pkt, after[n - 1])
    OBVIOUS
  <2>2. after = h
    BY <1>3, Zenon
  <2> QED
    BY <2>1, <2>2, Zenon
<1>5. after[0] = w[0]
  BY <1>4
<1>6. \A n \in 1 .. N : after[n - 1] = w[n - 1] => after[n] = w[n]
  BY <1>4
<1>7. \A n \in 0 .. N : after[n] = w[n]
  BY <1>5, <1>6, RecursionUnique
<1> QED
  BY <1>1, <1>7

(* The eight bytes in front of the attributes. *)
CtrlHead(length, type, count) ==
  <<ProtoVersion, 1>> \o BigEndian(length) \o BigEndian(type) \o BigEndian(count)

LEMMA CtrlHeadBytes ==
  ASSUME NEW length \in Nat, NEW type \in Nat, NEW count \in Nat
  PROVE  LET h == CtrlHead(length, type, count)
         IN  /\ h \in Seq(Byte) /\ Len(h) = 2 * HeaderLen /\ h[1] = ProtoVersion /\ h[2] = 1
             /\ h[3] = BigEndian(length)[1] /\ h[4] = BigEndian(length)[2]
             /\ h[5] = BigEndian(type)[1] /\ h[6] = BigEndian(type)[2]
             /\ h[7] = BigEndian(count)[1] /\ h[8] = BigEndian(count)[2]
<1> DEFINE t == <<ProtoVersion, 1>>
           l == BigEndian(length)
           m == BigEndian(type)
           c == BigEndian(count)
<1>1. t \in Seq(Byte) /\ Len(t) = 2 /\ t[1] = ProtoVersion /\ t[2] = 1
  BY WireAssumption DEF Byte
<1>2. /\ l \in Seq(Byte) /\ Len(l) = 2 /\ m \in Seq(Byte) /\ Len(m) = 2
      /\ c \in Seq(Byte) /\ Len(c) = 2
  BY BigEndianBytes
<1> HIDE DEF t, l, m, c
<1> DEFINE u == t \o l
           v == m \o c
<1>3. u \in Seq(Byte) /\ Len(u) = 4 /\ u[1] = t[1] /\ u[2] = t[2] /\ u[3] = l[1] /\ u[4] = l[2]
  BY <1>1, <1>2, TwoAndTwo DEF HeaderLen
<1>4. v \in Seq(Byte) /\ Len(v) = 4 /\ v[1] = m[1] /\ v[2] = m[2] /\ v[3] = c[1] /\ v[4] = c[2]
  BY <1>2, TwoAndTwo DEF HeaderLen
<1>5. u \o m \o c = u \o v
  <2>1. u \in Seq(Byte) /\ m \in Seq(Byte) /\ c \in Seq(Byte)
    BY <1>2, <1>3
  <2> HIDE DEF u
  <2> QED
    BY <2>1, ConcatAssociative
<1> HIDE DEF u, v
<1>6. /\ u \o v \in Seq(Byte) /\ Len(u \o v) = 8
      /\ \A i \in 1 .. 8 : (u \o v)[i] = IF i <= 4 THEN u[i] ELSE v[i - 4]
  <2>1. u \in Seq(Byte) /\ v \in Seq(Byte)
    BY <1>3, <1>4
  <2>2. /\ u \o v \in Seq(Byte) /\ Len(u \o v) = Len(u) + Len(v)
        /\ \A i \in 1 .. Len(u) + Len(v) : (u \o v)[i] = IF i <= Len(u) THEN u[i] ELSE v[i - Len(u)]
    BY <2>1, ConcatProperties
  <2>3. Len(u) = 4 /\ Len(v) = 4 /\ 4 + 4 = 8
    BY <1>3, <1>4
  <2> QED
    BY <2>2, <2>3
<1>7. CtrlHead(length, type, count) = u \o v
  BY <1>5 DEF CtrlHead, u, t, l, m, c
<1> DEFINE h == u \o v
<1> HIDE DEF h
<1>8. /\ h[1] = t[1] /\ h[2] = t[2] /\ h[3] = l[1] /\ h[4] = l[2]
      /\ h[5] = m[1] /\ h[6] = m[2] /\ h[7] = c[1] /\ h[8] = c[2]
  BY <1>3, <1>4, <1>6 DEF h
<1> QED
  BY <1>1, <1>6, <1>7, <1>8 DEF h, l, m, c, HeaderLen

(* A control packet has all its attributes, however many they are and       *)
(* whatever is in them.                                                     *)
LEMMA CtrlPacket ==
  ASSUME NEW type \in Word, NEW attrs \in Seq(Attributes),
         Len(EncodeCtrl(type, attrs)) < Radix * Radix
  PROVE  LET pkt == EncodeCtrl(type, attrs)
         IN  /\ Sound(pkt)
             /\ Meaning(pkt) = [kind |-> "Ctrl", type |-> type, attrs |-> attrs]
<1> DEFINE N == Len(attrs)
           s == [i \in DOMAIN attrs |-> EncodeAttr(attrs[i])]
           enc == FlattenSeq(s)
           L == 2 * HeaderLen + Len(enc)
           h == CtrlHead(L, type, N)
           pkt == h \o enc
           R == Radix * Radix
<1>1. N \in Nat /\ DOMAIN attrs = 1 .. N /\ \A n \in 1 .. N : attrs[n] \in Attributes
  BY LenProperties, ElementOfSeq
<1>2. \A n \in 1 .. N : s[n] = EncodeAttr(attrs[n])
  BY <1>1
<1>3. s \in Seq(Seq(Byte)) /\ Len(s) = N
  <2>1. s = [i \in 1 .. N |-> EncodeAttr(attrs[i])]
    BY <1>1
  <2>2. \A i \in 1 .. N : EncodeAttr(attrs[i]) \in Seq(Byte)
    BY <1>1, AttrBytes
  <2> HIDE DEF s
  <2> QED
    BY <1>1, <2>1, <2>2
<1>4. EncodeCtrl(type, attrs) = pkt
  BY DEF EncodeCtrl, CtrlHead
<1> HIDE DEF s
<1>r. PICK f : Runs(f, N, s, Byte) /\ f[N] = enc
  BY <1>3, FlattenRuns
<1>5. /\ f \in [0 .. N -> Seq(Byte)] /\ f[0] = <<>> /\ f[N] = enc
      /\ \A n \in 1 .. N : f[n] = f[n - 1] \o s[n]
  BY <1>r DEF Runs
<1>6. \A n \in 1 .. N : s[n] \in Seq(Byte) /\ Len(s[n]) >= 4
  BY <1>1, <1>2, AttrBytes DEF HeaderLen
<1>7. \A n \in 0 .. N : f[n] \in Seq(Byte)
  BY <1>5
<1> HIDE DEF enc
<1>8. enc \in Seq(Byte) /\ Len(enc) \in Nat
  BY <1>1, <1>5, <1>7, LenProperties
<1>9. /\ h \in Seq(Byte) /\ Len(h) = 8 /\ h[1] = ProtoVersion /\ h[2] = 1
      /\ h[3] = BigEndian(L)[1] /\ h[4] = BigEndian(L)[2]
      /\ h[5] = BigEndian(type)[1] /\ h[6] = BigEndian(type)[2]
      /\ h[7] = BigEndian(N)[1] /\ h[8] = BigEndian(N)[2]
  <2>1. type \in Nat /\ L \in Nat /\ N \in Nat /\ 2 * HeaderLen = 8
    BY <1>1, <1>8, WireAssumption DEF Word, HeaderLen
  <2> HIDE DEF L, N
  <2>2. /\ h \in Seq(Byte) /\ Len(h) = 2 * HeaderLen /\ h[1] = ProtoVersion /\ h[2] = 1
        /\ h[3] = BigEndian(L)[1] /\ h[4] = BigEndian(L)[2]
        /\ h[5] = BigEndian(type)[1] /\ h[6] = BigEndian(type)[2]
        /\ h[7] = BigEndian(N)[1] /\ h[8] = BigEndian(N)[2]
    BY <2>1, CtrlHeadBytes
  <2> QED
    BY <2>1, <2>2
<1> HIDE DEF h
<1>10. /\ pkt \in Seq(Byte) /\ Len(pkt) = 8 + Len(enc) /\ \A i \in 1 .. 8 : pkt[i] = h[i]
  <2>1. h \in Seq(Byte) /\ enc \in Seq(Byte)
    BY <1>8, <1>9
  <2>2. /\ pkt \in Seq(Byte) /\ Len(pkt) = Len(h) + Len(enc)
        /\ \A i \in 1 .. Len(h) : pkt[i] = h[i]
    BY <2>1, BehindHeader
  <2> QED
    BY <1>9, <2>2
<1>11. Len(pkt) < R
  BY <1>4
<1> HIDE DEF pkt
<1>12. /\ pkt[1] = ProtoVersion /\ pkt[2] = 1
       /\ LengthField(pkt) = Number(BigEndian(L)[1], BigEndian(L)[2])
       /\ Number(pkt[5], pkt[6]) = Number(BigEndian(type)[1], BigEndian(type)[2])
       /\ Number(pkt[7], pkt[8]) = Number(BigEndian(N)[1], BigEndian(N)[2])
  BY <1>9, <1>10 DEF LengthField
<1>13. Len(enc) >= 4 * N
  <2>1. Len(f[N]) >= 4 * N
    BY <1>1, <1>r, <1>6, RunsGrow
  <2> QED
    BY <1>5, <2>1
<1>14. LengthField(pkt) = Len(pkt) /\ Number(pkt[5], pkt[6]) = type /\ Number(pkt[7], pkt[8]) = N
  <2>1. R \in Nat
    BY WireAssumption
  <2> HIDE DEF R, N
  <2>2. L \in 0 .. R - 1 /\ L = Len(pkt) /\ N \in 0 .. R - 1
    BY <1>1, <1>8, <1>10, <1>11, <1>13, <2>1 DEF HeaderLen
  <2> HIDE DEF L
  <2> QED
    BY <1>10, <1>12, <2>2, BigEndianNumber DEF R, Word
<1> DEFINE w == [n \in 0 .. N |-> [ok |-> TRUE, pos |-> 8 + Len(f[n]), attrs |-> SubSeq(attrs, 1, n)]]
<1>16. w[0] = NoAttrs
  <2>1. SubSeq(attrs, 1, 0) = <<>> /\ Len(f[0]) = 0 /\ 0 \in 0 .. N
    BY <1>1, <1>5
  <2>2. w[0] = [ok |-> TRUE, pos |-> 8 + Len(f[0]), attrs |-> SubSeq(attrs, 1, 0)]
    BY <2>1
  <2>3. 8 + Len(f[0]) = 8
    BY <2>1
  <2>4. w[0] = [ok |-> TRUE, pos |-> 8, attrs |-> <<>>]
    BY <2>1, <2>2, <2>3, Zenon
  <2>5. 2 * HeaderLen = 8
    BY DEF HeaderLen
  <2> QED
    BY <2>4, <2>5, Zenon DEF NoAttrs
<1>17. ASSUME NEW n \in 1 .. N PROVE w[n] = NextAttr(pkt, w[n - 1])
  <2>1. n \in 0 .. N /\ n - 1 \in 0 .. N /\ (n - 1) + 1 = n /\ n - 1 \in Nat
    BY <1>1
  <2> DEFINE a == attrs[n]
             e == EncodeAttr(a)
             b == f[n - 1]
             t == h \o b
             before == SubSeq(attrs, 1, n - 1)
  <2>2. PICK v \in Seq(Byte) : f[N] = f[n] \o v
    <3>1. N \in Nat /\ Runs(f, N, s, Byte)
      BY <1>1, <1>r
    <3> HIDE DEF N
    <3>2. \A k \in 0 .. N : Begins(f[k], f[N], Byte)
      BY <3>1, RunsArePrefixes
    <3> QED
      BY <2>1, <3>2 DEF Begins
  <2>3. a \in Attributes
    BY <1>1
  <2>4. e \in Seq(Byte) /\ b \in Seq(Byte) /\ f[n] = b \o e
    BY <1>2, <1>5, <1>6, <1>7, <2>1
  <2>5. Append(before, a) = SubSeq(attrs, 1, n)
    BY <1>1, <2>1
  <2> HIDE DEF a, b, before
  <2>6. e \in Seq(Byte) /\ b \in Seq(Byte)
    BY <2>4
  <2> HIDE DEF e
  <2>7. enc = b \o e \o v
    BY <1>5, <2>2, <2>4
  <2>8. /\ Len(enc) = Len(b) + Len(e) + Len(v) /\ Len(b) \in Nat /\ Len(e) \in Nat /\ Len(v) \in Nat
    BY <2>6, <2>7, Middle
  <2>9. t \in Seq(Byte) /\ Len(t) = 8 + Len(b)
    <3>1. h \in Seq(Byte) /\ Len(h) = 8
      BY <1>9
    <3>2. b \in Seq(Byte)
      BY <2>6
    <3>3. t \in Seq(Byte) /\ Len(t) = Len(h) + Len(b)
      BY <3>1, <3>2, ConcatProperties
    <3> QED
      BY <3>1, <3>3
  <2>10. pkt = t \o e \o v
    <3>1. h \in Seq(Byte)
      BY <1>9
    <3> QED
      <4>1. v \in Seq(Byte)
        BY <2>2
      <4> DEFINE x == b \o e
      <4>2. x \in Seq(Byte) /\ t \o e = h \o x
        <5>1. e \in Seq(Byte) /\ b \in Seq(Byte)
          BY <2>6
        <5>2. x \in Seq(Byte)
          BY <5>1, ConcatProperties
        <5>3. (h \o b) \o e = h \o (b \o e)
          <6>1. \A p, q, r \in Seq(Byte) : (p \o q) \o r = p \o (q \o r)
            BY ConcatAssociative
          <6> QED
            BY <3>1, <5>1, <6>1
        <5> QED
          BY <5>2, <5>3
      <4> HIDE DEF x, t
      <4>3. (h \o x) \o v = h \o (x \o v)
        BY <3>1, <4>1, <4>2, ConcatAssociative
      <4> QED
        BY <2>7, <4>2, <4>3, Zenon DEF pkt, x
  <2> HIDE DEF t
  <2>11. Len(e) < Radix * Radix
    <3>1. R \in Nat
      BY WireAssumption
    <3> QED
      BY <1>10, <1>11, <2>8, <3>1
  <2>12. NextAttr(t \o e \o v, [ok |-> TRUE, pos |-> Len(t), attrs |-> before])
           = [ok |-> TRUE, pos |-> Len(t) + Len(e), attrs |-> Append(before, a)]
    BY <2>3, <2>9, <2>11, AttrInPacket DEF e
  <2>13. w[n - 1] = [ok |-> TRUE, pos |-> Len(t), attrs |-> before]
    BY <2>1, <2>9 DEF b, before
  <2>14. w[n] = [ok |-> TRUE, pos |-> Len(t) + Len(e), attrs |-> Append(before, a)]
    <3>1. Len(f[n]) = Len(b) + Len(e)
      BY <2>4, <2>6, ConcatProperties
    <3>2. 8 + Len(f[n]) = Len(t) + Len(e)
      BY <2>8, <2>9, <3>1
    <3> QED
      BY <2>1, <2>5, <3>2
  <2> QED
    BY <2>10, <2>12, <2>13, <2>14
<1>18. w[N] = [ok |-> TRUE, pos |-> 8 + Len(f[N]), attrs |-> attrs]
  <2>1. SubSeq(attrs, 1, N) = attrs /\ N \in 0 .. N
    BY <1>1
  <2> QED
    BY <2>1
<1> HIDE DEF w, N
<1>19. AttrsOf(pkt) = w[N]
  BY <1>1, <1>14, <1>16, <1>17, AttrsAtTheEnd
<1>20. AttrsOf(pkt).ok /\ AttrsOf(pkt).attrs = attrs
  BY <1>18, <1>19
<1>21. IsCtrl(pkt)
  BY <1>12 DEF IsCtrl
<1>22. WellFormed(pkt)
  BY <1>8, <1>10, <1>20 DEF WellFormed, HeaderLen
<1>23. Meaning(pkt) = [kind |-> "Ctrl", type |-> type, attrs |-> attrs]
  BY <1>14, <1>20, <1>21 DEF Meaning
<1>24. Sound(pkt)
  BY <1>8, <1>10, <1>12, <1>14, <1>22 DEF Sound, HeaderLen
<1> QED
  BY <1>4, <1>23, <1>24

(* A compressed frame whose protocol is not mistaken for the Address and    *)
(* Control it leaves out.                                                   *)
LEMMA CompressedFrame ==
  ASSUME NEW proto \in Word, NEW payload \in Seq(Byte), BigEndian(proto) # AddressControl
  PROVE  LET frame == BigEndian(proto) \o payload
         IN  /\ frame \in Seq(Byte)
             /\ PppFrame(StripAddressControl(frame))
                  = [kind |-> "Ppp", proto |-> proto, payload |-> payload]
<1> DEFINE b == BigEndian(proto)
           u == b \o payload
<1>1. /\ proto \in Nat /\ b \in Seq(Byte) /\ Len(b) = 2 /\ Number(b[1], b[2]) = proto
  BY BigEndianBytes, BigEndianNumber, WireAssumption DEF Word
<1>2. b = <<b[1], b[2]>>
  BY DEF BigEndian
<1>3. b # AddressControl
  OBVIOUS
<1> HIDE DEF b
<1>4. /\ u \in Seq(Byte) /\ Len(u) = Len(b) + Len(payload)
      /\ \A i \in 1 .. Len(b) : u[i] = b[i]
      /\ SubSeq(u, Len(b) + 1, Len(u)) = payload
  BY <1>1, BehindHeader
<1> HIDE DEF u
<1>5. u[1] = b[1] /\ u[2] = b[2] /\ SubSeq(u, 3, Len(u)) = payload /\ ~(Len(u) < 2)
  <2>1. 2 + 1 = 3 /\ Len(payload) \in Nat
    BY LenProperties
  <2> QED
    BY <1>1, <1>4, <2>1
<1>6. StripAddressControl(u) = u
  BY <1>2, <1>3, <1>5 DEF StripAddressControl
<1>7. PppFrame(u) = [kind |-> "Ppp", proto |-> proto, payload |-> payload]
  BY <1>1, <1>5, Zenon DEF PppFrame
<1> QED
  BY <1>4, <1>6, <1>7 DEF u, b

(* What is too short to have a protocol is told from what is not. *)
LEMMA ShortFrame ==
  ASSUME NEW frame \in Seq(Byte), Len(frame) < 2
  PROVE  PppFrame(StripAddressControl(frame)) = [kind |-> "TooShort"]
<1>1. StripAddressControl(frame) = frame
  BY LenProperties DEF StripAddressControl
<1> QED
  BY <1>1 DEF PppFrame

LEMMA MessagePacket ==
  ASSUME NEW m \in Messages, Proper(m)
  PROVE  Sound(Encode(m)) /\ Meaning(Encode(m)) = Content(m)
<1>0. Len(Encode(m)) < Radix * Radix
  BY DEF Proper
<1>1. CASE m.kind = "Ppp"
  <2>1. m.full \in BOOLEAN /\ m.proto \in Word /\ m.payload \in Seq(Byte)
    BY <1>1 DEF Messages
  <2> DEFINE frame == IF m.full THEN EncodePpp(m.proto, m.payload) ELSE BigEndian(m.proto) \o m.payload
  <2>2. Encode(m) = EncodeData(frame)
    BY <1>1 DEF Encode
  <2>3. frame \in Seq(Byte) /\ PppFrame(StripAddressControl(frame))
                                 = [kind |-> "Ppp", proto |-> m.proto, payload |-> m.payload]
    <3>1. CASE m.full
      BY <2>1, <3>1, PppFrameBytes DEF Word
    <3>2. CASE ~m.full
      <4>1. BigEndian(m.proto) # AddressControl
        BY <1>1, <3>2 DEF Proper
      <4> QED
        BY <2>1, <3>2, <4>1, CompressedFrame
    <3> QED
      BY <3>1, <3>2
  <2> HIDE DEF frame
  <2>4. Sound(EncodeData(frame)) /\ Meaning(EncodeData(frame)) = PppFrame(StripAddressControl(frame))
    BY <1>0, <2>2, <2>3, DataSound
  <2>5. Content(m) = [kind |-> "Ppp", proto |-> m.proto, payload |-> m.payload]
    BY <1>1 DEF Content
  <2> QED
    BY <2>2, <2>3, <2>4, <2>5
<1>2. CASE m.kind = "TooShort"
  <2>1. m.frame \in Seq(Byte) /\ Len(m.frame) < 2
    BY <1>2 DEF Messages, Proper
  <2>2. Encode(m) = EncodeData(m.frame)
    BY <1>2 DEF Encode
  <2>3. Content(m) = [kind |-> "TooShort"]
    BY <1>2 DEF Content
  <2> QED
    BY <1>0, <2>1, <2>2, <2>3, DataSound, ShortFrame
<1>3. CASE m.kind = "Ctrl"
  <2>1. m.type \in Word /\ m.attrs \in Seq(Attributes)
    BY <1>3 DEF Messages
  <2>2. Encode(m) = EncodeCtrl(m.type, m.attrs)
    BY <1>3 DEF Encode
  <2>3. Content(m) = [kind |-> "Ctrl", type |-> m.type, attrs |-> m.attrs]
    BY <1>3 DEF Content
  <2> QED
    BY <1>0, <2>1, <2>2, <2>3, CtrlPacket
<1> QED
  BY <1>1, <1>2, <1>3 DEF Messages

(***************************************************************************)
(* Every message that fits comes back as it was sent, from the front of any *)
(* buffer that holds it: PPP frames with Address and Control or compressed, *)
(* frames too short to be any, and control packets with all their           *)
(* attributes, however many they are and whatever is in them                *)
(* (packet.rs:178-329, ppp.rs:61-97).                                       *)
(***************************************************************************)
THEOREM MessagesComeBack ==
  ASSUME NEW m \in Messages, Proper(m), NEW rest \in Seq(Byte)
  PROVE  LET buffer == Encode(m) \o rest
         IN  /\ ~Incomplete(buffer) /\ GoodHeader(buffer) /\ OnePacket(buffer) = Encode(m)
             /\ WellFormed(Encode(m)) /\ Meaning(Encode(m)) = Content(m)
<1> DEFINE pkt == Encode(m)
<1>1. Sound(pkt) /\ Meaning(pkt) = Content(m)
  BY MessagePacket
<1>2. ~Incomplete(pkt \o rest) /\ GoodHeader(pkt \o rest) /\ OnePacket(pkt \o rest) = pkt
  BY <1>1, TakenFromFront
<1> QED
  BY <1>1, <1>2 DEF Sound

-------------------------------------------------------------------------------
(***************************************************************************)
(* Conversations.  Where the packets of c begin in its stream, and where    *)
(* the last of them ends.                                                   *)
(***************************************************************************)
Lays(at, c) ==
  LET s == Said[c]
      last == Len(c.script) + 1
  IN  /\ at \in Seq(Nat) /\ Len(at) = last /\ s \in Seq(Byte)
      /\ at[1] = Len(c.text) + 4 /\ HeaderEndsAt(s, Len(c.text))
      /\ at[last] = Len(c.text) + 4 + Len(Body(c)) /\ at[last] <= Len(s)
      /\ SubSeq(s, at[last] + 1, Len(s)) = c.tail
      /\ \A i \in 1 .. last : at[i] <= at[last]
      /\ \A i \in 1 .. Len(c.script) :
           /\ Lies(s, at[i], Encode(c.script[i]))
           /\ at[i + 1] = at[i] + Len(Encode(c.script[i]))

(* The same of any sequence of packets between a head and a tail. *)
Pieces(at, st, n, s, N, tail) ==
  /\ at \in Seq(Nat) /\ Len(at) = N + 1 /\ st \in Seq(Byte)
  /\ at[1] = n /\ at[N + 1] <= Len(st)
  /\ SubSeq(st, at[N + 1] + 1, Len(st)) = tail
  /\ \A i \in 1 .. N + 1 : at[i] <= at[N + 1]
  /\ \A i \in 1 .. N : Lies(st, at[i], s[i]) /\ at[i + 1] = at[i] + Len(s[i])

LEMMA PiecesLie ==
  ASSUME NEW t \in Seq(Byte), NEW N \in Nat, NEW s \in Seq(Seq(Byte)), Len(s) = N,
         NEW tail \in Seq(Byte), NEW body, body = FlattenSeq(s), NEW n \in Nat, n = Len(t)
  PROVE  \E at : /\ Pieces(at, t \o body \o tail, n, s, N, tail) /\ Lies(t \o body \o tail, 0, t)
                 /\ at[N + 1] = n + Len(body)
<1> DEFINE st == t \o body \o tail
<1>1. PICK f : Runs(f, N, s, Byte) /\ f[N] = body
  BY FlattenRuns
<1>2. /\ f \in [0 .. N -> Seq(Byte)] /\ f[0] = <<>> /\ f[N] = body
      /\ \A i \in 1 .. N : f[i] = f[i - 1] \o s[i] /\ s[i] \in Seq(Byte)
  BY <1>1 DEF Runs
<1>3. \A i \in 0 .. N : f[i] \in Seq(Byte) /\ Len(f[i]) \in Nat
  BY <1>2, LenProperties
<1>4. body \in Seq(Byte) /\ Len(body) \in Nat
  BY <1>2, <1>3
<1>5. /\ st \in Seq(Byte) /\ Len(st) = n + Len(body) + Len(tail) /\ Len(tail) \in Nat
      /\ \A i \in 1 .. n : st[i] = t[i]
      /\ \A i \in 1 .. Len(body) : st[n + i] = body[i]
  BY <1>4, Middle
<1>6. SubSeq(st, (n + Len(body)) + 1, Len(st)) = tail
  <2> DEFINE u == t \o body
  <2>1. u \in Seq(Byte) /\ Len(u) = n + Len(body)
    BY <1>4, ConcatProperties
  <2> HIDE DEF u
  <2>2. SubSeq(u \o tail, Len(u) + 1, Len(u \o tail)) = tail
    BY <2>1, BehindHeader
  <2> QED
    BY <2>1, <2>2 DEF u
<1> HIDE DEF st
<1>7. Lies(st, 0, t)
  <2>1. \A i \in 1 .. n : 0 + i = i
    OBVIOUS
  <2> QED
    BY <1>4, <1>5, <2>1 DEF Lies
<1> DEFINE at == [i \in 1 .. N + 1 |-> n + Len(f[i - 1])]
<1>8. \A i \in 1 .. N + 1 : i - 1 \in 0 .. N /\ at[i] = n + Len(f[i - 1]) /\ at[i] \in Nat
  <2>1. \A i \in 1 .. N + 1 : i - 1 \in 0 .. N
    OBVIOUS
  <2> QED
    BY <1>3, <2>1
<1>9. at \in Seq(Nat) /\ Len(at) = N + 1
  <2>1. N + 1 \in Nat /\ \A i \in 1 .. N + 1 : n + Len(f[i - 1]) \in Nat
    BY <1>8
  <2> QED
    BY <2>1
<1> HIDE DEF at
<1>10. at[1] = n /\ at[N + 1] = n + Len(body)
  <2>1. 1 \in 1 .. N + 1 /\ N + 1 \in 1 .. N + 1 /\ (N + 1) - 1 = N /\ 1 - 1 = 0
    OBVIOUS
  <2>2. at[1] = n + Len(f[0]) /\ at[N + 1] = n + Len(f[N])
    BY <1>8, <2>1
  <2>3. Len(f[0]) = 0
    BY <1>2
  <2> QED
    BY <1>2, <2>2, <2>3
<1>11. \A i \in 0 .. N : Begins(f[i], body, Byte)
  BY <1>1, RunsArePrefixes
<1>12. ASSUME NEW i \in 1 .. N + 1 PROVE at[i] <= at[N + 1]
  <2> DEFINE b == f[i - 1]
  <2>1. b \in Seq(Byte) /\ Begins(b, body, Byte) /\ at[i] = n + Len(b)
    BY <1>3, <1>8, <1>11
  <2> HIDE DEF b
  <2>2. PICK v \in Seq(Byte) : body = b \o v
    BY <2>1 DEF Begins
  <2>3. Len(body) = Len(b) + Len(v) /\ Len(v) \in Nat /\ Len(b) \in Nat
    BY <2>1, <2>2, ConcatProperties, LenProperties
  <2> QED
    BY <1>10, <2>1, <2>3
<1>13. ASSUME NEW i \in 1 .. N PROVE Lies(st, at[i], s[i]) /\ at[i + 1] = at[i] + Len(s[i])
  <2> DEFINE e == s[i]
             b == f[i - 1]
             l == Len(f[i])
  <2>1. i \in 0 .. N /\ i - 1 \in 0 .. N /\ i \in 1 .. N + 1 /\ i + 1 \in 1 .. N + 1 /\ (i + 1) - 1 = i
    OBVIOUS
  <2>2. e \in Seq(Byte) /\ b \in Seq(Byte) /\ f[i] = b \o e
    BY <1>2, <1>3, <2>1
  <2>3. at[i] = n + Len(b) /\ at[i + 1] = n + l /\ at[i] \in Nat
    BY <1>8, <2>1
  <2>4. PICK after \in Seq(Byte) : body = f[i] \o after
    BY <1>11, <2>1 DEF Begins
  <2>5. l = Len(b \o e)
    BY <2>2
  <2> HIDE DEF e, b, l
  <2>6. l = Len(b) + Len(e) /\ Len(b) \in Nat /\ Len(e) \in Nat
    BY <2>2, <2>5, ConcatProperties, LenProperties
  <2>7. body = b \o e \o after
    BY <2>2, <2>4
  <2>8. /\ Len(body) = Len(b) + Len(e) + Len(after) /\ Len(after) \in Nat
        /\ \A j \in 1 .. Len(e) : body[Len(b) + j] = e[j]
    <3>1. b \in Seq(Byte) /\ e \in Seq(Byte) /\ after \in Seq(Byte)
      BY <2>2, <2>4
    <3>2. Len(b \o e \o after) = Len(b) + Len(e) + Len(after) /\ Len(after) \in Nat
      BY <3>1, Middle
    <3>3. \A j \in 1 .. Len(e) : (b \o e \o after)[Len(b) + j] = e[j]
      BY <3>1, MiddleElement
    <3> QED
      BY <2>7, <3>2, <3>3
  <2>9. ASSUME NEW j \in 1 .. Len(e) PROVE st[at[i] + j] = e[j]
    <3>1. Len(b) + j \in 1 .. Len(body) /\ n + (Len(b) + j) = at[i] + j
      BY <2>3, <2>6, <2>8
    <3>2. st[n + (Len(b) + j)] = body[Len(b) + j]
      BY <1>5, <3>1
    <3> QED
      BY <2>8, <3>1, <3>2
  <2>10. at[i] + Len(e) <= Len(st)
    BY <1>4, <1>5, <2>3, <2>6, <2>8
  <2>11. at[i + 1] = at[i] + Len(e)
    BY <2>3, <2>6
  <2> QED
    BY <2>3, <2>9, <2>10, <2>11 DEF Lies, e
<1>14. at[N + 1] <= Len(st) /\ SubSeq(st, at[N + 1] + 1, Len(st)) = tail
  BY <1>4, <1>5, <1>6, <1>10
<1>15. Pieces(at, st, n, s, N, tail)
  BY <1>5, <1>9, <1>10, <1>12, <1>13, <1>14 DEF Pieces
<1> QED
  BY <1>7, <1>10, <1>15 DEF st

LEMMA ConversationLays ==
  ASSUME NEW c \in Conversations PROVE \E at : Lays(at, c)
<1> DEFINE N == Len(c.script)
           s == [i \in DOMAIN c.script |-> Encode(c.script[i])]
           body == Body(c)
           text == c.text
           t == text \o BlankLine
           st == Said[c]
           n == Len(text) + 4
           tail == c.tail
<1>1. /\ text \in Seq(Byte) /\ HeaderEndsAt(t, Len(text))
      /\ c.script \in Seq(Messages) /\ \A i \in DOMAIN c.script : Proper(c.script[i])
      /\ tail \in Seq(Byte)
  BY ConversationsAssumption
<1>2. N \in Nat /\ DOMAIN c.script = 1 .. N /\ \A i \in 1 .. N : c.script[i] \in Messages
  BY <1>1, LenProperties, ElementOfSeq
<1>3. \A i \in 1 .. N : s[i] = Encode(c.script[i]) /\ s[i] \in Seq(Byte)
  BY <1>1, <1>2, MessagePacket DEF Sound
<1>4. s \in Seq(Seq(Byte)) /\ Len(s) = N
  <2>1. s = [i \in 1 .. N |-> s[i]]
    BY <1>2
  <2> HIDE DEF s, N
  <2> QED
    BY <1>2, <1>3, <2>1
<1>5. body = FlattenSeq(s)
  BY DEF Body
<1>6. st = t \o body \o tail
  BY DEF Said
<1> HIDE DEF s, body, st, text, tail, N
<1>7. t \in Seq(Byte) /\ Len(t) = n /\ Len(text) \in Nat
  <2>1. BlankLine \in Seq(Byte) /\ Len(BlankLine) = 4
    BY FramingAssumption DEF BlankLine
  <2>2. t \in Seq(Byte) /\ Len(t) = Len(text) + Len(BlankLine) /\ Len(text) \in Nat
    BY <1>1, <2>1, ConcatProperties, LenProperties
  <2> QED
    BY <2>1, <2>2
<1>8. n \in Nat /\ Len(text) <= n
  BY <1>7
<1> HIDE DEF t, n
<1>9. PICK at : Pieces(at, st, n, s, N, tail) /\ Lies(st, 0, t) /\ at[N + 1] = n + Len(body)
  BY <1>1, <1>2, <1>4, <1>5, <1>6, <1>7, <1>8, PiecesLie
<1>10. st \in Seq(Byte) /\ n <= Len(st) /\ Len(st) \in Nat
  BY <1>7, <1>8, <1>9, LenProperties DEF Pieces, Lies
<1>11. HeaderEndsAt(st, Len(text))
  <2>1. SubSeq(st, 1, n) = t
    <3>1. SubSeq(st, 0 + 1, 0 + Len(t)) = t
      BY <1>7, <1>9, <1>10, LiesSlice
    <3>2. 0 + 1 = 1 /\ 0 + Len(t) = n
      BY <1>7, <1>8
    <3> QED
      BY <3>1, <3>2
  <2>2. HeaderEndsAt(SubSeq(st, 1, n), Len(text)) /\ n \in 0 .. Len(st)
    <3>1. HeaderEndsAt(SubSeq(st, 1, n), Len(text))
      BY <1>1, <2>1, Zenon
    <3> QED
      BY <1>8, <1>10, <3>1
  <2> QED
    BY <1>7, <1>10, <2>2, HeaderInStream
<1>12. \A i \in 1 .. N : /\ Lies(st, at[i], Encode(c.script[i]))
                         /\ at[i + 1] = at[i] + Len(Encode(c.script[i]))
  BY <1>3, <1>9 DEF Pieces
<1> QED
  BY <1>9, <1>11, <1>12, Zenon DEF Lays, Pieces, st, N, n, body, text, tail

(***************************************************************************)
(* What the server said.  The strengthening: what has been delivered was a  *)
(* whole packet of the stream, and select! waits for no packet that has     *)
(* arrived.                                                                 *)
(***************************************************************************)
WholeAt(p) ==
  LET rest == SubSeq(stream, p + 1, Len(stream))
  IN ~Incomplete(rest) /\ GoodHeader(rest) /\ WellFormed(OnePacket(rest))

DeliveredWhole == \A i \in 1 .. Len(starts) : WholeAt(starts[i])
SelectWaits    == mode = "select" => Incomplete(buf)

SentInv == DeliveredWhole /\ SelectWaits

LEMMA NextSent ==
  ASSUME CutIInv, SentInv, [FramingNext]_framingVars PROVE SentInv'
<1>0. FramingIInv /\ DeliveredWhole /\ SelectWaits
  BY DEF CutIInv, SentInv
<1>1. ASSUME UNCHANGED <<stream, starts>> PROVE DeliveredWhole'
  BY <1>0, <1>1 DEF DeliveredWhole, WholeAt
<1>2. ASSUME NEW n \in 1 .. Len(stream), HttpReadsOn(n) \/ HttpAccepted(n) \/ HttpRefused(n) \/ ReadBranch(n)
      PROVE  SentInv'
  <2>1. UNCHANGED <<stream, starts>>
    BY <1>2 DEF HttpReadsOn, HttpAccepted, HttpRefused, ReadBranch, Receive
  <2>2. mode' # "select"
    BY <1>2 DEF HttpReadsOn, HttpAccepted, HttpRefused, ReadBranch
  <2> QED
    BY <1>1, <2>1, <2>2 DEF SentInv, SelectWaits
<1>3. CASE NextPacket
  <2>1. /\ ~Incomplete(buf) /\ GoodHeader(buf) /\ WellFormed(OnePacket(buf))
        /\ mode' = "decoding" /\ stream' = stream /\ starts' = Append(starts, done)
    BY <1>3 DEF NextPacket, Consume
  <2>2. WholeAt(done)
    BY <1>0, <2>1, FrontInStream DEF WholeAt
  <2>3. starts \in Seq(0 .. Len(stream)) /\ done \in 0 .. Len(stream)
    BY <1>0 DEF FramingIInv, FramingTypeOK
  <2>4. /\ Len(starts) \in Nat /\ Len(starts') = Len(starts) + 1 /\ starts'[Len(starts) + 1] = done
        /\ \A i \in 1 .. Len(starts) : starts'[i] = starts[i]
    BY <2>1, <2>3
  <2>5. \A p : WholeAt(p) => WholeAt(p)'
    BY <2>1 DEF WholeAt
  <2>6. ASSUME NEW i \in 1 .. Len(starts') PROVE WholeAt(starts'[i])
    <3>1. CASE i \in 1 .. Len(starts)
      BY <1>0, <2>4, <3>1 DEF DeliveredWhole
    <3>2. CASE i = Len(starts) + 1
      BY <2>2, <2>4, <3>2
    <3> QED
      BY <2>4, <3>1, <3>2
  <2>7. DeliveredWhole'
    BY <2>1, <2>6 DEF DeliveredWhole, WholeAt
  <2> QED
    BY <2>1, <2>7 DEF SentInv, SelectWaits
<1>4. CASE NoMorePackets \/ NextPacketFails \/ TaskEnds \/ Keepalive \/ UNCHANGED framingVars
  <2>1. UNCHANGED <<stream, starts, buf>>
    BY <1>4 DEF NoMorePackets, NextPacketFails, TaskEnds, Keepalive, framingVars
  <2>2. mode' = "select" => Incomplete(buf)
    BY <1>0, <1>4 DEF NoMorePackets, NextPacketFails, TaskEnds, Keepalive, framingVars, SelectWaits
  <2> QED
    BY <1>1, <2>1, <2>2 DEF SentInv, SelectWaits
<1> QED
  BY <1>2, <1>3, <1>4 DEF FramingNext

(* The boundaries the server wrote are the ones of what it said. *)
LEMMA ConversationDivides ==
  ASSUME NEW c \in Conversations, Said[c] = stream, NEW at, Lays(at, c)
  PROVE  /\ Divides(at)
         /\ \A i \in 1 .. Len(c.script) : /\ Sound(Encode(c.script[i]))
                                          /\ PacketAt(at[i]) = Encode(c.script[i])
<1> DEFINE N == Len(c.script)
<1>1. /\ at \in Seq(Nat) /\ Len(at) = N + 1 /\ stream \in Seq(Byte)
      /\ at[1] = Len(c.text) + 4 /\ HeaderEndsAt(stream, Len(c.text))
      /\ \A i \in 1 .. N : Lies(stream, at[i], Encode(c.script[i]))
                           /\ at[i + 1] = at[i] + Len(Encode(c.script[i]))
  BY DEF Lays
<1>2. c.script \in Seq(Messages) /\ (\A i \in DOMAIN c.script : Proper(c.script[i])) /\ c.text \in Seq(Byte)
  BY ConversationsAssumption
<1>3. N \in Nat /\ DOMAIN c.script = 1 .. N /\ \A i \in 1 .. N : c.script[i] \in Messages
  BY <1>2, LenProperties, ElementOfSeq
<1>4. \A i \in 1 .. N : Sound(Encode(c.script[i]))
  BY <1>2, <1>3, MessagePacket
<1>5. ASSUME NEW i \in 1 .. N
      PROVE  /\ at[i + 1] = at[i] + LengthAt(at[i])
             /\ PacketAt(at[i]) = Encode(c.script[i])
  <2> DEFINE pkt == Encode(c.script[i])
             p == at[i]
  <2>1. /\ Sound(pkt) /\ Lies(stream, p, pkt) /\ at[i + 1] = p + Len(pkt)
    BY <1>1, <1>4
  <2> HIDE DEF pkt, p
  <2>2. /\ pkt \in Seq(Byte) /\ Len(pkt) \in Nat /\ Len(pkt) >= 4
        /\ Number(pkt[3], pkt[4]) = Len(pkt) /\ p \in Nat
        /\ \A j \in 1 .. Len(pkt) : stream[p + j] = pkt[j]
    BY <2>1 DEF Sound, Lies, LengthField, HeaderLen
  <2>3. LengthAt(p) = Len(pkt)
    BY <2>2 DEF LengthAt
  <2>4. PacketAt(p) = pkt
    BY <1>1, <2>1, <2>2, <2>3, LiesSlice DEF PacketAt
  <2> QED
    BY <2>1, <2>3, <2>4 DEF p, pkt
<1>6. at # <<>> /\ at[1] - 4 = Len(c.text)
  BY <1>1, <1>2, <1>3, LenProperties
<1>7. Divides(at)
  <2>1. Len(at) - 1 = N
    BY <1>1, <1>3
  <2> QED
    BY <1>1, <1>5, <1>6, <2>1 DEF Divides
<1> QED
  BY <1>4, <1>5, <1>7

LEMMA SentIsDelivered ==
  ASSUME CutIInv, OrderInv, SentInv PROVE DeliveredAsSent
<1> SUFFICES ASSUME NEW c \in Conversations, Said[c] = stream
             PROVE  /\ \A i \in DOMAIN delivered :
                         i <= Len(c.script) /\ delivered[i] = Content(c.script[i])
                    /\ mode \in {"select", "malformed"} /\ read >= Len(c.text) + 4 + Len(Body(c))
                         => Len(delivered) = Len(c.script)
                    /\ mode = "malformed" => Spoilt(c.tail)
  BY DEF DeliveredAsSent
<1> DEFINE N == Len(c.script)
           k == Len(starts)
<1>1. PICK at : Lays(at, c)
  BY ConversationLays
<1>2. /\ at \in Seq(Nat) /\ Len(at) = N + 1 /\ stream \in Seq(Byte)
      /\ at[N + 1] = Len(c.text) + 4 + Len(Body(c))
      /\ SubSeq(stream, at[N + 1] + 1, Len(stream)) = c.tail
      /\ \A i \in 1 .. N + 1 : at[i] <= at[N + 1]
      /\ \A i \in 1 .. N : /\ Lies(stream, at[i], Encode(c.script[i]))
                           /\ at[i + 1] = at[i] + Len(Encode(c.script[i]))
  BY <1>1 DEF Lays
<1>3. /\ Divides(at)
      /\ \A i \in 1 .. N : Sound(Encode(c.script[i])) /\ PacketAt(at[i]) = Encode(c.script[i])
  BY <1>1, ConversationDivides
<1>4. InStep(at)
  BY <1>2, <1>3 DEF OrderInv
<1>5. /\ c.script \in Seq(Messages) /\ \A i \in DOMAIN c.script : Proper(c.script[i])
      /\ Incomplete(c.tail) \/ Spoilt(c.tail)
  BY ConversationsAssumption
<1>6. N \in Nat /\ DOMAIN c.script = 1 .. N /\ \A i \in 1 .. N : c.script[i] \in Messages
  BY <1>5, LenProperties, ElementOfSeq
<1>7. \A i \in 1 .. N : Meaning(Encode(c.script[i])) = Content(c.script[i])
  BY <1>5, <1>6, MessagePacket
<1>8. /\ k \in Nat /\ DOMAIN delivered = 1 .. k /\ Len(delivered) = k
      /\ read \in 0 .. Len(stream) /\ done \in 0 .. read /\ Len(stream) \in Nat
      /\ buf = SubSeq(stream, done + 1, read)
  BY LenProperties DEF CutIInv, FramingIInv, FramingTypeOK, NoByteLost, DeliveredIsASequence
<1>9. /\ \A i \in 1 .. k : delivered[i] = Meaning(PacketAt(starts[i]))
      /\ mode = "malformed" => MalformedAt(done)
  BY <1>8 DEF CutIInv, CutIndependent
<1>10. k <= N
  <2> SUFFICES ASSUME k >= N + 1 PROVE FALSE
    BY <1>6, <1>8
  <2>1. N + 1 \in 1 .. k /\ N + 1 <= Len(at)
    BY <1>2, <1>6, <1>8
  <2>2. starts[N + 1] = at[N + 1] /\ WholeAt(starts[N + 1])
    BY <1>4, <2>1 DEF InStep, SentInv, DeliveredWhole
  <2>3. ~Incomplete(c.tail) /\ GoodHeader(c.tail) /\ WellFormed(OnePacket(c.tail))
    BY <1>2, <2>2 DEF WholeAt
  <2> QED
    BY <1>5, <2>3 DEF Spoilt
<1>11. ASSUME NEW i \in 1 .. k PROVE i <= N /\ delivered[i] = Content(c.script[i])
  <2>1. i \in 1 .. N /\ i <= Len(at)
    <3>1. N \in Nat /\ k \in Nat /\ k <= N /\ Len(at) = N + 1
      BY <1>2, <1>6, <1>8, <1>10
    <3> HIDE DEF N, k
    <3> QED
      BY <3>1
  <2>2. starts[i] = at[i]
    BY <1>4, <2>1 DEF InStep
  <2> QED
    BY <1>3, <1>7, <1>9, <2>1, <2>2
<1>12. ASSUME mode \in {"select", "malformed"} PROVE done = at[k + 1]
  <2>1. k < Len(at)
    BY <1>2, <1>6, <1>8, <1>10
  <2> QED
    BY <1>4, <1>12, <2>1 DEF InStep
<1>13. ASSUME mode \in {"select", "malformed"}, k < N,
              NEW b \in at[k + 2] .. Len(stream)
       PROVE  LET v == SubSeq(stream, done + 1, b)
              IN ~Incomplete(v) /\ GoodHeader(v) /\ WellFormed(OnePacket(v))
  <2> DEFINE i == k + 1
             pkt == Encode(c.script[i])
  <2>1. i \in 1 .. N /\ i + 1 = k + 2
    BY <1>6, <1>8, <1>13
  <2>2. Sound(pkt) /\ Lies(stream, at[i], pkt) /\ at[k + 2] = at[i] + Len(pkt)
    BY <1>2, <1>3, <2>1
  <2>3. done = at[i]
    BY <1>12, <1>13
  <2> HIDE DEF pkt
  <2>4. Lies(stream, done, pkt) /\ b \in done + Len(pkt) .. Len(stream)
    BY <2>2, <2>3
  <2> DEFINE v == SubSeq(stream, done + 1, b)
  <2>5. ~Incomplete(v) /\ GoodHeader(v) /\ OnePacket(v) = pkt
    BY <1>2, <2>2, <2>4, TakenWhole
  <2> QED
    BY <2>2, <2>5 DEF Sound
<1>14. ASSUME k < N PROVE at[k + 2] \in Nat /\ at[k + 2] <= at[N + 1]
  <2>1. k + 2 \in 1 .. N + 1
    BY <1>6, <1>8, <1>14
  <2> QED
    BY <1>2, <2>1
<1>15. at[N + 1] \in Nat /\ at[N + 1] <= Len(stream)
  BY <1>1, <1>2, <1>6 DEF Lays
<1>16. ASSUME mode = "malformed" PROVE k = N
  <2> SUFFICES ASSUME k < N PROVE FALSE
    BY <1>6, <1>8, <1>10
  <2>1. Len(stream) \in at[k + 2] .. Len(stream)
    BY <1>8, <1>14, <1>15
  <2> DEFINE v == SubSeq(stream, done + 1, Len(stream))
  <2>2. ~Incomplete(v) /\ GoodHeader(v) /\ WellFormed(OnePacket(v))
    BY <1>13, <1>16, <2>1
  <2> QED
    BY <1>9, <1>16, <2>2 DEF MalformedAt
<1>17. ASSUME mode = "select", read >= at[N + 1] PROVE k = N
  <2> SUFFICES ASSUME k < N PROVE FALSE
    BY <1>6, <1>8, <1>10
  <2>1. read \in at[k + 2] .. Len(stream)
    BY <1>8, <1>14, <1>15, <1>17
  <2>2. ~Incomplete(buf)
    BY <1>8, <1>13, <1>17, <2>1
  <2> QED
    BY <1>17, <2>2 DEF SentInv, SelectWaits
<1>18. ASSUME mode = "malformed" PROVE Spoilt(c.tail)
  <2>1. done = at[N + 1]
    BY <1>12, <1>16, <1>18
  <2> QED
    BY <1>2, <1>9, <1>18, <2>1 DEF MalformedAt, Spoilt
<1> QED
  BY <1>2, <1>8, <1>11, <1>16, <1>17, <1>18

(* For every set of conversations, of any length and with any messages, and *)
(* however TLS cuts their bytes, the engine is given what the server sent,   *)
(* in order and all of it, and nothing fails before a packet that is spoilt *)
(* (packet.rs:178-329, ppp.rs:74-97, connection.rs:148-208).                *)
THEOREM FramingDeliversAsSent == FramingSpec => []DeliveredAsSent
<1>1. FramingInit => OrderInv
  BY DEF FramingInit, OrderInv, InStep
<1>2. FramingInit => SentInv
  BY DEF FramingInit, SentInv, DeliveredWhole, SelectWaits
<1>3. CutIInv /\ SentInv /\ [FramingNext]_framingVars => SentInv'
  BY NextSent
<1>4. CutIInv /\ CutIInv' /\ OrderInv /\ [FramingNext]_framingVars => OrderInv'
  BY NextOrder
<1>5. CutIInv /\ OrderInv /\ SentInv => DeliveredAsSent
  BY SentIsDelivered
<1> QED
  BY <1>1, <1>2, <1>3, <1>4, <1>5, FramingInitCutIInv, NextCutIInv, PTL DEF FramingSpec
===============================================================================
