---------------------------------- MODULE Wire ---------------------------------
(***************************************************************************)
(* The formats of sstp-proto/src/packet.rs and ppp.rs: SSTP packets with   *)
(* their attributes, and the PPP frames inside data packets.  Bytes are    *)
(* numbers below Radix, 256 in the code, so that a 16-bit field wraps at   *)
(* Radix squared.  Message, attribute and protocol types are the numbers   *)
(* they have on the wire: the code keeps the ones it does not know.        *)
(***************************************************************************)
EXTENDS Integers, Sequences, SequencesExt

CONSTANTS
  Radix,            \* values of a byte
  ProtoVersion,     \* PROTO_VERSION
  AddressControl,   \* ADDRESS_CONTROL, two bytes
  LcpProtocol,      \* the PPP protocol number of LCP
  RejectCode        \* Code::ProtocolReject

Byte == 0 .. Radix - 1

ASSUME WireAssumption ==
  /\ Radix \in Nat \ {0, 1} /\ ProtoVersion \in Byte
  /\ AddressControl \in Byte \X Byte
  /\ LcpProtocol \in 0 .. Radix * Radix - 1 /\ RejectCode \in Byte

HeaderLen == 4      \* of a packet, of the control part, of an attribute

Number(hi, lo) == hi * Radix + lo                             \* from_be_bytes
BigEndian(n)   == <<(n \div Radix) % Radix, n % Radix>>       \* (n as u16).to_be_bytes

-------------------------------------------------------------------------------
(* Encoding. *)

EncodeData(frame) ==
  <<ProtoVersion, 0>> \o BigEndian(HeaderLen + Len(frame)) \o frame

EncodeAttr(a) == <<0, a.type>> \o BigEndian(HeaderLen + Len(a.data)) \o a.data

EncodeCtrl(type, attrs) ==
  LET encoded == FlattenSeq([i \in DOMAIN attrs |-> EncodeAttr(attrs[i])])
  IN <<ProtoVersion, 1>> \o BigEndian(2 * HeaderLen + Len(encoded))
     \o BigEndian(type) \o BigEndian(Len(attrs)) \o encoded

EncodePpp(proto, payload) == AddressControl \o BigEndian(proto) \o payload

WrongEncodeCp(code, id, data) == <<code, id>> \o BigEndian(Len(data)) \o data   \* header left out

EncodeCp(code, id, data) == <<code, id>> \o BigEndian(HeaderLen + Len(data)) \o data

(* The packet that answers a frame of a protocol the engine does not speak. *)
ProtocolReject(id, frame) == EncodeData(EncodePpp(LcpProtocol, EncodeCp(RejectCode, id, frame)))

-------------------------------------------------------------------------------
(* Decoding: what the front of a buffer is. *)

LengthField(buf) == Number(buf[3], buf[4])

GoodHeader(buf) == buf[1] = ProtoVersion /\ LengthField(buf) >= HeaderLen

Incomplete(buf) ==
  Len(buf) >= HeaderLen => GoodHeader(buf) /\ Len(buf) < LengthField(buf)

(* decode looks at nothing past the length in the header. *)
OnePacket(buf) == SubSeq(buf, 1, LengthField(buf))

IsCtrl(pkt) == pkt[2] % 2 = 1

(* The attributes, as far as they are well formed; `pos` bytes are behind.  *)
AttrLen(pkt, pos) == Number(pkt[pos + 3], pkt[pos + 4])

AttrFits(pkt, pos) ==
  /\ pos + HeaderLen <= Len(pkt)
  /\ AttrLen(pkt, pos) >= HeaderLen /\ pos + AttrLen(pkt, pos) <= Len(pkt)

AttrAt(pkt, pos) ==
  [type |-> pkt[pos + 2],
   data |-> SubSeq(pkt, pos + HeaderLen + 1, pos + AttrLen(pkt, pos))]

NextAttr(pkt, w) ==
  IF w.ok /\ AttrFits(pkt, w.pos)
  THEN [ok |-> TRUE, pos |-> w.pos + AttrLen(pkt, w.pos),
        attrs |-> Append(w.attrs, AttrAt(pkt, w.pos))]
  ELSE [w EXCEPT !.ok = FALSE]

NoAttrs == [ok |-> TRUE, pos |-> 2 * HeaderLen, attrs |-> <<>>]

AttrsOf(pkt) ==
  LET after[n \in 0 .. Number(pkt[7], pkt[8])] ==
        IF n = 0 THEN NoAttrs ELSE NextAttr(pkt, after[n - 1])
  IN after[Number(pkt[7], pkt[8])]

WellFormed(pkt) == IsCtrl(pkt) => Len(pkt) >= 2 * HeaderLen /\ AttrsOf(pkt).ok

(* ppp::decode. *)
WrongStripAddressControl(frame) == frame

StripAddressControl(frame) ==
  IF Len(frame) >= 2 /\ <<frame[1], frame[2]>> = AddressControl
  THEN SubSeq(frame, 3, Len(frame)) ELSE frame

PppFrame(bytes) ==
  IF Len(bytes) < 2 THEN [kind |-> "TooShort"]
  ELSE [kind |-> "Ppp", proto |-> Number(bytes[1], bytes[2]),
        payload |-> SubSeq(bytes, 3, Len(bytes))]

(* What the engine makes of one packet. *)
Meaning(pkt) ==
  IF IsCtrl(pkt)
  THEN [kind |-> "Ctrl", type |-> Number(pkt[5], pkt[6]), attrs |-> AttrsOf(pkt).attrs]
  ELSE PppFrame(StripAddressControl(SubSeq(pkt, HeaderLen + 1, Len(pkt))))
===============================================================================
