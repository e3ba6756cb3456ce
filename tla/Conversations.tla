------------------------------ MODULE Conversations -----------------------------
(***************************************************************************)
(* What a server says, and what the engine is to get of it.  A message is  *)
(* a packet of the code's own formats; a conversation is a response, some  *)
(* messages and a tail that begins with no packet: one that is not all     *)
(* there, or one that decode refuses.                                      *)
(***************************************************************************)
EXTENDS Framing

CONSTANT Conversations

Word       == 0 .. Radix * Radix - 1
Attributes == [type : Byte, data : Seq(Byte)]
Messages ==
  [kind : {"Ppp"}, full : BOOLEAN,      \* with Address and Control, or compressed
   proto : Word, payload : Seq(Byte)]
  \cup [kind : {"TooShort"}, frame : Seq(Byte)]
  \cup [kind : {"Ctrl"}, type : Word, attrs : Seq(Attributes)]

Encode(m) ==
  CASE m.kind = "Ppp" ->
         EncodeData(IF m.full THEN EncodePpp(m.proto, m.payload)
                              ELSE BigEndian(m.proto) \o m.payload)
    [] m.kind = "TooShort" -> EncodeData(m.frame)
    [] m.kind = "Ctrl" -> EncodeCtrl(m.type, m.attrs)

(* What is compressed must not look as if it were not. *)
Proper(m) ==
  /\ Len(Encode(m)) < Radix * Radix
  /\ m.kind = "Ppp" /\ ~m.full => BigEndian(m.proto) # AddressControl
  /\ m.kind = "TooShort" => Len(m.frame) < 2

Content(m) ==
  CASE m.kind = "Ppp" -> [kind |-> "Ppp", proto |-> m.proto, payload |-> m.payload]
    [] m.kind = "TooShort" -> [kind |-> "TooShort"]
    [] m.kind = "Ctrl" -> [kind |-> "Ctrl", type |-> m.type, attrs |-> m.attrs]

BlankLine == <<CR, LF, CR, LF>>
Spoilt(bytes) ==
  ~Incomplete(bytes) /\ ~(GoodHeader(bytes) /\ WellFormed(OnePacket(bytes)))

ASSUME ConversationsAssumption ==
  \A c \in Conversations :
    /\ c.text \in Seq(Byte) /\ HeaderEndsAt(c.text \o BlankLine, Len(c.text))
    /\ c.script \in Seq(Messages) /\ \A i \in DOMAIN c.script : Proper(c.script[i])
    /\ c.tail \in Seq(Byte) /\ (Incomplete(c.tail) \/ Spoilt(c.tail))

Body(c) == FlattenSeq([i \in DOMAIN c.script |-> Encode(c.script[i])])
Said    == [c \in Conversations |-> c.text \o BlankLine \o Body(c) \o c.tail]

(* What the server sent is what the engine gets, in order; all of it once a *)
(* read has brought it; and nothing fails before a packet that is spoilt    *)
(* (packet.rs:178-329, ppp.rs:74-97).                                       *)
DeliveredAsSent ==
  \A c \in Conversations :
    Said[c] = stream =>
      /\ \A i \in DOMAIN delivered :
           i <= Len(c.script) /\ delivered[i] = Content(c.script[i])
      /\ mode \in {"select", "malformed"} /\ read >= Len(c.text) + 4 + Len(Body(c))
           => Len(delivered) = Len(c.script)
      /\ mode = "malformed" => Spoilt(c.tail)
===============================================================================
