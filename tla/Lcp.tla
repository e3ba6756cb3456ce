---------------------------------- MODULE Lcp ---------------------------------
(***************************************************************************)
(* The LCP automaton of sstp-proto/src/lcp.rs: struct Lcp as the record    *)
(* `lcp`, one action per arm of Lcp::receive.  No timers: every step is a  *)
(* received frame, the initial request or a Protocol-Reject.               *)
(***************************************************************************)
EXTENDS Cp

CONSTANTS
  Magics,      \* the magic numbers the two ends can draw
  LcpFrames    \* the LCP frames the peer can send

LcpKinds == {"MagicNumber", "AuthProtocol", "Pfc", "Acfc", "Mru", "Unknown"}
LcpData  == Magics \cup {Malformed, "MsChapV2", "OtherAuth", "Flag"}

ASSUME LcpFramesAssumption == LcpFrames \subseteq Frames("Lcp", LcpKinds, LcpData)

(* Four bytes are a magic number, anything else is malformed. *)
ASSUME MagicAssumption ==
  \A f \in LcpFrames :
    "MagicNumber" \in DOMAIN f.opts => f.opts["MagicNumber"] \in Magics \cup {Malformed}

VARIABLE lcp   \* struct Lcp

lcpVars == <<lcp, toSend>>

LcpType ==
  [identifier : Id,
   magic      : Magics,
   desired    : Options({"MagicNumber", "Pfc", "Acfc"}, LcpData),
   lastSentId : Id \cup {None},
   localUp    : BOOLEAN,
   remoteUp   : BOOLEAN,
   peerAuth   : {None, "MsChapV2"}]

InitialDesired(magic) ==
  [k \in {"MagicNumber", "Pfc", "Acfc"} |->
     IF k = "MagicNumber" THEN magic ELSE "Flag"]

NewLcp(magic) ==
  [identifier |-> 0, magic |-> magic, desired |-> InitialDesired(magic),
   lastSentId |-> None, localUp |-> FALSE, remoteUp |-> FALSE,
   peerAuth |-> None]

LcpInit == /\ \E magic \in Magics : lcp = NewLcp(magic)
           /\ toSend = <<>>

LcpIsUp(l) == l.localUp /\ l.remoteUp

-------------------------------------------------------------------------------
(* Lcp::start, called once by the engine. *)
LcpStart == /\ lcp' = Renumbered(lcp)
            /\ toSend' = <<RequestOf("Lcp", lcp')>>

WrongLcpProtocolReject ==      \* moves last_sent_id too
  /\ lcp' = Renumbered(lcp)
  /\ toSend' = <<Frame("Lcp", "ProtocolReject", lcp'.identifier, NoOptions)>>

(* Lcp::build_protocol_reject takes an identifier, and leaves last_sent_id *)
(* alone: the answer to our outstanding request must still match.          *)
LcpProtocolReject ==
  /\ lcp' = [lcp EXCEPT !.identifier = NextId(@)]
  /\ toSend' = <<Frame("Lcp", "ProtocolReject", lcp'.identifier, NoOptions)>>

-------------------------------------------------------------------------------
(* evaluate_peer_options: what we reject, what we answer with a suggestion, *)
(* and the authentication the request asks for.  The auth requirement is   *)
(* recorded while the options are being read, whatever the answer will be. *)

Unacceptable(opts) ==
  {k \in DOMAIN opts : \/ k = "Unknown"
                       \/ k \in {"MagicNumber", "AuthProtocol"} /\ opts[k] = Malformed}

LoopedBack(l, opts) == "MagicNumber" \in DOMAIN opts /\ opts["MagicNumber"] = l.magic

UnsupportedAuth(opts) ==
  "AuthProtocol" \in DOMAIN opts /\ opts["AuthProtocol"] \notin {"MsChapV2", Malformed}

Suggestions(l, opts, newMagic) ==
  LET kinds == {k \in DOMAIN opts : \/ k = "MagicNumber" /\ LoopedBack(l, opts)
                                    \/ k = "AuthProtocol" /\ UnsupportedAuth(opts)}
  IN  [k \in kinds |-> IF k = "MagicNumber" THEN newMagic ELSE "MsChapV2"]

WrongProposed(l, opts) == l.peerAuth      \* never records it

Proposed(l, opts) ==
  IF "AuthProtocol" \in DOMAIN opts /\ opts["AuthProtocol"] = "MsChapV2"
  THEN "MsChapV2" ELSE l.peerAuth

LcpReceiveConfigureRequest(f) ==
  /\ f.code = "ConfigureRequest"
  /\ \E newMagic \in Magics :   \* rand::random()
       LET reject == Restrict(f.opts, Unacceptable(f.opts))
           nak    == Suggestions(lcp, f.opts, newMagic)
           answer == Answer("Lcp", f, reject, nak)
       IN  /\ lcp' = [lcp EXCEPT !.peerAuth = Proposed(lcp, f.opts),
                                 !.remoteUp = (answer.code = "ConfigureAck")]
           /\ toSend' = <<answer>>

LcpReceiveConfigureAck(f) ==
  /\ f.code = "ConfigureAck" /\ AnswersLastRequest(lcp, f)
  /\ lcp' = [lcp EXCEPT !.localUp = TRUE]
  /\ toSend' = <<>>

WrongAdoptedMagic(l, suggested) == l.magic      \* keeps the one the peer refused

(* apply_nak: a well-formed magic number also becomes our own. *)
AdoptedMagic(l, suggested) ==
  IF "MagicNumber" \in DOMAIN suggested /\ suggested["MagicNumber"] \in Magics
  THEN suggested["MagicNumber"] ELSE l.magic

WrongLcpReceiveConfigureNak(f) ==      \* local_up survives the Nak
  /\ f.code = "ConfigureNak" /\ AnswersLastRequest(lcp, f)
  /\ lcp' = Renumbered([lcp EXCEPT !.desired = ApplyNak(@, f.opts),
                                   !.magic   = AdoptedMagic(lcp, f.opts)])
  /\ toSend' = <<RequestOf("Lcp", lcp')>>

WrongLcpRequestAfterNak(f) ==      \* encodes the new request before the Nak is applied
  /\ f.code = "ConfigureNak" /\ AnswersLastRequest(lcp, f)
  /\ lcp' = Renumbered([lcp EXCEPT !.desired = ApplyNak(@, f.opts),
                                   !.magic   = AdoptedMagic(lcp, f.opts),
                                   !.localUp = FALSE])
  /\ toSend' = <<RequestOf("Lcp", Renumbered(lcp))>>

LcpReceiveConfigureNak(f) ==
  /\ f.code = "ConfigureNak" /\ AnswersLastRequest(lcp, f)
  /\ lcp' = Renumbered([lcp EXCEPT !.desired = ApplyNak(@, f.opts),
                                   !.magic   = AdoptedMagic(lcp, f.opts),
                                   !.localUp = FALSE])
  /\ toSend' = <<RequestOf("Lcp", lcp')>>

WrongLcpReceiveConfigureReject(f) ==      \* sends no new request
  /\ f.code = "ConfigureReject" /\ AnswersLastRequest(lcp, f)
  /\ lcp' = [lcp EXCEPT !.desired = ApplyReject(@, f.opts), !.localUp = FALSE]
  /\ toSend' = <<>>

LcpReceiveConfigureReject(f) ==
  /\ f.code = "ConfigureReject" /\ AnswersLastRequest(lcp, f)
  /\ lcp' = Renumbered([lcp EXCEPT !.desired = ApplyReject(@, f.opts),
                                   !.localUp = FALSE])
  /\ toSend' = <<RequestOf("Lcp", lcp')>>

(* The Echo-Reply starts with our own magic number. *)
LcpReceiveEchoRequest(f) ==
  /\ f.code = "EchoRequest"
  /\ toSend' = <<Frame("Lcp", "EchoReply", f.id, [k \in {"MagicNumber"} |-> lcp.magic])>>
  /\ UNCHANGED lcp

LcpReceiveTerminateRequest(f) ==
  /\ f.code = "TerminateRequest"
  /\ lcp' = [lcp EXCEPT !.localUp = FALSE, !.remoteUp = FALSE]
  /\ toSend' = <<Frame("Lcp", "TerminateAck", f.id, NoOptions)>>

LcpIgnore(f) ==
  /\ \/ f.code \in {"TerminateAck", "ProtocolReject", "EchoReply", "Ignored", "Undecodable"}
     \/ /\ f.code \in {"ConfigureAck", "ConfigureNak", "ConfigureReject"}
        /\ ~AnswersLastRequest(lcp, f)
  /\ toSend' = <<>>
  /\ UNCHANGED lcp

(* Lcp::receive *)
LcpReceive(f) ==
  \/ LcpReceiveConfigureRequest(f)
  \/ LcpReceiveConfigureAck(f)
  \/ LcpReceiveConfigureNak(f)
  \/ LcpReceiveConfigureReject(f)
  \/ LcpReceiveEchoRequest(f)
  \/ LcpReceiveTerminateRequest(f)
  \/ LcpIgnore(f)

LcpNext == \/ lcp.lastSentId = None /\ LcpStart
           \/ LcpProtocolReject
           \/ \E f \in LcpFrames : LcpReceive(f)

LcpSpec == LcpInit /\ [][LcpNext]_lcpVars

-------------------------------------------------------------------------------
(* Every reachable struct Lcp has the type Rust gives it; in particular the *)
(* option list never holds a kind we did not start with (lcp.rs:68).       *)
LcpTypeOK == lcp \in LcpType

(* The magic number we offer is the one we use in Echo-Replies and in the   *)
(* loopback test: a Nak (lcp.rs:224-233) must move both or neither.        *)
OfferedMagicIsOurs ==
  "MagicNumber" \in DOMAIN lcp.desired =>
    lcp.desired["MagicNumber"] \in {lcp.magic, Malformed}

(* Neither direction goes down silently: the step that resets it sends the  *)
(* peer a new request, a Nak, a Reject or a Terminate-Ack (lcp.rs:110-157). *)
DownIsAnnounced ==
  [][/\ lcp.localUp /\ ~lcp'.localUp =>
          \E i \in DOMAIN toSend' : toSend'[i].code \in {"ConfigureRequest", "TerminateAck"}
     /\ lcp.remoteUp /\ ~lcp'.remoteUp =>
          \E i \in DOMAIN toSend' :
            toSend'[i].code \in {"ConfigureNak", "ConfigureReject", "TerminateAck"}]_lcpVars

(* While our direction is up, the peer has acknowledged the options we hold *)
(* now: nothing but a fresh Ack can follow a change of `desired`.          *)
WantsFixedWhileUp ==
  [][lcp.localUp /\ lcp'.localUp => lcp'.desired = lcp.desired]_lcpVars
===============================================================================
