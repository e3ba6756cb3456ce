--------------------------------- MODULE Ipcp ---------------------------------
(***************************************************************************)
(* The IPCP automaton of sstp-proto/src/ipcp.rs: struct Ipcp as the record *)
(* `ipcp`, one action per arm of Ipcp::receive.                            *)
(***************************************************************************)
EXTENDS Cp

CONSTANTS
  Addresses,    \* IPv4 addresses
  Unspecified,  \* 0.0.0.0, our way of asking for an address
  IpcpFrames    \* the IPCP frames the peer can send

OurKinds  == {"IpAddress", "PrimaryDns", "SecondaryDns"}
IpcpKinds == OurKinds \cup {"Unknown"}
IpcpData  == Addresses \cup {Malformed}

ASSUME UnspecifiedIsAddress == Unspecified \in Addresses
ASSUME SpecialsNoAddress    == None \notin Addresses /\ Malformed \notin Addresses
ASSUME IpcpFramesAssumption == IpcpFrames \subseteq Frames("Ipcp", IpcpKinds, IpcpData)

VARIABLE ipcp   \* struct Ipcp

ipcpVars == <<ipcp, toSend>>

OptionalAddress == Addresses \cup {None}

IpcpType ==
  [identifier : Id,
   desired    : Options(OurKinds, IpcpData),
   lastSentId : Id \cup {None},
   localUp    : BOOLEAN,
   remoteUp   : BOOLEAN,
   localIp    : OptionalAddress,    \* localIp, peerIp, dns1 and dns2 are
   peerIp     : OptionalAddress,    \* struct NegotiatedConfig
   dns1       : OptionalAddress,
   dns2       : OptionalAddress]

NewIpcp ==
  [identifier |-> 0, desired |-> [k \in OurKinds |-> Unspecified],
   lastSentId |-> None, localUp |-> FALSE, remoteUp |-> FALSE,
   localIp |-> None, peerIp |-> None, dns1 |-> None, dns2 |-> None]

IpcpInit == ipcp = NewIpcp /\ toSend = <<>>

IpcpIsUp(i) == i.localUp /\ i.remoteUp

-------------------------------------------------------------------------------
(* Ipcp::start runs again when the engine authenticates again: it leaves   *)
(* local_up, remote_up and the negotiated values as they are.              *)
IpcpStart == /\ ipcp' = Renumbered(ipcp)
             /\ toSend' = <<RequestOf("Ipcp", ipcp')>>

(* evaluate_peer_options accepts an IP-Address option and nothing else; it *)
(* keeps the address even when the request is rejected for another option. *)
UnacceptableToIpcp(opts) ==
  {k \in DOMAIN opts : k # "IpAddress" \/ opts[k] \notin Addresses}

AnnouncedIp(i, opts) ==
  IF "IpAddress" \in DOMAIN opts /\ opts["IpAddress"] \in Addresses
  THEN opts["IpAddress"] ELSE i.peerIp

IpcpReceiveConfigureRequest(f) ==
  /\ f.code = "ConfigureRequest"
  /\ LET answer == Answer("Ipcp", f, Restrict(f.opts, UnacceptableToIpcp(f.opts)), NoOptions)
     IN  /\ ipcp' = [ipcp EXCEPT !.peerIp   = AnnouncedIp(ipcp, f.opts),
                                 !.remoteUp = (answer.code = "ConfigureAck")]
         /\ toSend' = <<answer>>

(* capture_accepted_values: each well-formed address among our options.    *)
Captured(i, kind, old) ==
  IF kind \in DOMAIN i.desired /\ i.desired[kind] \in Addresses
  THEN i.desired[kind] ELSE old

WrongIpcpReceiveConfigureAck(f) ==   \* captures when the Nak arrives instead
  /\ f.code = "ConfigureAck" /\ AnswersLastRequest(ipcp, f)
  /\ ipcp' = [ipcp EXCEPT !.localUp = TRUE]
  /\ toSend' = <<>>

IpcpReceiveConfigureAck(f) ==
  /\ f.code = "ConfigureAck" /\ AnswersLastRequest(ipcp, f)
  /\ ipcp' = [ipcp EXCEPT !.localIp = Captured(ipcp, "IpAddress", @),
                          !.dns1    = Captured(ipcp, "PrimaryDns", @),
                          !.dns2    = Captured(ipcp, "SecondaryDns", @),
                          !.localUp = TRUE]
  /\ toSend' = <<>>

WrongIpcpReceiveConfigureNak(f) ==   \* local_up survives the Nak
  /\ f.code = "ConfigureNak" /\ AnswersLastRequest(ipcp, f)
  /\ ipcp' = Renumbered([ipcp EXCEPT !.desired = ApplyNak(@, f.opts)])
  /\ toSend' = <<RequestOf("Ipcp", ipcp')>>

IpcpReceiveConfigureNak(f) ==
  /\ f.code = "ConfigureNak" /\ AnswersLastRequest(ipcp, f)
  /\ ipcp' = Renumbered([ipcp EXCEPT !.desired = ApplyNak(@, f.opts), !.localUp = FALSE])
  /\ toSend' = <<RequestOf("Ipcp", ipcp')>>

IpcpReceiveConfigureReject(f) ==
  /\ f.code = "ConfigureReject" /\ AnswersLastRequest(ipcp, f)
  /\ ipcp' = Renumbered([ipcp EXCEPT !.desired = ApplyReject(@, f.opts), !.localUp = FALSE])
  /\ toSend' = <<RequestOf("Ipcp", ipcp')>>

IpcpReceiveTerminateRequest(f) ==
  /\ f.code = "TerminateRequest"
  /\ ipcp' = [ipcp EXCEPT !.localUp = FALSE, !.remoteUp = FALSE]
  /\ toSend' = <<Frame("Ipcp", "TerminateAck", f.id, NoOptions)>>

IpcpIgnore(f) ==
  /\ \/ f.code \in {"TerminateAck", "ProtocolReject", "EchoRequest", "EchoReply",
                    "Ignored", "Undecodable"}
     \/ /\ f.code \in {"ConfigureAck", "ConfigureNak", "ConfigureReject"}
        /\ ~AnswersLastRequest(ipcp, f)
  /\ toSend' = <<>>
  /\ UNCHANGED ipcp

(* Ipcp::receive *)
IpcpReceive(f) ==
  \/ IpcpReceiveConfigureRequest(f)
  \/ IpcpReceiveConfigureAck(f)
  \/ IpcpReceiveConfigureNak(f)
  \/ IpcpReceiveConfigureReject(f)
  \/ IpcpReceiveTerminateRequest(f)
  \/ IpcpIgnore(f)

IpcpNext == IpcpStart \/ \E f \in IpcpFrames : IpcpReceive(f)

IpcpSpec == IpcpInit /\ [][IpcpNext]_ipcpVars

-------------------------------------------------------------------------------
(* Every reachable struct Ipcp has the type Rust gives it. *)
IpcpTypeOK == ipcp \in IpcpType

(* While our direction is up, each address we hold for the interface is the *)
(* one in the options the peer has acknowledged (ipcp.rs:33, 179-189): no  *)
(* Nak, Reject or later request slips in between.                          *)
UpMeansCaptured ==
  ipcp.localUp =>
    /\ Captured(ipcp, "IpAddress", ipcp.localIp) = ipcp.localIp
    /\ Captured(ipcp, "PrimaryDns", ipcp.dns1) = ipcp.dns1
    /\ Captured(ipcp, "SecondaryDns", ipcp.dns2) = ipcp.dns2
===============================================================================
