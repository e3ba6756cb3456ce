------------------------------- MODULE MCEngine -------------------------------
(* Engine against an arbitrary peer.  The frames keep what moves the engine *)
(* from phase to phase; the rich option lists are the business of           *)
(* MCAutomata.                                                              *)
EXTENDS Engine, TLC

Opt1(k, v) == [x \in {k} |-> v]

MCLcpFrames ==
  {Frame("Lcp", "ConfigureRequest", 0, o) :
     o \in {NoOptions, Opt1("AuthProtocol", "MsChapV2"), Opt1("AuthProtocol", "OtherAuth")}}
  \cup {Frame("Lcp", "ConfigureAck", i, NoOptions) : i \in Id}
  \cup {Frame("Lcp", c, 0, NoOptions) : c \in {"TerminateRequest", "Ignored"}}

MCIpcpFrames ==
  {Frame("Ipcp", "ConfigureRequest", 0, o) :
     o \in {Opt1("IpAddress", Unspecified), Opt1("IpAddress", Malformed)}}
  \cup {Frame("Ipcp", "ConfigureAck", i, NoOptions) : i \in Id}
  \cup {Frame("Ipcp", "ConfigureNak", i, Opt1("IpAddress", a)) :
           i \in Id, a \in Addresses \ {Unspecified}}
  \cup {Frame("Ipcp", c, 0, NoOptions) : c \in {"TerminateRequest", "Ignored"}}

MCChapFrames ==
  [proto : {"Chap"}, code : {"Challenge"}, id : {0}, value : Challenges \cup {Malformed}]
  \cup [proto : {"Chap"}, code : {"Success"}, id : {0},
        value : {Vouching(r) : r \in NtResponses} \cup {Malformed}]
  \cup [proto : {"Chap"}, code : {"Failure"}, id : {0}, value : {Malformed}]

MCCtrlPackets ==
  [proto : {"Ctrl"}, code : {"ConnectAck"}, bind : Bindings \cup {None, Malformed}]
  \cup [proto : {"Ctrl"}, code : CtrlCodes \ {"ConnectAck"}, bind : {None}]

MCPeerPackets ==
  MCCtrlPackets \cup MCLcpFrames \cup MCIpcpFrames \cup MCChapFrames \cup OtherData

(* The engine only compares challenges and nonces with themselves. *)
MCSymmetry ==
  Permutations(Challenges) \cup Permutations(PeerChallenges) \cup Permutations(Nonces)
===============================================================================
