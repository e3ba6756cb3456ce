------------------------------ MODULE MCAutomata ------------------------------
(***************************************************************************)
(* Lcp and Ipcp against a peer that can send any of a rich set of frames at *)
(* any time: right, wrong and stale identifiers, and every kind of option.  *)
(* Ipcp::start is called any number of times, as a re-authenticating engine *)
(* does.  The two structs share nothing, so one of them runs while the      *)
(* other stays as it was made.                                              *)
(***************************************************************************)
EXTENDS Lcp, Ipcp

Opt1(k, v) == [x \in {k} |-> v]
Opt2(k1, v1, k2, v2) == [x \in {k1, k2} |-> IF x = k1 THEN v1 ELSE v2]

MCLcpRequests ==
  {NoOptions, Opt1("Mru", "Flag"), Opt1("Unknown", Malformed),
   Opt1("AuthProtocol", Malformed), Opt1("MagicNumber", Malformed),
   Opt2("AuthProtocol", "MsChapV2", "Unknown", Malformed)}
  \cup {Opt1("MagicNumber", m) : m \in Magics}
  \cup {Opt2("AuthProtocol", a, "MagicNumber", m) :
          a \in {"MsChapV2", "OtherAuth"}, m \in Magics}

MCLcpSuggestions ==
  {NoOptions, Opt1("MagicNumber", Malformed), Opt1("Unknown", Malformed)}
  \cup {Opt1("MagicNumber", m) : m \in Magics}

MCLcpRejections ==
  {NoOptions, Opt1("MagicNumber", Malformed), Opt2("Pfc", "Flag", "Acfc", "Flag"),
   Opt1("AuthProtocol", "MsChapV2")}

MCIpcpRequests ==
  {NoOptions, Opt1("IpAddress", Malformed), Opt1("Unknown", Malformed)}
  \cup {Opt1("IpAddress", a) : a \in Addresses}
  \cup {Opt2("IpAddress", a, "Unknown", Malformed) : a \in Addresses}

MCIpcpSuggestions ==
  {NoOptions, Opt1("IpAddress", Malformed), Opt1("Unknown", Malformed)}
  \cup {Opt1("IpAddress", a) : a \in Addresses}
  \cup {Opt2("IpAddress", a, "PrimaryDns", a) : a \in Addresses}

MCIpcpRejections ==
  {NoOptions, Opt1("PrimaryDns", Unspecified), Opt1("IpAddress", Unspecified),
   Opt2("SecondaryDns", Unspecified, "Unknown", Malformed)}

MCFrames(proto, requests, suggestions, rejections) ==
  {Frame(proto, "ConfigureRequest", 0, o) : o \in requests}
  \cup {Frame(proto, "ConfigureAck", i, NoOptions) : i \in Id}
  \cup {Frame(proto, "ConfigureNak", i, o) : i \in Id, o \in suggestions}
  \cup {Frame(proto, "ConfigureReject", i, o) : i \in Id, o \in rejections}
  \cup {Frame(proto, c, 0, NoOptions) :
          c \in {"EchoRequest", "TerminateRequest", "TerminateAck", "Ignored", "Undecodable"}}

MCLcpFrames  == MCFrames("Lcp", MCLcpRequests, MCLcpSuggestions, MCLcpRejections)
MCIpcpFrames == MCFrames("Ipcp", MCIpcpRequests, MCIpcpSuggestions, MCIpcpRejections)

FreshLcp == NewLcp(CHOOSE magic \in Magics : TRUE)

AutomataNext == \/ LcpNext /\ ipcp = NewIpcp /\ UNCHANGED ipcp
                \/ IpcpNext /\ lcp = FreshLcp /\ UNCHANGED lcp

AutomataInit == LcpInit /\ IpcpInit

AutomataSpec == AutomataInit /\ [][AutomataNext]_<<lcp, ipcp, toSend>>
===============================================================================
