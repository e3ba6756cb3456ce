------------------------------- MODULE IpcpProofs ------------------------------
(***************************************************************************)
(* Theorems about Ipcp, for every peer and every value of the constants.   *)
(***************************************************************************)
EXTENDS Ipcp, CpProofs

(* An IPCP automaton that numbers a request keeps its type. *)
LEMMA IpcpRenumberedType ==
  ASSUME NEW i \in IpcpType PROVE Renumbered(i) \in IpcpType
  BY NextIdType DEF Renumbered, IpcpType

(* An address captured from our options is an address or what it was. *)
LEMMA CapturedType ==
  ASSUME ipcp \in IpcpType, NEW kind, NEW old \in OptionalAddress
  PROVE  Captured(ipcp, kind, old) \in OptionalAddress
  BY DEF Captured, OptionalAddress

(* Every arm of Ipcp::receive keeps the type of struct Ipcp. *)
LEMMA IpcpReceiveType ==
  ASSUME ipcp \in IpcpType, NEW f \in Frames("Ipcp", IpcpKinds, IpcpData), IpcpReceive(f)
  PROVE  ipcp' \in IpcpType
<1>1. /\ f.opts \in Options(IpcpKinds, IpcpData)
      /\ ipcp.desired \in Options(OurKinds, IpcpData)
  BY DEF Frames, IpcpType
<1>2. CASE IpcpReceiveConfigureRequest(f)
  <2>1. AnnouncedIp(ipcp, f.opts) \in OptionalAddress
    BY DEF AnnouncedIp, OptionalAddress, IpcpType
  <2> QED
    BY <1>2, <2>1 DEF IpcpReceiveConfigureRequest, IpcpType
<1>3. CASE IpcpReceiveConfigureAck(f)
  <2>1. /\ Captured(ipcp, "IpAddress", ipcp.localIp) \in OptionalAddress
        /\ Captured(ipcp, "PrimaryDns", ipcp.dns1) \in OptionalAddress
        /\ Captured(ipcp, "SecondaryDns", ipcp.dns2) \in OptionalAddress
    BY CapturedType DEF IpcpType
  <2> QED
    BY <1>3, <2>1 DEF IpcpReceiveConfigureAck, IpcpType
<1>4. CASE IpcpReceiveConfigureNak(f)
  <2> DEFINE i == [ipcp EXCEPT !.desired = ApplyNak(@, f.opts), !.localUp = FALSE]
  <2>1. ApplyNak(ipcp.desired, f.opts) \in Options(OurKinds, IpcpData)
    BY <1>1, ApplyNakType
  <2>2. i \in IpcpType
    BY <2>1 DEF IpcpType
  <2> QED
    BY <1>4, <2>2, IpcpRenumberedType DEF IpcpReceiveConfigureNak
<1>5. CASE IpcpReceiveConfigureReject(f)
  <2> DEFINE i == [ipcp EXCEPT !.desired = ApplyReject(@, f.opts), !.localUp = FALSE]
  <2>1. ApplyReject(ipcp.desired, f.opts) \in Options(OurKinds, IpcpData)
    BY <1>1, ApplyRejectType
  <2>2. i \in IpcpType
    BY <2>1 DEF IpcpType
  <2> QED
    BY <1>5, <2>2, IpcpRenumberedType DEF IpcpReceiveConfigureReject
<1>6. CASE IpcpReceiveTerminateRequest(f)
  BY <1>6 DEF IpcpReceiveTerminateRequest, IpcpType
<1>7. CASE IpcpIgnore(f)
  BY <1>7 DEF IpcpIgnore
<1> QED
  BY <1>2, <1>3, <1>4, <1>5, <1>6, <1>7 DEF IpcpReceive

(* So does each start. *)
LEMMA IpcpStartType == ASSUME ipcp \in IpcpType, IpcpStart PROVE ipcp' \in IpcpType
  BY IpcpRenumberedType DEF IpcpStart

(* A new automaton has the type. *)
LEMMA NewIpcpType == NewIpcp \in IpcpType
<1>1. [k \in OurKinds |-> Unspecified] \in Options(OurKinds, IpcpData)
  BY UnspecifiedIsAddress DEF Options, IpcpData
<1>2. 0 \in Id
  BY IdModulusAssumption DEF Id
<1> QED
  BY <1>1, <1>2 DEF NewIpcp, IpcpType, OptionalAddress

-------------------------------------------------------------------------------
(* struct Ipcp is well typed whatever the peer sends and however often the  *)
(* engine starts IPCP again.                                                *)
THEOREM IpcpIsTyped == IpcpSpec => []IpcpTypeOK
<1>1. IpcpInit => IpcpTypeOK
  BY NewIpcpType DEF IpcpInit, IpcpTypeOK
<1>2. IpcpTypeOK /\ [IpcpNext]_ipcpVars => IpcpTypeOK'
  BY IpcpStartType, IpcpReceiveType, IpcpFramesAssumption DEF IpcpTypeOK, IpcpNext, ipcpVars
<1> QED
  BY <1>1, <1>2, PTL DEF IpcpSpec

(* What the interface is configured with is what the peer acknowledged,     *)
(* for as long as our direction is up.                                      *)
THEOREM IpcpUpMeansCaptured == IpcpSpec => []UpMeansCaptured
<1>1. IpcpInit => UpMeansCaptured
  BY DEF IpcpInit, NewIpcp, UpMeansCaptured
<1>2. IpcpTypeOK /\ UpMeansCaptured /\ [IpcpNext]_ipcpVars => UpMeansCaptured'
  <2> SUFFICES ASSUME IpcpTypeOK, UpMeansCaptured, [IpcpNext]_ipcpVars
               PROVE  UpMeansCaptured'
    OBVIOUS
  <2> USE DEF IpcpTypeOK, IpcpType
  <2>1. ASSUME NEW f \in IpcpFrames, IpcpReceiveConfigureAck(f) PROVE UpMeansCaptured'
    BY <2>1 DEF IpcpReceiveConfigureAck, UpMeansCaptured, Captured
  <2>2. ASSUME NEW f \in IpcpFrames,
               \/ IpcpReceiveConfigureNak(f) \/ IpcpReceiveConfigureReject(f)
               \/ IpcpReceiveTerminateRequest(f)
        PROVE  ~ipcp'.localUp
    BY <2>2 DEF IpcpReceiveConfigureNak, IpcpReceiveConfigureReject,
                IpcpReceiveTerminateRequest, Renumbered
  <2>3. ASSUME \/ IpcpStart \/ UNCHANGED ipcpVars
               \/ \E f \in IpcpFrames : IpcpReceiveConfigureRequest(f) \/ IpcpIgnore(f)
        PROVE  /\ ipcp'.localUp = ipcp.localUp /\ ipcp'.desired = ipcp.desired
               /\ ipcp'.localIp = ipcp.localIp
               /\ ipcp'.dns1 = ipcp.dns1 /\ ipcp'.dns2 = ipcp.dns2
    BY <2>3 DEF IpcpStart, Renumbered, ipcpVars, IpcpReceiveConfigureRequest, IpcpIgnore
  <2> QED
    BY <2>1, <2>2, <2>3 DEF UpMeansCaptured, Captured, IpcpNext, IpcpReceive
<1> QED
  BY <1>1, <1>2, IpcpIsTyped, PTL DEF IpcpSpec
===============================================================================
