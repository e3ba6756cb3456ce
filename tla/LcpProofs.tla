------------------------------- MODULE LcpProofs -------------------------------
(***************************************************************************)
(* Theorems about Lcp, for every peer and every value of the constants.    *)
(***************************************************************************)
EXTENDS Lcp, CpProofs

(* An LCP automaton that numbers a request keeps its type. *)
LEMMA LcpRenumberedType ==
  ASSUME NEW l \in LcpType PROVE Renumbered(l) \in LcpType
  BY NextIdType, IdModulusAssumption DEF Renumbered, LcpType

(***************************************************************************)
(* Every arm of Lcp::receive keeps the type of struct Lcp.                 *)
(***************************************************************************)
LEMMA LcpReceiveType ==
  ASSUME lcp \in LcpType, NEW f \in Frames("Lcp", LcpKinds, LcpData), LcpReceive(f)
  PROVE  lcp' \in LcpType
<1> DEFINE S == {"MagicNumber", "Pfc", "Acfc"}
<1>1. /\ f.opts \in Options(LcpKinds, LcpData)
      /\ lcp.desired \in Options(S, LcpData)
  BY DEF Frames, LcpType
<1>2. CASE LcpReceiveConfigureRequest(f)
  <2>1. Proposed(lcp, f.opts) \in {None, "MsChapV2"}
    BY DEF Proposed, LcpType
  <2> QED
    BY <1>2, <2>1 DEF LcpReceiveConfigureRequest, LcpType
<1>3. CASE LcpReceiveConfigureAck(f)
  BY <1>3 DEF LcpReceiveConfigureAck, LcpType
<1>4. CASE LcpReceiveConfigureNak(f)
  <2> DEFINE l == [lcp EXCEPT !.desired = ApplyNak(@, f.opts),
                              !.magic   = AdoptedMagic(lcp, f.opts),
                              !.localUp = FALSE]
  <2>1. ApplyNak(lcp.desired, f.opts) \in Options(S, LcpData)
    BY <1>1, ApplyNakType
  <2>2. AdoptedMagic(lcp, f.opts) \in Magics
    BY DEF AdoptedMagic, LcpType
  <2>3. l \in LcpType
    BY <2>1, <2>2 DEF LcpType
  <2> QED
    BY <1>4, <2>3, LcpRenumberedType DEF LcpReceiveConfigureNak
<1>5. CASE LcpReceiveConfigureReject(f)
  <2> DEFINE l == [lcp EXCEPT !.desired = ApplyReject(@, f.opts), !.localUp = FALSE]
  <2>1. ApplyReject(lcp.desired, f.opts) \in Options(S, LcpData)
    BY <1>1, ApplyRejectType
  <2>2. l \in LcpType
    BY <2>1 DEF LcpType
  <2> QED
    BY <1>5, <2>2, LcpRenumberedType DEF LcpReceiveConfigureReject
<1>6. CASE LcpReceiveEchoRequest(f)
  BY <1>6 DEF LcpReceiveEchoRequest
<1>7. CASE LcpReceiveTerminateRequest(f)
  BY <1>7 DEF LcpReceiveTerminateRequest, LcpType
<1>8. CASE LcpIgnore(f)
  BY <1>8 DEF LcpIgnore
<1> QED
  BY <1>2, <1>3, <1>4, <1>5, <1>6, <1>7, <1>8 DEF LcpReceive

(* The first request keeps the type. *)
LEMMA LcpStartType == ASSUME lcp \in LcpType, LcpStart PROVE lcp' \in LcpType
  BY LcpRenumberedType DEF LcpStart

(* So does a Protocol-Reject. *)
LEMMA LcpProtocolRejectType ==
  ASSUME lcp \in LcpType, LcpProtocolReject PROVE lcp' \in LcpType
  BY NextIdType DEF LcpProtocolReject, LcpType

(* A new automaton has the type. *)
LEMMA NewLcpType == ASSUME NEW m \in Magics PROVE NewLcp(m) \in LcpType
<1> DEFINE S == {"MagicNumber", "Pfc", "Acfc"}
<1>a. \A k \in S : (IF k = "MagicNumber" THEN m ELSE "Flag") \in LcpData
  BY DEF LcpData
<1>b. InitialDesired(m) \in [S -> LcpData]
  BY <1>a DEF InitialDesired
<1>1. InitialDesired(m) \in Options(S, LcpData)
  <2> HIDE DEF S
  <2> QED  BY <1>b DEF Options
<1>2. 0 \in Id
  BY IdModulusAssumption DEF Id
<1> QED
  BY <1>1, <1>2 DEF NewLcp, LcpType

-------------------------------------------------------------------------------
(* struct Lcp is well typed whatever the peer sends; the option list never  *)
(* grows.                                                                   *)
THEOREM LcpIsTyped == LcpSpec => []LcpTypeOK
<1>1. LcpInit => LcpTypeOK
  BY NewLcpType DEF LcpInit, LcpTypeOK
<1>2. LcpTypeOK /\ [LcpNext]_lcpVars => LcpTypeOK'
  <2> SUFFICES ASSUME LcpTypeOK, [LcpNext]_lcpVars PROVE lcp' \in LcpType
    BY DEF LcpTypeOK
  <2> USE DEF LcpTypeOK
  <2>1. CASE LcpStart
    BY <2>1, LcpStartType
  <2>2. CASE LcpProtocolReject
    BY <2>2, LcpProtocolRejectType
  <2>3. ASSUME NEW f \in LcpFrames, LcpReceive(f) PROVE lcp' \in LcpType
    BY <2>3, LcpReceiveType, LcpFramesAssumption
  <2>4. CASE UNCHANGED lcpVars
    BY <2>4 DEF lcpVars
  <2> QED
    BY <2>1, <2>2, <2>3, <2>4 DEF LcpNext
<1> QED
  BY <1>1, <1>2, PTL DEF LcpSpec

(* The magic number in our request and the one in our Echo-Replies and in   *)
(* the loopback test never part, whatever is suggested or rejected.         *)
THEOREM LcpOfferedMagicIsOurs == LcpSpec => []OfferedMagicIsOurs
<1>1. LcpInit => OfferedMagicIsOurs
  BY DEF LcpInit, NewLcp, InitialDesired, OfferedMagicIsOurs
<1>2. LcpTypeOK /\ OfferedMagicIsOurs /\ [LcpNext]_lcpVars => OfferedMagicIsOurs'
  <2> SUFFICES ASSUME LcpTypeOK, OfferedMagicIsOurs, [LcpNext]_lcpVars
               PROVE  OfferedMagicIsOurs'
    OBVIOUS
  <2> USE DEF OfferedMagicIsOurs
  <2>1. CASE lcp'.desired = lcp.desired /\ lcp'.magic = lcp.magic
    BY <2>1
  <2>2. ASSUME NEW f \in LcpFrames, LcpReceiveConfigureNak(f) PROVE OfferedMagicIsOurs'
    <3>1. /\ lcp'.desired = ApplyNak(lcp.desired, f.opts)
          /\ lcp'.magic = AdoptedMagic(lcp, f.opts)
      BY <2>2 DEF LcpReceiveConfigureNak, Renumbered, LcpTypeOK, LcpType
    <3>2. PICK K \in SUBSET LcpKinds : f.opts \in [K -> LcpData]
      BY LcpFramesAssumption DEF Frames, Options
    <3>3. SUFFICES ASSUME "MagicNumber" \in DOMAIN lcp'.desired
                   PROVE  lcp'.desired["MagicNumber"] \in {lcp'.magic, Malformed}
      OBVIOUS
    <3>4. "MagicNumber" \in DOMAIN lcp.desired
      BY <3>1, <3>3 DEF ApplyNak
    <3>5. CASE "MagicNumber" \in DOMAIN f.opts
      <4>1. lcp'.desired["MagicNumber"] = f.opts["MagicNumber"]
        BY <3>1, <3>4, <3>5 DEF ApplyNak
      <4>2. f.opts["MagicNumber"] \in Magics \cup {Malformed}
        BY MagicAssumption, <3>5
      <4> QED
        BY <3>1, <3>5, <4>1, <4>2 DEF AdoptedMagic
    <3>6. CASE "MagicNumber" \notin DOMAIN f.opts
      <4>1. lcp'.desired["MagicNumber"] = lcp.desired["MagicNumber"]
        BY <3>1, <3>4, <3>6 DEF ApplyNak
      <4> QED
        BY <3>1, <3>4, <3>6, <4>1 DEF AdoptedMagic
    <3> QED
      BY <3>5, <3>6
  <2>3. ASSUME NEW f \in LcpFrames, LcpReceiveConfigureReject(f) PROVE OfferedMagicIsOurs'
    <3>1. /\ lcp'.desired = ApplyReject(lcp.desired, f.opts)
          /\ lcp'.magic = lcp.magic
      BY <2>3 DEF LcpReceiveConfigureReject, Renumbered, LcpTypeOK, LcpType
    <3> QED
      BY <3>1 DEF ApplyReject, Restrict
  <2>4. ASSUME NEW f \in LcpFrames, LcpReceive(f),
               ~LcpReceiveConfigureNak(f), ~LcpReceiveConfigureReject(f)
        PROVE  lcp'.desired = lcp.desired /\ lcp'.magic = lcp.magic
    BY <2>4 DEF LcpReceive, LcpReceiveConfigureRequest, LcpReceiveConfigureAck,
                LcpReceiveEchoRequest, LcpReceiveTerminateRequest, LcpIgnore,
                LcpTypeOK, LcpType
  <2>5. CASE LcpStart \/ LcpProtocolReject \/ UNCHANGED lcpVars
    BY <2>1, <2>5 DEF LcpStart, LcpProtocolReject, Renumbered, lcpVars, LcpTypeOK, LcpType
  <2> QED
    BY <2>1, <2>2, <2>3, <2>4, <2>5 DEF LcpNext
<1> QED
  BY <1>1, <1>2, LcpIsTyped, PTL DEF LcpSpec

(* Our direction is never up on options other than the ones acknowledged:   *)
(* every step that changes them takes it down.                              *)
THEOREM LcpWantsFixedWhileUp == LcpSpec => WantsFixedWhileUp
<1>1. LcpTypeOK /\ [LcpNext]_lcpVars =>
        [lcp.localUp /\ lcp'.localUp => lcp'.desired = lcp.desired]_lcpVars
  <2> SUFFICES ASSUME LcpTypeOK, LcpNext, lcp.localUp, lcp'.localUp
               PROVE  lcp'.desired = lcp.desired
    OBVIOUS
  <2> USE DEF LcpTypeOK, LcpType
  <2>1. CASE LcpStart \/ LcpProtocolReject
    BY <2>1 DEF LcpStart, LcpProtocolReject, Renumbered
  <2>2. ASSUME NEW f \in LcpFrames, LcpReceive(f) PROVE lcp'.desired = lcp.desired
    BY <2>2 DEF LcpReceive, LcpReceiveConfigureRequest, LcpReceiveConfigureAck,
                LcpReceiveConfigureNak, LcpReceiveConfigureReject, Renumbered,
                LcpReceiveEchoRequest, LcpReceiveTerminateRequest, LcpIgnore
  <2> QED
    BY <2>1, <2>2 DEF LcpNext
<1> QED
  BY LcpIsTyped, <1>1, PTL DEF LcpSpec, WantsFixedWhileUp

(* Neither direction goes down without a word: the peer that has heard      *)
(* what the step sends knows that it must negotiate again.                  *)
THEOREM LcpDownIsAnnounced == LcpSpec => DownIsAnnounced
<1> DEFINE LocalAnnounced ==
             lcp.localUp /\ ~lcp'.localUp =>
               \E i \in DOMAIN toSend' : toSend'[i].code \in {"ConfigureRequest", "TerminateAck"}
           RemoteAnnounced ==
             lcp.remoteUp /\ ~lcp'.remoteUp =>
               \E i \in DOMAIN toSend' :
                 toSend'[i].code \in {"ConfigureNak", "ConfigureReject", "TerminateAck"}
<1>1. LcpTypeOK /\ [LcpNext]_lcpVars => [LocalAnnounced /\ RemoteAnnounced]_lcpVars
  <2> SUFFICES ASSUME LcpTypeOK, LcpNext PROVE LocalAnnounced /\ RemoteAnnounced
    OBVIOUS
  <2> USE DEF LcpTypeOK, LcpType
  <2>0. ASSUME NEW p, toSend' = <<p>>
        PROVE  1 \in DOMAIN toSend' /\ toSend'[1] = p
    BY <2>0
  <2>1. CASE LcpStart \/ LcpProtocolReject
    BY <2>1 DEF LcpStart, LcpProtocolReject, Renumbered
  <2>2. ASSUME NEW f \in LcpFrames, LcpReceiveConfigureRequest(f)
        PROVE  LocalAnnounced /\ RemoteAnnounced
    <3>1. PICK answer : /\ toSend' = <<answer>>
                        /\ answer.code \in {"ConfigureAck", "ConfigureNak", "ConfigureReject"}
                        /\ lcp'.localUp = lcp.localUp
                        /\ lcp'.remoteUp = (answer.code = "ConfigureAck")
      BY <2>2 DEF LcpReceiveConfigureRequest, Answer, Frame
    <3> QED
      BY <2>0, <3>1
  <2>3. ASSUME NEW f \in LcpFrames, LcpReceiveConfigureNak(f) \/ LcpReceiveConfigureReject(f)
        PROVE  LocalAnnounced /\ RemoteAnnounced
    <3>1. PICK request : /\ toSend' = <<request>> /\ request.code = "ConfigureRequest"
                         /\ lcp'.remoteUp = lcp.remoteUp
      BY <2>3 DEF LcpReceiveConfigureNak, LcpReceiveConfigureReject, Renumbered, RequestOf, Frame
    <3> QED
      BY <2>0, <3>1
  <2>4. ASSUME NEW f \in LcpFrames, LcpReceiveTerminateRequest(f)
        PROVE  LocalAnnounced /\ RemoteAnnounced
    <3>1. PICK ack : toSend' = <<ack>> /\ ack.code = "TerminateAck"
      BY <2>4 DEF LcpReceiveTerminateRequest, Frame
    <3> QED
      BY <2>0, <3>1
  <2>5. ASSUME NEW f \in LcpFrames,
               LcpReceiveConfigureAck(f) \/ LcpReceiveEchoRequest(f) \/ LcpIgnore(f)
        PROVE  LocalAnnounced /\ RemoteAnnounced
    BY <2>5 DEF LcpReceiveConfigureAck, LcpReceiveEchoRequest, LcpIgnore
  <2> QED
    BY <2>1, <2>2, <2>3, <2>4, <2>5 DEF LcpNext, LcpReceive
<1> QED
  BY LcpIsTyped, <1>1, PTL DEF LcpSpec, DownIsAnnounced
===============================================================================
