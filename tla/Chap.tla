--------------------------------- MODULE Chap ---------------------------------
(***************************************************************************)
(* MS-CHAPv2 as the engine uses it (sstp-proto/src/chap_fsm.rs), with the  *)
(* cryptography symbolic: an NT response, an authenticator and a key are   *)
(* terms that name what they are computed from, under the one password the *)
(* two ends share.  Different inputs give different terms.                 *)
(***************************************************************************)
CONSTANTS
  Challenges,       \* 16-byte challenges an authenticator can issue
  PeerChallenges    \* 16-byte random peer challenges we can draw

ChapCodes == {"Challenge", "Response", "Success", "Failure",
              "Unknown",        \* any other code
              "Undecodable"}    \* chap_fsm::decode returns None

(* generate_nt_response *)
NtResponse(authChallenge, peerChallenge) ==
  [authChallenge |-> authChallenge, peerChallenge |-> peerChallenge]

NtResponses == [authChallenge : Challenges, peerChallenge : PeerChallenges]

(* struct PendingResponse *)
Pending(ntResponse) ==
  [peerChallenge |-> ntResponse.peerChallenge, ntResponse |-> ntResponse]

PendingResponses == [peerChallenge : PeerChallenges, ntResponse : NtResponses]

(* generate_authenticator_response: only a holder of the password makes it. *)
Authenticator(ntResponse, peerChallenge, authChallenge) ==
  [ntResponse |-> ntResponse, peerChallenge |-> peerChallenge,
   authChallenge |-> authChallenge]

(* What a password holder answers to the response it checked: the authenticator *)
(* over the challenge it issued and the peer challenge it was sent.         *)
Vouching(ntResponse) ==
  Authenticator(ntResponse, ntResponse.peerChallenge, ntResponse.authChallenge)

WrongVerifySuccess(data, pending, authChallenge) == TRUE   \* trusts the code of the frame

(* verify_success recomputes the authenticator from the pending response    *)
(* and the challenge the engine stored beside it.                           *)
VerifySuccess(data, pending, authChallenge) ==
  data = Authenticator(pending.ntResponse, pending.peerChallenge, authChallenge)

(* mppe::mppe_get_keys *)
MppeKeys(ntResponse) == [mppe |-> ntResponse]
===============================================================================
