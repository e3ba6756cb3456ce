---------------------------------- MODULE Cp ----------------------------------
(***************************************************************************)
(* What the two control-protocol automata, LCP (lcp.rs) and IPCP           *)
(* (ipcp.rs), have in common: the frames of cp.rs, the u8 request          *)
(* identifier, and the list of options we want.                            *)
(*                                                                         *)
(* A list of options is a function from the option kinds it contains to    *)
(* their data, so a frame carries a kind at most once; the order on the    *)
(* wire and trailing bytes that do not parse are abstracted away.          *)
(*                                                                         *)
(* Here and in the other modules an operator named Wrong... is a mutated   *)
(* form of the definition that follows it: no specification uses it, a     *)
(* mutation run puts it in that definition's place.                        *)
(***************************************************************************)
EXTENDS Integers, Sequences, Functions

CONSTANTS
  IdModulus,   \* identifiers wrap around here: 256 in the code, a u8
  None,        \* Option::None
  Malformed    \* data of the wrong length for its option or its field

Id == 0 .. IdModulus - 1

ASSUME IdModulusAssumption == IdModulus \in Nat \ {0}
ASSUME NoneIsNoId          == None \notin Id

VARIABLE toSend   \* the frames the last call of a handler returned, in order

CpCodes == {"ConfigureRequest", "ConfigureAck", "ConfigureNak",
            "ConfigureReject", "TerminateRequest", "TerminateAck",
            "ProtocolReject", "EchoRequest", "EchoReply",
            "Ignored",       \* Code-Reject, Discard-Request, unknown codes
            "Undecodable"}   \* cp::decode returns None

Options(kinds, data) == UNION {[K -> data] : K \in SUBSET kinds}
NoOptions == [k \in {} |-> Malformed]

Frame(proto, code, id, opts) ==
  [proto |-> proto, code |-> code, id |-> id, opts |-> opts]

Frames(proto, kinds, data) ==
  [proto : {proto}, code : CpCodes, id : Id, opts : Options(kinds, data)]

WrongNextId(id) == id + 1      \* does not wrap

(* `self.identifier.wrapping_add(1)` *)
NextId(id) == (id + 1) % IdModulus

-------------------------------------------------------------------------------
(* send_config_request: the automaton `a` with the identifier its next     *)
(* Configure-Request takes, and the request that automaton has just sent.  *)

Renumbered(a) == [a EXCEPT !.identifier = NextId(a.identifier),
                           !.lastSentId = NextId(a.identifier)]

RequestOf(proto, a) == Frame(proto, "ConfigureRequest", a.lastSentId, a.desired)

-------------------------------------------------------------------------------
(* apply_nak adopts the suggested data of the kinds we still ask for;      *)
(* apply_reject stops asking for the rejected kinds.                       *)

WrongApplyNak(desired, suggested) ==
  [k \in DOMAIN desired \cup DOMAIN suggested |->
     IF k \in DOMAIN suggested THEN suggested[k] ELSE desired[k]]

ApplyNak(desired, suggested) ==
  [k \in DOMAIN desired |->
     IF k \in DOMAIN suggested THEN suggested[k] ELSE desired[k]]

ApplyReject(desired, rejected) ==
  Restrict(desired, DOMAIN desired \ DOMAIN rejected)

(* The answer to the peer's Configure-Request: Reject beats Nak beats Ack. *)
Answer(proto, f, reject, nak) ==
  IF DOMAIN reject # {} THEN Frame(proto, "ConfigureReject", f.id, reject)
  ELSE IF DOMAIN nak # {} THEN Frame(proto, "ConfigureNak", f.id, nak)
  ELSE Frame(proto, "ConfigureAck", f.id, f.opts)

(* An Ack, Nak or Reject counts only for the request we sent last. *)
AnswersLastRequest(a, f) == f.id = a.lastSentId
===============================================================================
