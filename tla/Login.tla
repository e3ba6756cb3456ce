---------------------------------- MODULE Login ---------------------------------
(***************************************************************************)
(* What the engine promises about who may open the tunnel.  A response to  *)
(* a challenge is given once; a holder of the password may vouch for it;   *)
(* the latest response, once vouched for, admits the server, and is spent. *)
(* The tunnel opens only behind that, and what it is keyed by is the       *)
(* response that admitted the server.  The module Engine implements this.  *)
(***************************************************************************)
CONSTANTS
  Responses,   \* responses that can be given
  NoResponse

VARIABLES
  stage,       \* "closed", "admitted", "open" or "over"
  given,       \* every response given so far
  pending,     \* the one that can still admit the server
  vouchedFor,  \* the ones a holder of the password has vouched for
  proof        \* the one that admitted the server last

loginVars == <<stage, given, pending, vouchedFor, proof>>

LoginInit ==
  /\ stage = "closed" /\ proof = NoResponse
  /\ given = {} /\ pending = NoResponse /\ vouchedFor = {}

Give(r) ==
  /\ stage # "over" /\ r \notin given
  /\ given' = given \cup {r} /\ pending' = r
  /\ UNCHANGED <<stage, vouchedFor, proof>>

VouchFor(r) ==
  /\ stage # "over" /\ r \in given
  /\ vouchedFor' = vouchedFor \cup {r}
  /\ UNCHANGED <<stage, given, pending, proof>>

Admit ==
  /\ stage # "over" /\ pending \in vouchedFor
  /\ stage' = "admitted" /\ proof' = pending /\ pending' = NoResponse
  /\ UNCHANGED <<given, vouchedFor>>

Open ==
  /\ stage = "admitted" /\ stage' = "open"
  /\ UNCHANGED <<given, pending, vouchedFor, proof>>

End ==
  /\ stage # "over" /\ stage' = "over"
  /\ pending' \in {pending, NoResponse}
  /\ UNCHANGED <<given, vouchedFor, proof>>

LoginNext == \/ \E r \in Responses : Give(r) \/ VouchFor(r)
             \/ Admit \/ Open \/ End

LoginSpec == LoginInit /\ [][LoginNext]_loginVars
===============================================================================
