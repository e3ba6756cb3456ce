---------------------------------- MODULE Link ---------------------------------
(***************************************************************************)
(* What sstp_proto::connection promises the worker that called connect:    *)
(* the connection comes up at most once, with an interface that stays      *)
(* while it is up; it ends once, for good; the interface may outlive it    *)
(* and then goes.  The module Connection implements this, and the worker's *)
(* actions ConnUp, ConnEnds and ReaderExits allow every step of it.        *)
(***************************************************************************)
VARIABLES
  conn,      \* the last Event the worker was sent; "connecting" before the first
  interface  \* a utun interface of the connection exists

linkVars == <<conn, interface>>

LinkInit == conn = "connecting" /\ interface = FALSE

ComesUp == /\ conn = "connecting"
           /\ conn' = "up" /\ interface' = TRUE

(* Nothing else may hold the interface, and then it goes at once. *)
Ends(how) == /\ conn \in {"connecting", "up"}
             /\ conn' = how /\ interface' \in {interface, FALSE}

InterfaceGoes == /\ conn \in {"Disconnected", "Error"} /\ interface
                 /\ interface' = FALSE /\ UNCHANGED conn

LinkNext == \/ ComesUp
            \/ \E how \in {"Disconnected", "Error"} : Ends(how)
            \/ InterfaceGoes

LinkSpec == LinkInit /\ [][LinkNext]_linkVars
===============================================================================
