------------------------------- MODULE MCSession -------------------------------
(* Sessions one after the other: the user connects again only when no       *)
(* worker of an earlier session is left.  What the earlier session left in  *)
(* the files, the routes and the prompts is still there.                    *)
EXTENDS Session

InTurn == SpawnConnect => \A w \in Sessions : workers[w].pc \in {"unborn", "gone"}

InTurnSpec == SessionInit /\ [][SessionNext /\ InTurn]_sessionVars /\ SessionFairness
===============================================================================
