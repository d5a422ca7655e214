---------------------------- MODULE MCWindowServer ----------------------------
(***************************************************************************)
(* A window with room for two requests, its page with two and one other    *)
(* program, which sends what a page of the internet, a wrong address, a    *)
(* browser looking for an icon or nobody in particular would.              *)
(***************************************************************************)
EXTENDS WindowServer, MCControlWindow

CONSTANTS x1

OneFile == net :> 1

Sends(head, host, origin, route, token) ==
  [head |-> head, host |-> host, origin |-> origin, route |-> route,
   token |-> token, body |-> "short"]

MCSends ==
  {Sends("coming", TRUE, "none", "api", FALSE),
   Sends("whole", FALSE, "other", "api", FALSE),
   Sends("whole", TRUE, "none", "icon", FALSE)}
===============================================================================
