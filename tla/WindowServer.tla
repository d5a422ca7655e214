----------------------------- MODULE WindowServer -----------------------------
(***************************************************************************)
(* The control window behind its server: ControlWindow composed with       *)
(* HttpServer.  A call of the page is a socket and, once admitted, the     *)
(* request thread of ControlWindow; other programs of the machine connect  *)
(* too, with whatever they send.                                           *)
(***************************************************************************)
EXTENDS ControlWindow

CONSTANTS
  Strangers,        \* sockets of other programs
  StrangerSends,    \* what they may send
  MaxStrangers,     \* bound: connections they make
  MaxConnections, MaxHead

VARIABLES
  live, conn,   \* the server, as in HttpServer
  visits,       \* connections strangers made
  lost          \* a call of the page that decided whether it is closed was lost

servervars == <<live, conn, visits, lost>>
allvars == <<vars, servervars>>

Server == INSTANCE HttpServer WITH Conns <- Slots \union Strangers

ASSUME ServerAssumption ==
  /\ MaxConnections \in Nat \ {0} /\ MaxHead \in Nat \ {0}
  /\ IsFiniteSet(Slots \union Strangers)
  /\ Slots \intersect Strangers = {} /\ MaxStrangers \in Nat
  /\ StrangerSends \subseteq {r \in Server!Requests : Server!Verdict(r) # "body"}

\* What the page sends: everything a request needs.
OwnRequest ==
  [head |-> "whole", host |-> TRUE, origin |-> "ours", route |-> "api",
   token |-> TRUE, body |-> "whole"]

WindowInit == Init /\ Server!HttpInit /\ visits = 0 /\ lost = FALSE

\* A call of the page.
Call(s) ==
  /\ conn[s] = Server!NoConn /\ PageStep(s) /\ Server!Connect(s, OwnRequest)
  /\ UNCHANGED <<visits, lost>>

Visit(c) ==
  /\ Alive /\ visits < MaxStrangers /\ visits' = visits + 1
  /\ \E r \in StrangerSends : Server!Connect(c, r)
  /\ UNCHANGED <<vars, lost>>

\* The page's call is closed without an answer.  A poll that fails is taken for
\* the program's end once the restore is finished, and is nothing before; a lost
\* request to close is not noticed.
CallLost(s) ==
  /\ Server!Drop(s) \/ Server!NoThread(s)
  /\ slot' = [slot EXCEPT ![s] = Idle]
  /\ LET taken == slot[s].kind = "state" /\ seen.phase = "finished"
     IN /\ stopped' = (stopped \/ taken)
        /\ lost' = (lost \/ taken \/ slot[s].kind = "quit")
  /\ UNCHANGED <<session, main, chan, run, patient, seen, shown, back, maps, restores, visits>>

\* The server's own steps.
Handle(c) ==
  /\ \/ c \in Strangers /\ (Server!Drop(c) \/ Server!NoThread(c))
     \/ Server!Accept(c) \/ Server!Trickle(c) \/ Server!Thread(c)
  /\ UNCHANGED <<vars, visits, lost>>

\* The api: the request thread of ControlWindow, from its admission to its answer.
Api(s) ==
  /\ Server!Admitted(s) /\ Serve(s)
  /\ IF slot'[s] = Idle THEN Server!Answered(s) ELSE UNCHANGED <<live, conn>>
  /\ UNCHANGED <<visits, lost>>

\* Everything that is no request.
Otherwise ==
  /\ MainStep \/ ClickAgain \/ (\E r \in Threads : RunStep(r))
  /\ IF main'.at = "over"
     THEN live' = 0 /\ conn' = [c \in Slots \union Strangers |-> Server!NoConn]
     ELSE UNCHANGED <<live, conn>>
  /\ UNCHANGED <<visits, lost>>

ServerNext ==
  \/ Otherwise
  \/ \E s \in Slots : Call(s) \/ CallLost(s) \/ Api(s)
  \/ \E c \in Strangers : Visit(c)
  \/ \E c \in Slots \union Strangers : Handle(c)

\* As in ControlWindow; the acceptor and the threads of the server run, and a
\* read that nothing arrives for times out.  No caller is made to call, nor one
\* that sends its head in pieces to end it.
ServerSpec ==
  /\ WindowInit /\ [][ServerNext]_allvars
  /\ WF_allvars(MainStep /\ Otherwise)
  /\ \A r \in Threads : WF_allvars(RunStep(r) /\ Otherwise)
  /\ \A s \in Slots : WF_allvars(Api(s)) /\ WF_allvars(CallLost(s) \/ Handle(s))
  /\ \A c \in Strangers : WF_allvars(Handle(c))

-----------------------------------------------------------------------------
(* Properties *)

\* The count is the number of threads that hold a slot, and never over the limit:
\* no way out of serve or handle keeps a slot or gives one back twice.
CountIsTrue ==
  live = Cardinality(Server!Holding) /\ live <= MaxConnections

\* Only strangers fill the server: once they are gone the page's calls are no
\* longer dropped, however its own slots were used before.
PageIsServedAgain == <>[][\A s \in Slots : ~Server!Drop(s)]_allvars

\* "Closed" is true: a page that says the program is closed is right, soon, unless
\* a call was lost on the way (a request to close that never arrived, or a poll
\* that was dropped and taken for the end).
ClosedIsClosed == stopped ~> (~Alive \/ lost)
===============================================================================
